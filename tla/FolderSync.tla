----------------------------- MODULE FolderSync -----------------------------
(***************************************************************************)
(* How the messages of one IMAP folder are discovered: syncFolder, run by  *)
(* the sync worker and by every PriorityChecker a user starts, reads the   *)
(* cursor last_sync_uid, handles a change of UIDVALIDITY, fetches all      *)
(* messages or enqueues the new ones, moves the cursor, and deletes the    *)
(* rows of expunged messages (reconcileFolderExpunges); the CheckWorker    *)
(* does the same for new messages of INBOX; the queue is worked off beside *)
(* them; ResyncAccount makes a folder start over.                          *)
(*                                                                         *)
(* Each SQL statement or transaction and each IMAP exchange is one step.   *)
(* The queue is used as WorkLedger specifies it: a pending UID is fetched  *)
(* in the end, or deleted locally when the server does not have it.        *)
(* FETCH returns messages in ascending order of UIDs.  A session ends when *)
(* the server renumbers the folder.  Gmail accounts, which skip the        *)
(* reconciliation, are left out.                                           *)
(***************************************************************************)
EXTENDS Naturals, FiniteSets

CONSTANTS
    Msg,         \* messages, told apart by msg_id
    NoMsg,       \* a UID without a message
    Worker,      \* sync workers of the account
    Priority,    \* priority checks, which ResyncAccount does not know of
    Checker,     \* check workers
    MaxUID,      \* bound: UIDs the server assigns
    MaxValidity, \* bound: values UIDVALIDITY takes
    Checkpoint,  \* messages between two checkpoints of a full sync (50)
    Hazards,     \* what may happen beyond new mail, expunges and renumbering
    MaxFaults    \* bound: failures and resyncs

UID == 1 .. MaxUID

Syncer == Worker \cup Priority \cup Checker

ASSUME ConstantsAssumption ==
    /\ IsFiniteSet(Msg)
    /\ NoMsg \notin Msg
    /\ (Worker \cup Priority) \cap Checker = {}
    /\ Worker \cap Priority = {}
    /\ MaxUID \in Nat /\ MaxValidity \in Nat \ {0} /\ Checkpoint \in Nat \ {0}
    /\ Hazards \subseteq {"return", "stop", "imap", "lookup", "write", "reset", "ingest",
                       "resync", "cut"}
    /\ MaxFaults \in Nat

VARIABLES
    server,   \* the folder on the server
    folder,   \* its row in folders
    rows,     \* Msg -> UID of its row in emails, or 0
    queue,    \* UID -> state of its row in email_sync_queue
    syncer,   \* Syncer -> progress of its pass over the folder
    hand,     \* Worker -> the task of the queue it has in hand
    resync,   \* progress of ResetAccountSync
    fresh,    \* messages that were never in the folder (history)
    missed,   \* messages a full sync failed to ingest (history)
    torn,     \* whether a reset missed one of its statements (history)
    faults    \* faults so far

history == <<fresh, missed, torn>>

vars == <<server, folder, rows, queue, syncer, hand, resync, history, faults>>

------------------------------------------------------------------------------
Server == [box : [UID -> Msg \cup {NoMsg}], next : 1 .. MaxUID + 1,
           validity : 1 .. MaxValidity]

Folder == [known : BOOLEAN, last : 0 .. MaxUID, validity : 0 .. MaxValidity]

OnServer == {u \in UID : server.box[u] # NoMsg}

Fault(hazard) == hazard \in Hazards /\ faults < MaxFaults /\ faults' = faults + 1

SyncerPC == {"idle", "select", "validity", "clear", "purge", "zero", "stamp",
             "fetch", "enqueue", "full", "save", "checkpoint", "advance",
             "reconcile", "search", "delete", "find"}

(* id: the row of the folder is known; last, stored: its cursor and        *)
(* UIDVALIDITY as read; session, end, count: UIDVALIDITY, UIDNEXT - 1 and  *)
(* number of messages as selected; found: UIDs to enqueue; pos, top,       *)
(* batch, held: position, largest UID reported, messages since the last    *)
(* checkpoint and message in hand of a full sync; listed: rows to          *)
(* reconcile.                                                              *)
SyncerState ==
    [pc : SyncerPC, id : BOOLEAN, last : 0 .. MaxUID, stored : 0 .. MaxValidity,
     session : 0 .. MaxValidity, end : 0 .. MaxUID, count : 0 .. MaxUID,
     found : SUBSET UID, pos : 0 .. MaxUID, top : 0 .. MaxUID, batch : Nat,
     listed : SUBSET (UID \X Msg), held : SUBSET (UID \X Msg)]

Idle == [pc |-> "idle", id |-> FALSE, last |-> 0, stored |-> 0, session |-> 0,
         end |-> 0, count |-> 0, found |-> {}, pos |-> 0, top |-> 0, batch |-> 0,
         listed |-> {}, held |-> {}]

Init ==
    /\ server = [box |-> [u \in UID |-> NoMsg], next |-> 1, validity |-> 1]
    /\ folder = [known |-> FALSE, last |-> 0, validity |-> 0]
    /\ rows = [m \in Msg |-> 0]
    /\ queue = [u \in UID |-> "absent"]
    /\ syncer = [s \in Syncer |-> Idle]
    /\ hand = [w \in Worker |-> {}]
    /\ resync = "done"
    /\ fresh = Msg
    /\ missed = {}
    /\ torn = FALSE
    /\ faults = 0

(* An IMAP exchange of a session: it needs the connection to be alive.     *)
Alive(s) == syncer[s].session = server.validity

(* Mutant: UIDNEXT itself is taken for a UID.                              *)
LastUIDOffByOne == server.next

(* The largest UID the folder may have, by its UIDNEXT.                    *)
LastUID == server.next - 1

(* The queue after ClearFolderQueue or ResetAccountSync.                   *)
Emptied == [u \in UID |-> "absent"]

(* ResyncAccount keeps the workers it has cancelled away until it is done. *)
Allowed(s) == s \in Priority \/ resync = "done"

Becomes(s, state) == syncer' = [syncer EXCEPT ![s] = state]

Goto(s, pc) == Becomes(s, [syncer[s] EXCEPT !.pc = pc])

(* Rows of M are deleted.  Their ids are never used again: who has listed  *)
(* one of them deletes nothing.                                            *)
DeleteRows(M) ==
    /\ rows' = [m \in Msg |-> IF m \in M THEN 0 ELSE rows[m]]
    /\ syncer' = [s \in Syncer |->
          [syncer[s] EXCEPT !.listed = {e \in @ : e[2] \notin M}]]

------------------------------------------------------------------------------
(* syncFolder: from ListFolders to the choice between the two ways to      *)
(* sync.                                                                   *)

(* ListFolders.  When LIST or GetFolders fails, the pass goes on without   *)
(* the row of the folder.                                                  *)
List(s) ==
    /\ syncer[s].pc = "idle" /\ Allowed(s)
    /\ s \in Worker => hand[s] = {}
    /\ \/ /\ Becomes(s, [Idle EXCEPT !.pc = "select", !.id = folder.known,
                                        !.last = folder.last, !.stored = folder.validity])
          /\ UNCHANGED faults
       \/ Fault("imap") /\ Becomes(s, [Idle EXCEPT !.pc = "select"])
    /\ UNCHANGED <<server, folder, rows, queue, hand, resync, history>>

(* SELECT.  An empty folder is only reconciled; a folder that was never    *)
(* synced gets its row.                                                    *)
Select(s) ==
    /\ syncer[s].pc = "select"
    /\ LET n == Cardinality(OnServer)
       IN /\ folder' = IF n > 0 /\ syncer[s].last = 0 THEN [folder EXCEPT !.known = TRUE]
                       ELSE folder
          /\ Becomes(s, [syncer[s] EXCEPT !.pc = IF n = 0 THEN "reconcile" ELSE "validity",
                                          !.id = @ \/ (n = 0 /\ folder.known),
                                          !.session = server.validity,
                                          !.end = LastUID, !.count = n])
    /\ UNCHANGED <<server, rows, queue, hand, resync, history, faults>>

(* Where syncFolderByUID goes on with a cursor.                            *)
Way(last, end) ==
    IF last >= end THEN "reconcile" ELSE IF last = 0 THEN "full" ELSE "fetch"

Mismatch(stored, session) == stored # 0 /\ stored # session

(* A row that was not known is looked up again; UIDVALIDITY is compared.   *)
(* When the lookup fails nothing is compared and no cursor is written.     *)
Validity(s) ==
    /\ syncer[s].pc = "validity"
    /\ LET me     == syncer[s]
           last   == IF me.id THEN me.last ELSE folder.last
           stored == IF me.id THEN me.stored ELSE folder.validity
       IN \/ /\ me.id \/ folder.known
             /\ Becomes(s, IF Mismatch(stored, me.session)
                           THEN [me EXCEPT !.pc = "clear", !.id = TRUE, !.last = 0]
                           ELSE [me EXCEPT !.pc = "stamp", !.id = TRUE, !.last = last])
             /\ UNCHANGED faults
          \/ /\ ~me.id /\ Fault("lookup")
             /\ Goto(s, Way(me.last, me.end))
    /\ UNCHANGED <<server, folder, rows, queue, hand, resync, history>>

------------------------------------------------------------------------------
(* resetFolderAfterUIDValidityChange: four statements; an error of one     *)
(* does not keep the next from running.                                    *)

Torn == Fault("reset") /\ torn' = TRUE

Whole == UNCHANGED <<torn, faults>>

ClearQueue(s) ==
    /\ syncer[s].pc = "clear"
    /\ \/ queue' = Emptied /\ Whole
       \/ Torn /\ UNCHANGED queue
    /\ Goto(s, "purge")
    /\ UNCHANGED <<server, folder, rows, hand, resync, fresh, missed>>

PurgeRows(s) ==
    /\ syncer[s].pc = "purge"
    /\ LET Gone == {m \in Msg : rows[m] # 0}
       IN \/ /\ rows' = [m \in Msg |-> 0]
             /\ syncer' = [x \in Syncer |->
                   IF x = s THEN [syncer[s] EXCEPT !.pc = "zero"]
                   ELSE [syncer[x] EXCEPT !.listed = {e \in @ : e[2] \notin Gone}]]
             /\ Whole
          \/ Torn /\ Goto(s, "zero") /\ UNCHANGED rows
    /\ UNCHANGED <<server, folder, queue, hand, resync, fresh, missed>>

ZeroCursor(s) ==
    /\ syncer[s].pc = "zero"
    /\ \/ folder' = [folder EXCEPT !.last = 0] /\ Whole
       \/ Torn /\ UNCHANGED folder
    /\ Goto(s, "stamp")
    /\ UNCHANGED <<server, rows, queue, hand, resync, fresh, missed>>

(* UpdateFolderUIDValidity, also when nothing was reset.                   *)
Stamp(s) ==
    /\ syncer[s].pc = "stamp"
    /\ \/ folder' = [folder EXCEPT !.validity = syncer[s].session] /\ Whole
       \/ Torn /\ UNCHANGED folder
    /\ Goto(s, Way(syncer[s].last, syncer[s].end))
    /\ UNCHANGED <<server, rows, queue, hand, resync, fresh, missed>>

------------------------------------------------------------------------------
(* The full sync: messages are fetched and saved one by one.               *)

Ahead(s) == {u \in OnServer : syncer[s].pos < u /\ u <= syncer[s].end}

FullFetch(s) ==
    /\ syncer[s].pc = "full" /\ Alive(s)
    /\ \E u \in Ahead(s) :
          /\ \A v \in Ahead(s) : u <= v
          /\ Becomes(s, [syncer[s] EXCEPT !.pc = "save", !.pos = u,
                                          !.held = {<<u, server.box[u]>>}])
    /\ UNCHANGED <<server, folder, rows, queue, hand, resync, history, faults>>

(* A message whose ingest fails is passed over; its error may come with    *)
(* its UID or with UID 0.                                                  *)
FullSave(s) ==
    /\ syncer[s].pc = "save"
    /\ \E e \in syncer[s].held :
          \E ok, reported \in BOOLEAN :
             /\ ok => reported
             /\ IF ok THEN rows' = [rows EXCEPT ![e[2]] = e[1]] /\ UNCHANGED <<missed, faults>>
                ELSE Fault("ingest") /\ missed' = missed \cup {e[2]} /\ UNCHANGED rows
             /\ LET top   == IF reported THEN e[1] ELSE syncer[s].top
                    batch == syncer[s].batch + 1
                    due   == batch >= Checkpoint /\ syncer[s].id /\ top > syncer[s].last
                IN Becomes(s, [syncer[s] EXCEPT !.pc = IF due THEN "checkpoint" ELSE "full",
                                                !.top = top, !.batch = batch, !.held = {}])
    /\ UNCHANGED <<server, folder, queue, hand, resync, fresh, torn>>

(* The error of a cursor update is ignored.                                *)
SetCursor(n) ==
    \/ folder' = [folder EXCEPT !.last = n] /\ UNCHANGED faults
    \/ Fault("write") /\ UNCHANGED folder

TakeCheckpoint(s) ==
    /\ syncer[s].pc = "checkpoint"
    /\ SetCursor(syncer[s].top)
    /\ Becomes(s, [syncer[s] EXCEPT !.pc = "full", !.batch = 0])
    /\ UNCHANGED <<server, rows, queue, hand, resync, history>>

(* cmd.Next() returned nil: nothing is left, or the stream broke.          *)
FullEnd(s) ==
    /\ syncer[s].pc = "full"
    /\ \/ Alive(s) /\ Ahead(s) = {} /\ UNCHANGED faults
       \/ ~Alive(s) /\ UNCHANGED faults
       \/ Fault("imap")
    /\ Goto(s, "advance")
    /\ UNCHANGED <<server, folder, rows, queue, hand, resync, history>>

------------------------------------------------------------------------------
(* The incremental sync: new UIDs are enqueued, then the cursor moves.     *)

(* Mutant: the range starts one too late.                                  *)
NewUIDsButOne(s) == {u \in OnServer : syncer[s].last + 1 < u /\ u <= syncer[s].end}

NewUIDs(s) == {u \in OnServer : syncer[s].last < u /\ u <= syncer[s].end}

FetchUIDs(s) ==
    /\ syncer[s].pc = "fetch" /\ Alive(s)
    /\ Becomes(s, IF NewUIDs(s) = {}
                  THEN [syncer[s] EXCEPT !.pc = "advance", !.top = syncer[s].end]
                  ELSE [syncer[s] EXCEPT !.pc = "enqueue", !.found = NewUIDs(s)])
    /\ UNCHANGED <<server, folder, rows, queue, hand, resync, history, faults>>

(* EnqueueUIDs leaves completed tasks alone.                               *)
Enqueued(S) ==
    [u \in UID |-> IF u \in S /\ queue[u] # "done" THEN "pending" ELSE queue[u]]

Found(s, top) ==
    /\ \A u \in syncer[s].found : u <= top
    /\ Becomes(s, [syncer[s] EXCEPT !.pc = "advance", !.found = {}, !.top = top])

(* Mutant: the cursor moves although nothing was enqueued.                 *)
EnqueueRegardless(s) ==
    /\ syncer[s].pc = "enqueue"
    /\ \/ queue' = Enqueued(syncer[s].found) /\ UNCHANGED faults
       \/ Fault("write") /\ UNCHANGED queue
    /\ \E top \in syncer[s].found : Found(s, top)
    /\ UNCHANGED <<server, folder, rows, hand, resync, history>>

Enqueue(s) ==
    /\ syncer[s].pc = "enqueue"
    /\ \/ /\ queue' = Enqueued(syncer[s].found)
          /\ \E top \in syncer[s].found : Found(s, top)
          /\ UNCHANGED faults
       \/ /\ Fault("write")
          /\ Becomes(s, Idle)
          /\ UNCHANGED queue
    /\ UNCHANGED <<server, folder, rows, hand, resync, history>>

(* The last write of the cursor.                                           *)
Advance(s) ==
    /\ syncer[s].pc = "advance"
    /\ IF syncer[s].id /\ syncer[s].top > syncer[s].last THEN SetCursor(syncer[s].top)
       ELSE UNCHANGED <<folder, faults>>
    /\ IF s \in Checker THEN Becomes(s, Idle) ELSE Goto(s, "reconcile")
    /\ UNCHANGED <<server, rows, queue, hand, resync, history>>

------------------------------------------------------------------------------
(* reconcileFolderExpunges.                                                *)

AfterReconcile(s) ==
    IF s \in Checker THEN [syncer[s] EXCEPT !.pc = "find", !.listed = {}] ELSE Idle

(* GetFolderEmailUIDMap: one row per UID.  Nothing is reconciled while     *)
(* there are fewer rows than messages.                                     *)
Reconcile(s) ==
    /\ syncer[s].pc = "reconcile"
    /\ LET U == {rows[m] : m \in Msg} \ {0}
       IN \E f \in [U -> Msg] :
             /\ \A u \in U : rows[f[u]] = u
             /\ Becomes(s, IF ~syncer[s].id \/ U = {} \/ Cardinality(U) < syncer[s].count
                           THEN AfterReconcile(s)
                           ELSE [syncer[s] EXCEPT !.pc = "search",
                                                  !.listed = {<<u, f[u]>> : u \in U}])
    /\ UNCHANGED <<server, folder, rows, queue, hand, resync, history, faults>>

(* When UID SEARCH fails nothing is deleted, and the pass goes on.         *)
Search(s) ==
    /\ syncer[s].pc = "search"
    /\ \/ /\ Alive(s)
          /\ Becomes(s, [syncer[s] EXCEPT !.pc = "delete",
                                          !.listed = {e \in @ : e[1] \notin OnServer}])
          /\ UNCHANGED faults
       \/ /\ (~Alive(s) /\ UNCHANGED faults) \/ Fault("imap")
          /\ Becomes(s, AfterReconcile(s))
    /\ UNCHANGED <<server, folder, rows, queue, hand, resync, history>>

(* deleteLocalEmailCopy, by the id of the row.                             *)
Delete(s) ==
    /\ syncer[s].pc = "delete"
    /\ IF syncer[s].listed = {}
       THEN Becomes(s, AfterReconcile(s)) /\ UNCHANGED <<rows, faults>>
       ELSE \E e \in syncer[s].listed :
               \/ DeleteRows({e[2]}) /\ UNCHANGED faults
               \/ /\ Fault("write")
                  /\ Becomes(s, [syncer[s] EXCEPT !.listed = @ \ {e}])
                  /\ UNCHANGED rows
    /\ UNCHANGED <<server, folder, queue, hand, resync, history>>

------------------------------------------------------------------------------
(* checkNewEmails of a CheckWorker.                                        *)

Check(c) ==
    /\ syncer[c].pc = "idle" /\ Allowed(c)
    /\ \/ /\ Becomes(c, [Idle EXCEPT !.pc = "reconcile", !.id = folder.known,
                                        !.last = folder.last, !.session = server.validity])
          /\ UNCHANGED faults
       \/ /\ Fault("lookup")
          /\ Becomes(c, [Idle EXCEPT !.pc = "find", !.session = server.validity])
    /\ UNCHANGED <<server, folder, rows, queue, hand, resync, history>>

FindNew(c) ==
    /\ syncer[c].pc = "find" /\ Alive(c)
    /\ LET new == {u \in OnServer : syncer[c].last < u}
       IN Becomes(c, IF new = {} THEN Idle
                     ELSE [syncer[c] EXCEPT !.pc = "enqueue", !.found = new])
    /\ UNCHANGED <<server, folder, rows, queue, hand, resync, history, faults>>

------------------------------------------------------------------------------
(* What ends a pass early: a dead connection, an IMAP error, a stop.       *)
Abort(s) ==
    /\ syncer[s].pc # "idle"
    /\ \/ syncer[s].pc \in {"fetch", "find"} /\ ~Alive(s) /\ UNCHANGED faults
       \/ syncer[s].pc \in {"select", "fetch", "find"} /\ Fault("imap")
       \/ Fault("stop")
    /\ Becomes(s, Idle)
    /\ UNCHANGED <<server, folder, rows, queue, hand, resync, history>>

------------------------------------------------------------------------------
(* The consumer of the queue: the sync worker between two passes.          *)

Take(w, u) ==
    /\ syncer[w].pc = "idle" /\ hand[w] = {} /\ Allowed(w)
    /\ queue[u] = "pending"
    /\ hand' = [hand EXCEPT ![w] = {[uid |-> u, msg |-> server.box[u]]}]
    /\ UNCHANGED <<server, folder, rows, queue, syncer, resync, history, faults>>

(* The message is saved, in a folder created when it has no row, or the    *)
(* local copy of a missing one deleted, and the task is settled unless its *)
(* row has gone.                                                           *)
Settle(w) ==
    /\ \E t \in hand[w] :
          /\ IF t.msg # NoMsg
             THEN /\ rows' = [rows EXCEPT ![t.msg] = t.uid]
                  /\ folder' = [folder EXCEPT !.known = TRUE]
                  /\ UNCHANGED syncer
             ELSE /\ IF \E m \in Msg : rows[m] = t.uid
                     THEN \E m \in Msg : rows[m] = t.uid /\ DeleteRows({m})
                     ELSE UNCHANGED <<rows, syncer>>
                  /\ UNCHANGED folder
          /\ queue' = [queue EXCEPT ![t.uid] = IF @ = "pending" THEN "done" ELSE @]
    /\ hand' = [hand EXCEPT ![w] = {}]
    /\ UNCHANGED <<server, resync, history, faults>>

(* CleanQueueGarbage.                                                      *)
Collect(u) ==
    /\ queue[u] = "done"
    /\ queue' = [queue EXCEPT ![u] = "absent"]
    /\ UNCHANGED <<server, folder, rows, syncer, hand, resync, history, faults>>

------------------------------------------------------------------------------
(* ResyncAccount: the workers of the account are cancelled, then           *)
(* ResetAccountSync deletes the rows, empties the queue and resets the     *)
(* folder.                                                                 *)

ResyncAccount ==
    /\ resync = "done"
    /\ Fault("resync")
    /\ syncer' = [s \in Syncer |-> IF s \in Priority THEN syncer[s] ELSE Idle]
    /\ hand' = [w \in Worker |-> {}]
    /\ resync' = "rows"
    /\ UNCHANGED <<server, folder, rows, queue, history>>

ResetRows ==
    /\ resync = "rows"
    /\ DeleteRows(Msg)
    /\ resync' = "queue"
    /\ UNCHANGED <<server, folder, queue, hand, history, faults>>

ResetQueue ==
    /\ resync = "queue"
    /\ queue' = Emptied
    /\ resync' = "folder"
    /\ UNCHANGED <<server, folder, rows, syncer, hand, history, faults>>

ResetFolder ==
    /\ resync = "folder"
    /\ folder' = [folder EXCEPT !.last = 0, !.validity = 0]
    /\ resync' = "done"
    /\ UNCHANGED <<server, rows, queue, syncer, hand, history, faults>>

------------------------------------------------------------------------------
(* The server.                                                             *)

(* A message arrives; one that was there before, moved back, gets a new    *)
(* UID.                                                                    *)
Deliver(m) ==
    /\ m \in fresh \/ "return" \in Hazards
    /\ \A u \in UID : server.box[u] # m
    /\ server.next <= MaxUID
    /\ server' = [server EXCEPT !.box[server.next] = m, !.next = @ + 1]
    /\ fresh' = fresh \ {m}
    /\ UNCHANGED <<folder, rows, queue, syncer, hand, resync, missed, torn, faults>>

Expunge(u) ==
    /\ u \in OnServer
    /\ server' = [server EXCEPT !.box[u] = NoMsg]
    /\ UNCHANGED <<folder, rows, queue, syncer, hand, resync, history, faults>>

(* The folder is rebuilt with new UIDs, in some order.                     *)
Renumber ==
    /\ server.validity < MaxValidity
    /\ LET n == Cardinality(OnServer)
       IN \E f \in [1 .. n -> {server.box[u] : u \in OnServer}] :
             /\ \A i, j \in 1 .. n : f[i] = f[j] => i = j
             /\ server' = [box |-> [u \in UID |-> IF u <= n THEN f[u] ELSE NoMsg],
                           next |-> n + 1, validity |-> server.validity + 1]
    /\ UNCHANGED <<folder, rows, queue, syncer, hand, resync, history, faults>>

------------------------------------------------------------------------------
PassStep(s) ==
    \/ s \notin Checker /\ List(s)
    \/ Select(s) \/ Validity(s)
    \/ ClearQueue(s) \/ PurgeRows(s) \/ ZeroCursor(s) \/ Stamp(s)
    \/ FullFetch(s) \/ FullSave(s) \/ TakeCheckpoint(s) \/ FullEnd(s)
    \/ FetchUIDs(s) \/ Enqueue(s) \/ Advance(s)
    \/ Reconcile(s) \/ Search(s) \/ Delete(s)
    \/ s \in Checker /\ Check(s)
    \/ FindNew(s)
    \/ Abort(s)

ConsumerStep(w) == Settle(w) \/ \E u \in UID : Take(w, u)

(* A statement fails, or the request is cancelled: the rest is not run.    *)
CutReset ==
    /\ "cut" \in Hazards
    /\ resync # "done"
    /\ torn' = TRUE
    /\ resync' = "done"
    /\ UNCHANGED <<server, folder, rows, queue, syncer, hand, fresh, missed, faults>>

ResetStep == ResetRows \/ ResetQueue \/ ResetFolder \/ CutReset

Next ==
    \/ \E s \in Syncer : PassStep(s)
    \/ \E w \in Worker : ConsumerStep(w)
    \/ \E u \in UID : Collect(u) \/ Expunge(u)
    \/ ResyncAccount \/ ResetStep
    \/ \E m \in Msg : Deliver(m)
    \/ Renumber

Spec == Init /\ [][Next]_vars

(* The tickers of the worker and of the checker keep firing, and           *)
(* consumerLoop asks the queue before it starts a pass.                    *)
Fairness ==
    /\ \A s \in Worker \cup Checker : WF_vars(PassStep(s))
    /\ \A w \in Worker : SF_vars(ConsumerStep(w))
    /\ WF_vars(ResetStep)

FairSpec == Spec /\ Fairness

------------------------------------------------------------------------------
(* Properties.                                                             *)

(* The cursor, the rows and what the syncers have read are UIDs of the     *)
(* folder, below UIDNEXT.                                                  *)
TypeOK ==
    /\ server \in Server
    /\ folder \in Folder
    /\ rows \in [Msg -> 0 .. MaxUID]
    /\ queue \in [UID -> {"absent", "pending", "done"}]
    /\ syncer \in [Syncer -> SyncerState]
    /\ hand \in [Worker -> SUBSET [uid : UID, msg : Msg \cup {NoMsg}]]
    /\ resync \in {"done", "rows", "queue", "folder"}
    /\ fresh \subseteq Msg
    /\ missed \subseteq Msg
    /\ torn \in BOOLEAN
    /\ faults \in Nat

(* No pass is under way.                                                   *)
AtRest == resync = "done" /\ \A s \in Syncer : syncer[s].pc = "idle"

(* The cursor passes over no message: a message of the server at or below  *)
(* last_sync_uid has a row or is still queued, unless a full sync failed   *)
(* to ingest it.  Nothing else would ever fetch it again.  A UIDVALIDITY   *)
(* reset may stop between any two of its statements, as long as those it   *)
(* reaches succeed.                                                        *)
CursorCovers ==
    AtRest /\ ~torn /\ folder.validity = server.validity =>
        \A u \in OnServer : u <= folder.last =>
            \/ rows[server.box[u]] # 0
            \/ queue[u] = "pending"
            \/ server.box[u] \in missed

(* The rows are the messages of the server, each with its UID.             *)
Mirrors == \A m \in Msg : IF rows[m] = 0 THEN \A u \in UID : server.box[u] # m
                          ELSE server.box[rows[m]] = m

(* When the server has come to rest the folder becomes its mirror: new     *)
(* mail is fetched, expunged rows are deleted and a renumbered folder is   *)
(* built again, although passes stop, statements fail and the account is   *)
(* reset on the way.                                                       *)
Converges == <>[]Mirrors
=============================================================================
