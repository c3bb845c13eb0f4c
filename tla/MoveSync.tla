------------------------------ MODULE MoveSync ------------------------------
(***************************************************************************)
(* Moving messages between the folders of one account.  A request (move,   *)
(* delete, restore, bulk action) reads rows of emails, changes their       *)
(* folder at once and leaves a pending move in imap_move_queue; the sync   *)
(* worker later executes the pending moves on the server (syncMoves) and   *)
(* synchronises folder after folder: messages beyond the cursor get rows,  *)
(* rows whose UID the folder lacks are deleted.  Moving a row keeps its    *)
(* UID, which names the message in the folder it came from.                *)
(*                                                                         *)
(* Each SQL statement or transaction and each IMAP exchange is one step;   *)
(* discovery, which FolderSync models in detail, is one step here.  The    *)
(* folders exist, locally and on the server, and keep their UIDVALIDITY.   *)
(* The queue stays below the 20 moves of one pass.  Gmail is left out.     *)
(***************************************************************************)
EXTENDS Naturals, FiniteSets

CONSTANTS
    Msg,           \* messages, told apart by msg_id
    NoMsg,         \* a UID without a message
    NoRow,         \* an email id without a row
    NoMove,        \* an email id without a pending move
    Folder,        \* folders of the account
    Inbox, Trash,  \* INBOX and Trash
    NoFolder,      \* folder_id of a row read without it
    MaxUID,        \* bound: UIDs of a folder
    Incarnations,  \* bound: rows a message has at a time, gone ones with a move included
    MaxRetry,      \* failures after which a move is given up (5)
    FilterLimit,   \* ids a bulk action by filter reads (10000)
    MaxMoves,      \* bound: requests of the user
    MaxRemote,     \* bound: changes by other clients
    MaxFaults,     \* bound: failures and stops
    Hazards        \* what may happen beyond one calm move after the other

ASSUME ConstantsAssumption ==
    /\ IsFiniteSet(Msg) /\ NoMsg \notin Msg
    /\ {Inbox, Trash} \subseteq Folder /\ NoFolder \notin Folder
    /\ NoRow \notin [folder : Folder, uid : Nat]
    /\ NoMove \notin [key : Nat, source : Folder, target : Folder, uid : Nat, retries : Nat]
    /\ MaxUID \in Nat /\ Cardinality(Msg) <= MaxUID
    /\ Incarnations \in Nat \ {0} /\ MaxRetry \in Nat \ {0}
    /\ FilterLimit \in Nat \ {0}
    /\ MaxMoves \in Nat /\ MaxRemote \in Nat /\ MaxFaults \in Nat
    /\ Hazards \subseteq {"again", "elsewhere", "arrival", "remote", "select", "move", "write",
                          "stop"}

VARIABLES
    server,    \* Folder -> UID -> message
    next,      \* Folder -> UIDNEXT
    cursor,    \* Folder -> last_sync_uid
    rows,      \* EmailID -> folder and UID of its row
    queue,     \* EmailID -> its row in imap_move_queue
    request,   \* the request of the user between two of its statements
    worker,    \* the sync worker between two of its steps
    ordered,   \* Msg -> folders the user moved it to (history)
    wish,      \* Msg -> the folder the user last moved it to, or NoFolder (history)
    dropped,   \* messages deleted locally for good, or moved without a move being
               \* queued (history)
    spent      \* moves, remote changes and faults so far

history == <<ordered, wish, dropped>>

vars == <<server, next, cursor, rows, queue, request, worker, history, spent>>

------------------------------------------------------------------------------
UID == 1 .. MaxUID

(* A message has one row per folder at most; its rows are numbered.        *)
EmailID == Msg \X (1 .. Incarnations)

MsgOf(id) == id[1]

Row == [folder : Folder, uid : UID]

(* key: the primary key, here the number of the move.                      *)
Move == [key : 1 .. MaxMoves, source : Folder, target : Folder, uid : UID,
         retries : 0 .. MaxRetry]

Snapshot == [id : EmailID, folder : Folder \cup {NoFolder}, uid : UID]

Job == [id : EmailID, key : 1 .. MaxMoves, source : Folder, target : Folder, uid : UID]

RowsIn(f) == {id \in EmailID : rows[id] # NoRow /\ rows[id].folder = f}

IsOn(m, f) == \E u \in UID : server[f][u] = m

Exists(id) == rows[id] # NoRow

(* The row shows where the server has the message, its folder has been     *)
(* synchronised since, and no move is pending.                             *)
Fresh(id) ==
    /\ server[rows[id].folder][rows[id].uid] = MsgOf(id)
    /\ rows[id].uid <= cursor[rows[id].folder]
    /\ queue[id] = NoMove

Spend(kind, bound) == spent[kind] < bound /\ spent' = [spent EXCEPT ![kind] = @ + 1]

Fault(hazard) == hazard \in Hazards /\ Spend("faults", MaxFaults)

RequestIdle == [pc |-> "idle", todo |-> {}, source |-> NoFolder, target |-> NoFolder]

(* todo, group, left, cur: moves of the pass, of the group, of the attempt, *)
(* and in hand; folder, count, listed: the folder being synchronised, its  *)
(* number of messages and the rows to reconcile.                           *)
WorkerIdle == [pc |-> "idle", todo |-> {}, group |-> {}, left |-> {}, cur |-> {},
               folder |-> NoFolder, count |-> 0, listed |-> {}]

(* Every message has been synchronised; older ones have left gaps.         *)
Init ==
    /\ \E home \in [Msg -> Folder], num \in [Msg -> 1 .. Cardinality(Msg)] :
          /\ \A m, n \in Msg : m # n => <<home[m], num[m]>> # <<home[n], num[n]>>
          /\ server = [f \in Folder |-> [u \in UID |->
                          IF \E m \in Msg : home[m] = f /\ num[m] = u
                          THEN CHOOSE m \in Msg : home[m] = f /\ num[m] = u ELSE NoMsg]]
          /\ rows = [id \in EmailID |-> IF id[2] = 1
                        THEN [folder |-> home[id[1]], uid |-> num[id[1]]] ELSE NoRow]
    /\ next = [f \in Folder |-> Cardinality(Msg) + 1]
    /\ cursor = [f \in Folder |-> Cardinality(Msg)]
    /\ queue = [id \in EmailID |-> NoMove]
    /\ request = RequestIdle
    /\ worker = WorkerIdle
    /\ ordered = [m \in Msg |-> {}]
    /\ wish = [m \in Msg |-> NoFolder]
    /\ dropped = {}
    /\ spent = [moves |-> 0, remote |-> 0, faults |-> 0]

------------------------------------------------------------------------------
(* Statements.                                                             *)

(* INSERT OR REPLACE: one move per email id, a new key, no failures yet.   *)
Pending(source, target, uid) ==
    [key |-> spent.moves, source |-> source, target |-> target, uid |-> uid, retries |-> 0]

(* A source without a name is taken for INBOX, here or by syncMoves.       *)
(* Mutant: the name of the folder is lost.                                 *)
SourceNameInbox(f) == Inbox

SourceName(f) == IF f = NoFolder THEN Inbox ELSE f

EnqueueIMAPMove(snap, target) ==
    [queue EXCEPT ![snap.id] = Pending(SourceName(snap.folder), target, snap.uid)]

(* What a move of the row so read names on the server is its message.      *)
Named(s) == server[SourceName(s.folder)][s.uid] = MsgOf(s.id)

(* The history of moving the rows read as S to target: a wish counts when  *)
(* the server has the message where it was read, that is, when no other    *)
(* client has taken it elsewhere since.                                    *)
Ordered(S, target) ==
    /\ ordered' = [m \in Msg |-> IF \E s \in S : MsgOf(s.id) = m
                                 THEN ordered[m] \cup {target} ELSE ordered[m]]
    /\ wish' = [m \in Msg |-> IF \E s \in S : MsgOf(s.id) = m /\ Named(s)
                              THEN target ELSE wish[m]]

Order(S, target) == Ordered(S, target) /\ UNCHANGED dropped

(* The other row of the message in the target folder, if there is one.     *)
Duplicate(id, target) == {d \in RowsIn(target) \ {id} : MsgOf(d) = MsgOf(id)}

(* A row is moved, or deleted when its message has a row there already.    *)
MoveEmailFolderInTx(id, target) ==
    rows' = [rows EXCEPT ![id] = IF Duplicate(id, target) = {}
                                 THEN [@ EXCEPT !.folder = target] ELSE NoRow]

(* UPDATE emails SET folder_id of the rows I: refused as a whole when it   *)
(* would give a message two rows in the folder.                            *)
Collides(I, target) ==
    \E i \in I, j \in I \cup RowsIn(target) : i # j /\ MsgOf(i) = MsgOf(j)

MovedTo(I, target) ==
    [id \in EmailID |-> IF id \in I THEN [rows[id] EXCEPT !.folder = target] ELSE rows[id]]

DeleteRows(I) == rows' = [id \in EmailID |-> IF id \in I THEN NoRow ELSE rows[id]]

------------------------------------------------------------------------------
(* Requests.  Each reads what it acts on before it acts.                   *)

CalmRows(I) == \A id \in I : "again" \in Hazards \/ Fresh(id)

Read(pc, todo, source, target) ==
    /\ request.pc = "idle"
    /\ CalmRows({s.id : s \in todo})
    /\ Spend("moves", MaxMoves)
    /\ request' = [pc |-> pc, todo |-> todo, source |-> source, target |-> target]
    /\ UNCHANGED <<server, next, cursor, rows, queue, worker, history>>

(* GetEmail reads the folder of the row.                                   *)
GetEmail(id) == [id |-> id, folder |-> rows[id].folder, uid |-> rows[id].uid]

(* GetEmailsByIDs does not select folder_id.                               *)
GetEmailsByIDs(I) == {[id |-> id, folder |-> NoFolder, uid |-> rows[id].uid] : id \in I}

MoveEmail(id, target) == Exists(id) /\ Read("move", {GetEmail(id)}, NoFolder, target)

(* What is in Trash already is deleted for good, but only locally.         *)
DeleteEmail(id) ==
    /\ Exists(id)
    /\ Read(IF rows[id].folder = Trash THEN "erase" ELSE "move", {GetEmail(id)}, NoFolder, Trash)

RestoreFromTrash(id) == Exists(id) /\ Read("move", {GetEmail(id)}, NoFolder, Inbox)

CalmSource(f) == f = Inbox \/ "elsewhere" \in Hazards

BulkAction(pc, I, target) ==
    /\ \A id \in I : Exists(id) /\ CalmSource(rows[id].folder)
    /\ Read(pc, GetEmailsByIDs(I), NoFolder, target)

(* Of the rows of the folder no more than the limit are read.              *)
GetEmailIDsByFilter(f) ==
    {I \in SUBSET RowsIn(f) :
        Cardinality(I) <= FilterLimit /\ (I = RowsIn(f) \/ Cardinality(I) = FilterLimit)}

BulkActionByFilter(f, target) ==
    /\ CalmSource(f) /\ CalmRows(RowsIn(f)) /\ RowsIn(f) # {}
    /\ \E I \in GetEmailIDsByFilter(f) : Read("filter", GetEmailsByIDs(I), f, target)

Answer == request' = RequestIdle

(* Mutant: the row is moved in one statement, the move queued in another,  *)
(* which may fail.                                                         *)
MoveEmailAndEnqueueIMAPTorn ==
    /\ request.pc = "move"
    /\ \E s \in request.todo :
          /\ Exists(s.id)
          /\ MoveEmailFolderInTx(s.id, request.target)
          /\ queue' \in {queue, EnqueueIMAPMove(s, request.target)}
          /\ Order({s}, request.target)
    /\ Answer
    /\ UNCHANGED <<server, next, cursor, worker, spent>>

(* One transaction; when the row is gone, or the statement fails, nothing  *)
(* happens.  The move of a deleted duplicate is queued for the other row.  *)
MoveEmailAndEnqueueIMAP ==
    /\ request.pc = "move"
    /\ \E s \in request.todo :
          \/ /\ Exists(s.id)
             /\ MoveEmailFolderInTx(s.id, request.target)
             /\ \E id \in IF Duplicate(s.id, request.target) = {} THEN {s.id}
                          ELSE Duplicate(s.id, request.target) :
                   queue' = EnqueueIMAPMove([s EXCEPT !.id = id], request.target)
             /\ Order({s}, request.target)
             /\ UNCHANGED spent
          \/ ~Exists(s.id) /\ UNCHANGED <<rows, queue, history, spent>>
          \/ Fault("write") /\ UNCHANGED <<rows, queue, history>>
    /\ Answer
    /\ UNCHANGED <<server, next, cursor, worker>>

Erase ==
    /\ request.pc = "erase"
    /\ DeleteRows({s.id : s \in request.todo})
    /\ dropped' = dropped \cup {MsgOf(s.id) : s \in request.todo}
    /\ Answer
    /\ UNCHANGED <<server, next, cursor, queue, worker, ordered, wish, spent>>

(* The goroutine of the account: a delete first erases what it read as     *)
(* being in Trash; the rest is moved and queued in one transaction.        *)
BulkMoveAndEnqueue ==
    /\ request.pc \in {"bulk", "bulkdelete"}
    /\ LET trashed == {s \in request.todo : request.pc = "bulkdelete" /\ s.folder = Trash}
           moved == request.todo \ trashed
           there == {id \in {s.id : s \in moved} : Exists(id)}
       IN  \/ /\ ~Collides(there, request.target)
              /\ rows' = [id \in EmailID |-> IF \E s \in trashed : s.id = id THEN NoRow
                                             ELSE MovedTo(there, request.target)[id]]
              /\ queue' = [id \in EmailID |->
                             IF \E s \in moved : s.id = id
                             THEN LET s == CHOOSE s \in moved : s.id = id
                                  IN  Pending(SourceName(s.folder), request.target, s.uid)
                             ELSE queue[id]]
              /\ Order(moved, request.target)
           \/ Collides(there, request.target) /\ UNCHANGED <<rows, queue, history>>
    /\ Answer
    /\ UNCHANGED <<server, next, cursor, worker, spent>>

(* All rows the folder has now are moved in one statement; the moves of    *)
(* the rows read before, and of no others, are queued next, one by one.    *)
BulkMoveByFilter ==
    /\ request.pc = "filter"
    /\ LET there == RowsIn(request.source)
       IN  IF Collides(there, request.target)
           THEN Answer /\ UNCHANGED <<rows, history>>
           ELSE /\ rows' = MovedTo(there, request.target)
                /\ Ordered(request.todo \cup {GetEmail(id) : id \in there}, request.target)
                /\ dropped' = dropped \cup {MsgOf(id) : id \in there \ {s.id : s \in request.todo}}
                /\ request' = [request EXCEPT !.pc = "enqueue"]
    /\ UNCHANGED <<server, next, cursor, queue, worker, spent>>

(* A move that cannot be queued is skipped.                                *)
EnqueueIMAPMovesFromEmails ==
    /\ request.pc = "enqueue"
    /\ \E s \in request.todo :
          /\ \/ queue' = EnqueueIMAPMove(s, request.target) /\ UNCHANGED <<history, spent>>
             \/ /\ Fault("write")
                /\ dropped' = dropped \cup {MsgOf(s.id)}
                /\ UNCHANGED <<queue, ordered, wish>>
          /\ IF request.todo = {s} THEN Answer
             ELSE request' = [request EXCEPT !.todo = @ \ {s}]
    /\ UNCHANGED <<server, next, cursor, rows, worker>>

------------------------------------------------------------------------------
(* syncMoves.                                                              *)

Becomes(state) == worker' = state

(* The group is dealt with: the next one, or the end of the pass.          *)
AfterGroup == IF worker.todo = worker.group THEN WorkerIdle
              ELSE [WorkerIdle EXCEPT !.pc = "select", !.todo = worker.todo \ worker.group]

GetPendingIMAPMoves ==
    {[id |-> id, key |-> queue[id].key, source |-> queue[id].source,
      target |-> queue[id].target, uid |-> queue[id].uid] :
        id \in {i \in EmailID : queue[i] # NoMove /\ queue[i].retries < MaxRetry}}

SyncMoves ==
    /\ worker.pc = "idle"
    /\ GetPendingIMAPMoves # {}
    /\ Becomes([WorkerIdle EXCEPT !.pc = "select", !.todo = GetPendingIMAPMoves])
    /\ UNCHANGED <<server, next, cursor, rows, queue, request, history, spent>>

(* The pending moves the jobs still stand for: a replaced one has a new key. *)
Current(jobs) == {j.id : j \in {k \in jobs : queue[k.id] # NoMove /\ queue[k.id].key = k.key}}

FailIMAPMove(jobs) ==
    queue' = [id \in EmailID |-> IF id \in Current(jobs)
                                 THEN [queue[id] EXCEPT !.retries = @ + 1] ELSE queue[id]]

(* Mutant: the move is left in the queue.                                  *)
CompleteIMAPMoveForgotten(jobs) == queue' = queue

CompleteIMAPMove(jobs) ==
    queue' = [id \in EmailID |-> IF id \in Current(jobs) THEN NoMove ELSE queue[id]]

(* Moves with the same source and target form a group.                     *)
SelectSource ==
    /\ worker.pc = "select"
    /\ \E j \in worker.todo :
          LET group == {k \in worker.todo : k.source = j.source /\ k.target = j.target}
          IN  \/ /\ Becomes([worker EXCEPT !.pc = "move", !.group = group, !.left = group])
                 /\ UNCHANGED <<queue, spent>>
              \/ /\ Fault("select")
                 /\ FailIMAPMove(group)
                 /\ Becomes(IF group = worker.todo THEN WorkerIdle
                            ELSE [worker EXCEPT !.todo = @ \ group])
    /\ UNCHANGED <<server, next, cursor, rows, request, history>>

(* The server moves what has the UID now, to a new UID of the target.      *)
Execute(j) ==
    LET m == server[j.source][j.uid]
    IN  IF m = NoMsg THEN UNCHANGED <<server, next>>
        ELSE /\ next[j.target] <= MaxUID
             /\ server' = [server EXCEPT ![j.source][j.uid] = NoMsg,
                                         ![j.target][next[j.target]] = m]
             /\ next' = [next EXCEPT ![j.target] = @ + 1]

(* A MOVE that fails, executed or not, is followed by another attempt at   *)
(* the whole group, or, the third time, by the next group.                 *)
MoveOne ==
    /\ worker.pc = "move"
    /\ \E j \in worker.left :
          \/ /\ Execute(j)
             /\ Becomes([worker EXCEPT !.pc = "complete", !.left = @ \ {j}, !.cur = {j}])
             /\ UNCHANGED spent
          \/ /\ Fault("move")
             /\ Execute(j) \/ UNCHANGED <<server, next>>
             /\ Becomes([worker EXCEPT !.left = worker.group]) \/ Becomes(AfterGroup)
    /\ UNCHANGED <<cursor, rows, queue, request, history>>

(* The error of the statement is ignored.                                  *)
Complete ==
    /\ worker.pc = "complete"
    /\ \/ CompleteIMAPMove(worker.cur) /\ UNCHANGED spent
       \/ Fault("write") /\ UNCHANGED queue
    /\ Becomes(IF worker.left = {} THEN AfterGroup
               ELSE [worker EXCEPT !.pc = "move", !.cur = {}])
    /\ UNCHANGED <<server, next, cursor, rows, request, history>>

------------------------------------------------------------------------------
(* Synchronisation of a folder.                                            *)

Found(f) == {u \in UID : server[f][u] # NoMsg /\ u > cursor[f]}

(* Mutant: the cursor is set to UIDNEXT.                                   *)
LastUIDOffByOne(f) == next[f]

LastUID(f) == next[f] - 1

(* The row SaveEmailToFolder writes: the one the message has in the folder, *)
(* or a new one, whose id no row, move, job or request knows.              *)
TargetRows(m, f) ==
    LET known == {id \in RowsIn(f) : MsgOf(id) = m}
        taken == {s.id : s \in request.todo \cup worker.todo \cup worker.listed}
        free == {id \in EmailID \ taken : MsgOf(id) = m /\ ~Exists(id) /\ queue[id] = NoMove}
    IN  IF known # {} THEN known ELSE {id \in free : \A i \in free : id[2] <= i[2]}

(* SELECT, then every message beyond the cursor is saved.                  *)
SyncFolder(f) ==
    /\ worker.pc = "idle"
    /\ "arrival" \in Hazards \/ request.pc # "filter"
    /\ \A u \in Found(f) : TargetRows(server[f][u], f) # {}
    /\ rows' = [id \in EmailID |->
                  IF \E u \in Found(f) : id \in TargetRows(server[f][u], f)
                  THEN [folder |-> f,
                        uid |-> CHOOSE u \in Found(f) : id \in TargetRows(server[f][u], f)]
                  ELSE rows[id]]
    /\ cursor' = [cursor EXCEPT ![f] = LastUID(f)]
    /\ Becomes([WorkerIdle EXCEPT !.pc = "list", !.folder = f,
                                  !.count = Cardinality({u \in UID : server[f][u] # NoMsg})])
    /\ UNCHANGED <<server, next, queue, request, history, spent>>

(* GetFolderEmailUIDMap: one row for each UID, whichever comes last; not   *)
(* searched for when the folder has more messages than rows.               *)
ReconcileList ==
    /\ worker.pc = "list"
    /\ LET local == {rows[id].uid : id \in RowsIn(worker.folder)}
       IN  IF Cardinality(local) < worker.count \/ local = {}
           THEN Becomes(WorkerIdle)
           ELSE \E last \in [local -> RowsIn(worker.folder)] :
                   /\ \A u \in local : rows[last[u]].uid = u
                   /\ Becomes([worker EXCEPT !.pc = "purge",
                                  !.listed = {[id |-> last[u], uid |-> u] : u \in local}])
    /\ UNCHANGED <<server, next, cursor, rows, queue, request, history, spent>>

(* UID SEARCH; the rows whose UID is missing are deleted by their id.      *)
ReconcilePurge ==
    /\ worker.pc = "purge"
    /\ DeleteRows({s.id : s \in {l \in worker.listed : server[worker.folder][l.uid] = NoMsg}})
    /\ Becomes(WorkerIdle)
    /\ UNCHANGED <<server, next, cursor, queue, request, history, spent>>

Stop ==
    /\ worker.pc # "idle"
    /\ Fault("stop")
    /\ Becomes(WorkerIdle)
    /\ UNCHANGED <<server, next, cursor, rows, queue, request, history>>

------------------------------------------------------------------------------
(* Another client moves a message, or expunges it.                         *)
Remote(f, u) ==
    /\ "remote" \in Hazards /\ server[f][u] # NoMsg
    /\ LET m == server[f][u]
       IN  /\ \/ \E t \in Folder \ {f} :
                    /\ next[t] <= MaxUID
                    /\ server' = [server EXCEPT ![f][u] = NoMsg, ![t][next[t]] = m]
                    /\ next' = [next EXCEPT ![t] = @ + 1]
              \/ server' = [server EXCEPT ![f][u] = NoMsg] /\ UNCHANGED next
           /\ wish' = [wish EXCEPT ![m] = NoFolder]
    /\ Spend("remote", MaxRemote)
    /\ UNCHANGED <<cursor, rows, queue, request, worker, ordered, dropped>>

RequestStep ==
    \/ MoveEmailAndEnqueueIMAP \/ Erase
    \/ BulkMoveAndEnqueue \/ BulkMoveByFilter \/ EnqueueIMAPMovesFromEmails

WorkerStep ==
    \/ SelectSource \/ MoveOne \/ Complete
    \/ ReconcileList \/ ReconcilePurge

Next ==
    \/ \E id \in EmailID, f \in Folder : MoveEmail(id, f)
    \/ \E id \in EmailID : DeleteEmail(id) \/ RestoreFromTrash(id)
    \/ \E I \in SUBSET EmailID \ {{}}, f \in Folder : BulkAction("bulk", I, f)
    \/ \E I \in SUBSET EmailID \ {{}} : BulkAction("bulkdelete", I, Trash)
    \/ \E f, t \in Folder : BulkActionByFilter(f, t)
    \/ RequestStep
    \/ SyncMoves \/ (\E f \in Folder : SyncFolder(f)) \/ WorkerStep \/ Stop
    \/ \E f \in Folder, u \in UID : Remote(f, u)

Spec == Init /\ [][Next]_vars

(* A request is worked off; the worker goes on, and its timers make it     *)
(* execute the moves and synchronise every folder again and again.         *)
Fairness ==
    /\ WF_vars(RequestStep) /\ WF_vars(WorkerStep)
    /\ SF_vars(SyncMoves)
    /\ \A f \in Folder : SF_vars(SyncFolder(f))

FairSpec == Spec /\ Fairness

------------------------------------------------------------------------------
(* Properties.                                                             *)

(* The state has the shape the schema and the code give it.                *)
TypeOK ==
    /\ server \in [Folder -> [UID -> Msg \cup {NoMsg}]]
    /\ next \in [Folder -> 1 .. MaxUID + 1]
    /\ cursor \in [Folder -> 0 .. MaxUID]
    /\ \A f \in Folder : cursor[f] < next[f]
    /\ rows \in [EmailID -> Row \cup {NoRow}]
    /\ queue \in [EmailID -> Move \cup {NoMove}]
    /\ request.pc \in {"idle", "move", "erase", "bulk", "bulkdelete", "filter", "enqueue"}
    /\ request.todo \in SUBSET Snapshot
    /\ {request.source, request.target} \subseteq Folder \cup {NoFolder}
    /\ worker.pc \in {"idle", "select", "move", "complete", "list", "purge"}
    /\ worker.cur \cup worker.left \subseteq worker.group
    /\ worker.group \subseteq worker.todo
    /\ worker.todo \in SUBSET Job
    /\ worker.listed \in SUBSET [id : EmailID, uid : UID]
    /\ ordered \in [Msg -> SUBSET Folder]
    /\ wish \in [Msg -> Folder \cup {NoFolder}]
    /\ dropped \subseteq Msg
    /\ spent \in [{"moves", "remote", "faults"} -> Nat]

(* The worker brings a message only to folders the user moved it to: never *)
(* another message that has the UID of the row by now or in another folder. *)
OnlyOrderedMoves ==
    [][spent'.remote = spent.remote =>
         \A m \in Msg, f \in Folder : ~IsOn(m, f) /\ IsOn(m, f)' => f \in ordered[m]]_vars

(* As long as the server has a message elsewhere than where the user last  *)
(* moved it, a pending move says so; the exceptions are messages of a bulk *)
(* move by filter: one whose INSERT failed, and those beyond the ids read. *)
MovesQueued ==
    \A m \in Msg \ dropped :
        wish[m] # NoFolder /\ ~IsOn(m, wish[m]) /\ (\E f \in Folder : IsOn(m, f)) =>
            \/ \E id \in EmailID : MsgOf(id) = m /\ queue[id] # NoMove
                                    /\ queue[id].target = wish[m]
            \/ \E s \in request.todo : request.pc = "enqueue" /\ MsgOf(s.id) = m

(* A row shows its message, or its UID, of the folder the message came     *)
(* from, is that of another message here.                                  *)
Shown(m) ==
    /\ \A f \in Folder, u \in UID : server[f][u] = m =>
          \E id \in RowsIn(f) : MsgOf(id) = m /\ rows[id].uid = u
    /\ \A id \in EmailID : MsgOf(id) = m /\ Exists(id) =>
          server[rows[id].folder][rows[id].uid] # NoMsg

(* In the end every message that was not deleted for good has a row where  *)
(* the server has it, no row is left without a message that has its UID,   *)
(* and no move is pending.                                                 *)
Settles ==
    <>[](/\ \A m \in Msg \ dropped : Shown(m)
         /\ \A id \in EmailID : queue[id] = NoMove)
=============================================================================
