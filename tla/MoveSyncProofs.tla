--------------------------- MODULE MoveSyncProofs ---------------------------
(***************************************************************************)
(* Theorems about MoveSync, for every set of messages and folders and      *)
(* every bound.  The types hold whatever happens; that moves are the       *)
(* user's and are not lost needs messages to be moved one after the other, *)
(* from INBOX or one at a time.                                            *)
(***************************************************************************)
EXTENDS MoveSync, FiniteSetTheorems, TLAPS

Busy == {"move", "bulk", "bulkdelete", "filter", "enqueue"}

RequestState ==
    [pc : Busy \cup {"idle", "erase"}, todo : SUBSET Snapshot,
     source : Folder \cup {NoFolder}, target : Folder \cup {NoFolder}]

WorkerState ==
    [pc : {"idle", "select", "move", "complete", "list", "purge"},
     todo : SUBSET Job, group : SUBSET Job, left : SUBSET Job, cur : SUBSET Job,
     folder : Folder \cup {NoFolder}, count : Nat,
     listed : SUBSET [id : EmailID, uid : UID]]

(* A request has a target and a number.                                    *)
RequestShape ==
    request.pc # "idle" =>
        /\ request.target \in Folder /\ request.source \in Folder \cup {NoFolder}
        /\ spent.moves \in 1 .. MaxMoves
        /\ request.pc = "filter" => request.source \in Folder

(* The jobs of a pass are the pending moves it has read, one for each id;  *)
(* those that still stand have not been given up.                          *)
JobsShape ==
    /\ worker.cur \cup worker.left \subseteq worker.group
    /\ worker.group \subseteq worker.todo
    /\ worker.pc = "select" => worker.group = {}
    /\ \A j, k \in worker.todo : j.id = k.id => j = k
    /\ \A j \in worker.todo : j.id \in Current({j}) => queue[j.id].retries < MaxRetry
    /\ worker.pc \in {"list", "purge"} => worker.folder \in Folder

Shape ==
    /\ TypeOK /\ request \in RequestState /\ worker \in WorkerState
    /\ RequestShape /\ JobsShape
    /\ spent.moves \in 0 .. MaxMoves

------------------------------------------------------------------------------
(* The server gives a UID once, and a message has one place.               *)
ServerOK ==
    /\ \A f \in Folder, u \in UID : server[f][u] # NoMsg => u < next[f]
    /\ \A f, g \in Folder, u, v \in UID :
          server[f][u] # NoMsg /\ server[f][u] = server[g][v] => f = g /\ u = v

(* What a UID known for a message names, now and ever after: the message   *)
(* or nothing.  Its folder has been synchronised past it.                  *)
Names(f, u, m) ==
    /\ f \in Folder /\ u \in UID /\ u <= cursor[f]
    /\ server[f][u] \in {m, NoMsg}

(* The pending moves, the jobs of the pass and what a request has read     *)
(* name their messages, and the moves were ordered.                        *)
QueueNamed ==
    \A id \in EmailID : queue[id] # NoMove =>
        /\ Names(queue[id].source, queue[id].uid, MsgOf(id))
        /\ queue[id].target \in ordered[MsgOf(id)]

JobsNamed ==
    \A j \in worker.todo :
        Names(j.source, j.uid, MsgOf(j.id)) /\ j.target \in ordered[MsgOf(j.id)]

RequestNamed ==
    \A s \in request.todo : request.pc \in Busy =>
        /\ Names(SourceName(s.folder), s.uid, MsgOf(s.id))
        /\ request.pc = "enqueue" => request.target \in ordered[MsgOf(s.id)]

OrderedInv == Shape /\ ServerOK /\ QueueNamed /\ JobsNamed /\ RequestNamed

------------------------------------------------------------------------------
(* A message has one row in a folder.                                      *)
OneRow ==
    \A id, d \in EmailID :
        Exists(id) /\ Exists(d) /\ MsgOf(id) = MsgOf(d) /\ rows[id].folder = rows[d].folder
            => id = d

(* Two moves that ask the server for the same.                             *)
Same(move, other) ==
    move.source = other.source /\ move.target = other.target /\ move.uid = other.uid

(* A pending move, or a job, that will move its message when it is sent.   *)
LiveMove(id) == queue[id] # NoMove /\ server[queue[id].source][queue[id].uid] = MsgOf(id)
LiveJob(j) == server[j.source][j.uid] = MsgOf(j.id)

(* It takes the message to where the user wants it.                        *)
MovesWished ==
    \A id \in EmailID : LiveMove(id) => queue[id].target = wish[MsgOf(id)]

(* It is still in the queue.                                               *)
JobsQueued ==
    \A j \in worker.todo : LiveJob(j) => queue[j.id] # NoMove /\ Same(queue[j.id], j)

(* The number of a move tells it from every earlier one of its message: a  *)
(* job with the number of an entry is the job of that entry.               *)
Awaited(id) ==
    request.pc \in Busy /\ (request.pc = "enqueue" => \E s \in request.todo : s.id = id)

KeysFresh ==
    /\ \A id \in EmailID : queue[id] # NoMove =>
          queue[id].key <= spent.moves /\ (Awaited(id) => queue[id].key # spent.moves)
    /\ \A j \in worker.todo :
          j.key <= spent.moves /\ (Awaited(j.id) => j.key # spent.moves)
    /\ \A j \in worker.todo : queue[j.id] # NoMove /\ queue[j.id].key = j.key =>
          Same(queue[j.id], j)

(* The server has executed the move whose entry is deleted next.           *)
CurExecuted ==
    worker.pc = "complete" => \A j \in worker.cur : ~LiveJob(j)

(* The row of an id shows where the server has its message.                *)
Right(id) ==
    /\ Exists(id) /\ rows[id].uid <= cursor[rows[id].folder]
    /\ server[rows[id].folder][rows[id].uid] = MsgOf(id)

(* A row that is right stands in the way of no live move but its own.      *)
RightRows ==
    \A id, d \in EmailID : Right(id) /\ LiveMove(d) /\ MsgOf(d) = MsgOf(id) => d = id

(* A request is about messages that have no live move, one row of each,    *)
(* and every other row of the message is wrong while the move is yet to be *)
(* queued.                                                                 *)
RequestsCalm ==
    request.pc \in Busy =>
        /\ \A s, t \in request.todo : MsgOf(s.id) = MsgOf(t.id) => s = t
        /\ \A s \in request.todo :
              /\ \A id \in EmailID : MsgOf(id) = MsgOf(s.id) => ~LiveMove(id)
              /\ Named(s) => \A id \in EmailID : MsgOf(id) = MsgOf(s.id) /\ Right(id) => id = s.id
              /\ request.pc = "enqueue" /\ Named(s) => wish[MsgOf(s.id)] = request.target

(* What a filter matches, when the rows are moved, are messages without a  *)
(* live move; what was read of them is what the rows are.                  *)
FilterCalm ==
    request.pc = "filter" =>
        \A id \in RowsIn(request.source) :
            /\ \A s \in request.todo : MsgOf(s.id) = MsgOf(id) =>
                  s.id = id /\ SourceName(s.folder) = request.source /\ s.uid = rows[id].uid
            /\ \A d \in EmailID : MsgOf(d) = MsgOf(id) => ~LiveMove(d)

Queued(m) ==
    \/ \E id \in EmailID : MsgOf(id) = m /\ LiveMove(id) /\ queue[id].target = wish[m]
    \/ \E s \in request.todo : request.pc = "enqueue" /\ MsgOf(s.id) = m /\ Named(s)

WishesQueued ==
    \A m \in Msg \ dropped :
        wish[m] # NoFolder /\ ~IsOn(m, wish[m]) /\ (\E f \in Folder : IsOn(m, f)) => Queued(m)

QueuedInv ==
    /\ OrderedInv /\ OneRow
    /\ KeysFresh /\ MovesWished /\ JobsQueued /\ CurExecuted /\ RightRows
    /\ RequestsCalm /\ FilterCalm /\ WishesQueued

------------------------------------------------------------------------------
(* The state has its shape.                                                *)

LEMMA UIDsFinite == IsFiniteSet(UID)
BY ConstantsAssumption, FS_Interval DEF ConstantsAssumption, UID

LEMMA MsgCount == Cardinality(Msg) \in 0 .. MaxUID
BY ConstantsAssumption, FS_CardinalityType DEF ConstantsAssumption

LEMMA NoneIsNone == NoMove \notin Move /\ NoRow \notin Row
<1>1. Move \subseteq [key : Nat, source : Folder, target : Folder, uid : Nat, retries : Nat]
  BY ConstantsAssumption DEF ConstantsAssumption, Move, UID
<1>2. Row \subseteq [folder : Folder, uid : Nat]
  BY DEF Row, UID
<1> QED BY <1>1, <1>2, ConstantsAssumption DEF ConstantsAssumption

LEMMA EmailIDs ==
    /\ \A id \in EmailID : MsgOf(id) \in Msg
    /\ \A id \in EmailID : id[2] \in 1 .. Incarnations
BY DEF EmailID, MsgOf

LEMMA SourceNameType ==
    \A f \in Folder \cup {NoFolder} : SourceName(f) \in Folder
BY ConstantsAssumption DEF ConstantsAssumption, SourceName

LEMMA SpendShape ==
    ASSUME Shape, NEW kind \in {"moves", "remote", "faults"}, NEW bound \in Nat, Spend(kind, bound)
    PROVE  /\ spent' \in [{"moves", "remote", "faults"} -> Nat]
           /\ kind # "moves" => spent'.moves = spent.moves
           /\ kind = "moves" => spent'.moves = spent.moves + 1 /\ spent.moves < bound
BY DEF Spend, Shape, TypeOK

LEMMA FaultShape ==
    ASSUME Shape, NEW hazard, Fault(hazard) \/ UNCHANGED spent
    PROVE  spent' \in [{"moves", "remote", "faults"} -> Nat] /\ spent'.moves = spent.moves
<1>1. CASE Fault(hazard)
  BY <1>1, SpendShape, ConstantsAssumption DEF Fault, ConstantsAssumption
<1>2. CASE UNCHANGED spent
  BY <1>2 DEF Shape, TypeOK
<1> QED BY <1>1, <1>2

LEMMA CurrentIds ==
    ASSUME NEW jobs, NEW id
    PROVE  id \in Current(jobs) <=>
              \E j \in jobs : j.id = id /\ queue[j.id] # NoMove /\ queue[j.id].key = j.key
BY DEF Current

LEMMA WorkerIdleShape == WorkerIdle \in WorkerState /\ WorkerIdle.todo = {}
                         /\ WorkerIdle.pc = "idle" /\ WorkerIdle.group = {}
                         /\ WorkerIdle.left = {} /\ WorkerIdle.cur = {}
BY DEF WorkerIdle, WorkerState

LEMMA RequestIdleShape == RequestIdle \in RequestState /\ RequestIdle.pc = "idle"
                          /\ RequestIdle.todo = {}
BY DEF RequestIdle, RequestState

(* Jobs stay what they are when the queue changes elsewhere or anew.       *)
LEMMA JobsKept ==
    ASSUME Shape, UNCHANGED worker,
           \A id \in EmailID : queue'[id] # NoMove =>
               queue'[id] = queue[id] \/ queue'[id].retries = 0
    PROVE  JobsShape'
<1>1. ASSUME NEW j \in worker.todo, j.id \in Current({j})'
      PROVE  queue'[j.id].retries < MaxRetry
  <2>1. j.id \in EmailID /\ queue'[j.id] # NoMove /\ queue'[j.id].key = j.key
    BY <1>1 DEF Current, Shape, TypeOK, Job
  <2>2. CASE queue'[j.id] = queue[j.id]
    <3>1. j.id \in Current({j})
      BY <2>1, <2>2 DEF Current
    <3> QED BY <2>2, <3>1 DEF Shape, JobsShape
  <2>3. CASE queue'[j.id].retries = 0
    BY <2>3, ConstantsAssumption DEF ConstantsAssumption
  <2> QED BY <2>1, <2>2, <2>3
<1> QED BY <1>1 DEF Shape, JobsShape

LEMMA PendingType ==
    ASSUME Shape, request.pc # "idle", NEW f \in Folder \cup {NoFolder},
           NEW t \in Folder, NEW u \in UID
    PROVE  /\ Pending(SourceName(f), t, u) \in Move
           /\ Pending(SourceName(f), t, u).retries = 0
           /\ Pending(SourceName(f), t, u).source = SourceName(f)
           /\ Pending(SourceName(f), t, u).target = t
           /\ Pending(SourceName(f), t, u).uid = u
           /\ Pending(SourceName(f), t, u).key = spent.moves
BY SourceNameType, ConstantsAssumption
   DEF Shape, RequestShape, Pending, Move, ConstantsAssumption

LEMMA ShapeInit == Init => Shape
<1> SUFFICES ASSUME Init PROVE Shape
  OBVIOUS
<1> USE ConstantsAssumption, MsgCount
<1>1. PICK home \in [Msg -> Folder], num \in [Msg -> 1 .. Cardinality(Msg)] :
          /\ \A m, n \in Msg : m # n => <<home[m], num[m]>> # <<home[n], num[n]>>
          /\ server = [f \in Folder |-> [u \in UID |->
                          IF \E m \in Msg : home[m] = f /\ num[m] = u
                          THEN CHOOSE m \in Msg : home[m] = f /\ num[m] = u ELSE NoMsg]]
          /\ rows = [id \in EmailID |-> IF id[2] = 1
                        THEN [folder |-> home[id[1]], uid |-> num[id[1]]] ELSE NoRow]
  BY DEF Init
<1>2. server \in [Folder -> [UID -> Msg \cup {NoMsg}]]
  <2>1. \A f \in Folder, u \in UID : server[f][u] \in Msg \cup {NoMsg}
    BY <1>1
  <2> QED BY <1>1, <2>1
<1>3. rows \in [EmailID -> Row \cup {NoRow}]
  <2>1. \A m \in Msg : num[m] \in UID
    BY <1>1 DEF UID, ConstantsAssumption
  <2>2. \A id \in EmailID : id[1] \in Msg
    BY DEF EmailID
  <2> QED BY <1>1, <2>1, <2>2 DEF Row
<1>4. /\ next \in [Folder -> 1 .. MaxUID + 1] /\ cursor \in [Folder -> 0 .. MaxUID]
      /\ \A f \in Folder : cursor[f] < next[f]
  BY DEF Init, ConstantsAssumption
<1>5. TypeOK
  BY <1>2, <1>3, <1>4, RequestIdleShape, WorkerIdleShape DEF Init, TypeOK, RequestIdle, WorkerIdle
<1>6. RequestShape /\ JobsShape
  BY WorkerIdleShape, RequestIdleShape DEF Init, RequestShape, JobsShape
<1> QED BY <1>5, <1>6, RequestIdleShape, WorkerIdleShape DEF Init, Shape, ConstantsAssumption

(* The requests read ...                                                   *)
LEMMA ReadShape ==
    ASSUME Shape, NEW pc \in Busy \cup {"erase"}, NEW todo \in SUBSET Snapshot,
           NEW source \in Folder \cup {NoFolder}, NEW target \in Folder,
           pc = "filter" => source \in Folder, Read(pc, todo, source, target)
    PROVE  Shape'
<1>1. /\ request' = [pc |-> pc, todo |-> todo, source |-> source, target |-> target]
      /\ Spend("moves", MaxMoves)
      /\ UNCHANGED <<server, next, cursor, rows, queue, worker, history>>
  BY DEF Read
<1>2. /\ spent' \in [{"moves", "remote", "faults"} -> Nat]
      /\ spent'.moves = spent.moves + 1 /\ spent.moves < MaxMoves
  BY <1>1, SpendShape, ConstantsAssumption DEF ConstantsAssumption
<1>3. request' \in RequestState /\ pc # "idle"
  BY <1>1 DEF RequestState, Busy
<1>4. TypeOK'
  BY <1>1, <1>2, <1>3 DEF Shape, TypeOK, history, Busy
<1>5. RequestShape' /\ JobsShape' /\ spent'.moves \in 0 .. MaxMoves
  BY <1>1, <1>2, ConstantsAssumption
     DEF Shape, RequestShape, JobsShape, Current, ConstantsAssumption
<1> QED BY <1>1, <1>3, <1>4, <1>5 DEF Shape

LEMMA GetEmailType ==
    ASSUME Shape, NEW id \in EmailID, Exists(id)
    PROVE  GetEmail(id) \in Snapshot /\ rows[id] \in Row
BY DEF Shape, TypeOK, Exists, Row, Snapshot, GetEmail

LEMMA GetEmailsByIDsType ==
    ASSUME Shape, NEW I \in SUBSET EmailID, \A id \in I : Exists(id)
    PROVE  GetEmailsByIDs(I) \in SUBSET Snapshot
BY GetEmailType DEF Shape, TypeOK, Row, Snapshot, GetEmailsByIDs

Requested ==
    \/ \E id \in EmailID, f \in Folder : MoveEmail(id, f)
    \/ \E id \in EmailID : DeleteEmail(id) \/ RestoreFromTrash(id)
    \/ \E I \in SUBSET EmailID \ {{}}, f \in Folder : BulkAction("bulk", I, f)
    \/ \E I \in SUBSET EmailID \ {{}} : BulkAction("bulkdelete", I, Trash)
    \/ \E f, t \in Folder : BulkActionByFilter(f, t)

LEMMA RequestedShape == ASSUME Shape, Requested PROVE Shape'
<1> USE ConstantsAssumption
<1>0. Inbox \in Folder /\ Trash \in Folder
  BY DEF ConstantsAssumption
<1>1. ASSUME NEW id \in EmailID, Exists(id)
      PROVE  {GetEmail(id)} \in SUBSET Snapshot
  BY <1>1, GetEmailType
<1>2. ASSUME NEW id \in EmailID, NEW f \in Folder, MoveEmail(id, f) PROVE Shape'
  BY <1>1, <1>2, ReadShape DEF MoveEmail, Busy
<1>3. ASSUME NEW id \in EmailID, DeleteEmail(id) \/ RestoreFromTrash(id) PROVE Shape'
  <2>1. CASE DeleteEmail(id)
    BY <1>0, <1>1, <2>1, ReadShape DEF DeleteEmail, Busy
  <2>2. CASE RestoreFromTrash(id)
    BY <1>0, <1>1, <2>2, ReadShape DEF RestoreFromTrash, Busy
  <2> QED BY <1>3, <2>1, <2>2
<1>4. ASSUME NEW pc \in {"bulk", "bulkdelete"}, NEW I \in SUBSET EmailID, NEW f \in Folder,
             BulkAction(pc, I, f)
      PROVE  Shape'
  <2>1. GetEmailsByIDs(I) \in SUBSET Snapshot
    BY <1>4, GetEmailsByIDsType DEF BulkAction
  <2> QED BY <1>4, <2>1, ReadShape DEF BulkAction, Busy
<1>5. ASSUME NEW f \in Folder, NEW t \in Folder, BulkActionByFilter(f, t) PROVE Shape'
  <2>1. PICK I \in GetEmailIDsByFilter(f) : Read("filter", GetEmailsByIDs(I), f, t)
    BY <1>5 DEF BulkActionByFilter
  <2>2. I \in SUBSET EmailID /\ \A id \in I : Exists(id)
    BY DEF GetEmailIDsByFilter, RowsIn, Exists
  <2>3. GetEmailsByIDs(I) \in SUBSET Snapshot
    BY <2>2, GetEmailsByIDsType
  <2> QED BY <2>1, <2>3, ReadShape DEF Busy
<1> QED BY <1>0, <1>2, <1>3, <1>4, <1>5 DEF Requested

(* ... and act.                                                            *)
LEMMA OrderedShape ==
    ASSUME Shape, NEW S, NEW target \in Folder, Ordered(S, target)
    PROVE  /\ ordered' \in [Msg -> SUBSET Folder]
           /\ wish' \in [Msg -> Folder \cup {NoFolder}]
BY DEF Ordered, Shape, TypeOK

LEMMA OrderShape ==
    ASSUME Shape, NEW S, NEW target \in Folder, Order(S, target)
    PROVE  /\ ordered' \in [Msg -> SUBSET Folder]
           /\ wish' \in [Msg -> Folder \cup {NoFolder}]
           /\ dropped' = dropped
BY OrderedShape DEF Order

LEMMA AnswerShape ==
    ASSUME Shape, Answer, UNCHANGED <<server, next, cursor, worker>>,
           rows' \in [EmailID -> Row \cup {NoRow}], queue' \in [EmailID -> Move \cup {NoMove}],
           ordered' \in [Msg -> SUBSET Folder], wish' \in [Msg -> Folder \cup {NoFolder}],
           dropped' \subseteq Msg,
           spent' \in [{"moves", "remote", "faults"} -> Nat] /\ spent'.moves = spent.moves,
           \A id \in EmailID : queue'[id] # NoMove =>
               queue'[id] = queue[id] \/ queue'[id].retries = 0
    PROVE  Shape'
<1>1. request' = RequestIdle
  BY DEF Answer
<1>2. TypeOK'
  BY <1>1, RequestIdleShape DEF Shape, TypeOK, RequestIdle
<1>3. RequestShape'
  BY <1>1, RequestIdleShape DEF RequestShape
<1>4. JobsShape'
  BY JobsKept
<1> QED BY <1>1, <1>2, <1>3, <1>4, RequestIdleShape DEF Shape

LEMMA MoveRowType ==
    ASSUME Shape, NEW id \in EmailID, Exists(id), NEW target \in Folder,
           MoveEmailFolderInTx(id, target)
    PROVE  /\ rows' \in [EmailID -> Row \cup {NoRow}]
           /\ \A d \in EmailID : d # id => rows'[d] = rows[d]
           /\ rows'[id] = IF Duplicate(id, target) = {}
                          THEN [folder |-> target, uid |-> rows[id].uid] ELSE NoRow
<1>1. rows[id] \in Row
  BY GetEmailType
<1>2. [rows[id] EXCEPT !.folder = target] = [folder |-> target, uid |-> rows[id].uid]
  BY <1>1 DEF Row
<1>3. [folder |-> target, uid |-> rows[id].uid] \in Row
  BY <1>1 DEF Row
<1> QED BY <1>2, <1>3 DEF Shape, TypeOK, MoveEmailFolderInTx

LEMMA EnqueueType ==
    ASSUME Shape, request.pc # "idle", NEW s \in Snapshot, NEW target \in Folder,
           queue' = EnqueueIMAPMove(s, target)
    PROVE  /\ queue' \in [EmailID -> Move \cup {NoMove}]
           /\ queue'[s.id] = Pending(SourceName(s.folder), target, s.uid)
           /\ queue'[s.id].retries = 0
           /\ \A id \in EmailID : id # s.id => queue'[id] = queue[id]
<1>1. s.id \in EmailID /\ s.folder \in Folder \cup {NoFolder} /\ s.uid \in UID
  BY DEF Snapshot
<1>2. Pending(SourceName(s.folder), target, s.uid) \in Move
      /\ Pending(SourceName(s.folder), target, s.uid).retries = 0
  BY <1>1, PendingType
<1> QED BY <1>1, <1>2 DEF EnqueueIMAPMove, Shape, TypeOK

LEMMA MoveEmailAndEnqueueShape ==
    ASSUME Shape, MoveEmailAndEnqueueIMAP
    PROVE  Shape'
<1>0. /\ request.pc = "move" /\ request.target \in Folder /\ Answer
      /\ UNCHANGED <<server, next, cursor, worker>>
  BY DEF MoveEmailAndEnqueueIMAP, Shape, RequestShape
<1>1. PICK s \in request.todo :
          \/ /\ Exists(s.id)
             /\ MoveEmailFolderInTx(s.id, request.target)
             /\ \E id \in IF Duplicate(s.id, request.target) = {} THEN {s.id}
                          ELSE Duplicate(s.id, request.target) :
                   queue' = EnqueueIMAPMove([s EXCEPT !.id = id], request.target)
             /\ Order({s}, request.target)
             /\ UNCHANGED spent
          \/ ~Exists(s.id) /\ UNCHANGED <<rows, queue, history, spent>>
          \/ Fault("write") /\ UNCHANGED <<rows, queue, history>>
  BY DEF MoveEmailAndEnqueueIMAP
<1>2. s \in Snapshot /\ s.id \in EmailID
  BY DEF Shape, TypeOK, Snapshot
<1>3. CASE /\ Exists(s.id)
           /\ MoveEmailFolderInTx(s.id, request.target)
           /\ \E id \in IF Duplicate(s.id, request.target) = {} THEN {s.id}
                        ELSE Duplicate(s.id, request.target) :
                 queue' = EnqueueIMAPMove([s EXCEPT !.id = id], request.target)
           /\ Order({s}, request.target)
           /\ UNCHANGED spent
  <2>1. PICK id \in EmailID : queue' = EnqueueIMAPMove([s EXCEPT !.id = id], request.target)
    BY <1>2, <1>3 DEF Duplicate, RowsIn
  <2>2. [s EXCEPT !.id = id] \in Snapshot
    BY <1>2 DEF Snapshot
  <2>3. /\ queue' \in [EmailID -> Move \cup {NoMove}]
        /\ \A d \in EmailID : queue'[d] = queue[d] \/ queue'[d].retries = 0
    BY <1>0, <2>1, <2>2, EnqueueType
  <2>4. rows' \in [EmailID -> Row \cup {NoRow}]
    BY <1>0, <1>2, <1>3, MoveRowType
  <2>5. /\ ordered' \in [Msg -> SUBSET Folder] /\ wish' \in [Msg -> Folder \cup {NoFolder}]
        /\ dropped' \subseteq Msg
    BY <1>0, <1>3, OrderShape DEF Shape, TypeOK
  <2>6. spent' \in [{"moves", "remote", "faults"} -> Nat] /\ spent'.moves = spent.moves
    BY <1>3 DEF Shape, TypeOK
  <2> QED BY <1>0, <2>3, <2>4, <2>5, <2>6, AnswerShape
<1>4. CASE /\ Fault("write") \/ UNCHANGED spent
           /\ UNCHANGED <<rows, queue, history>>
  <2>1. spent' \in [{"moves", "remote", "faults"} -> Nat] /\ spent'.moves = spent.moves
    BY <1>4, FaultShape
  <2> QED BY <1>0, <1>4, <2>1, AnswerShape DEF history, Shape, TypeOK
<1> QED BY <1>1, <1>3, <1>4

LEMMA DeleteRowsType ==
    ASSUME Shape, NEW I, DeleteRows(I)
    PROVE  rows' \in [EmailID -> Row \cup {NoRow}]
BY DEF Shape, TypeOK, DeleteRows

LEMMA EraseShape == ASSUME Shape, Erase PROVE Shape'
<1>1. {MsgOf(s.id) : s \in request.todo} \subseteq Msg
  BY EmailIDs DEF Shape, TypeOK, Snapshot
<1>2. rows' \in [EmailID -> Row \cup {NoRow}]
  BY DeleteRowsType DEF Erase
<1>3. /\ Answer /\ UNCHANGED <<server, next, cursor, queue, worker, ordered, wish, spent>>
      /\ dropped' \subseteq Msg
  BY <1>1 DEF Erase, Shape, TypeOK
<1> QED BY <1>2, <1>3, AnswerShape DEF Shape, TypeOK

LEMMA MovedToType ==
    ASSUME Shape, NEW I \in SUBSET EmailID, \A id \in I : Exists(id), NEW target \in Folder
    PROVE  /\ MovedTo(I, target) \in [EmailID -> Row \cup {NoRow}]
           /\ \A id \in I : MovedTo(I, target)[id] = [folder |-> target, uid |-> rows[id].uid]
           /\ \A id \in EmailID \ I : MovedTo(I, target)[id] = rows[id]
<1>1. \A id \in I : /\ rows[id] \in Row
                    /\ [rows[id] EXCEPT !.folder = target] = [folder |-> target, uid |-> rows[id].uid]
                    /\ [folder |-> target, uid |-> rows[id].uid] \in Row
  BY GetEmailType DEF Row
<1> QED BY <1>1 DEF MovedTo, Shape, TypeOK

(* What a bulk action does to the queue, when it is carried out.           *)
LEMMA BulkQueueType ==
    ASSUME Shape, request.pc # "idle", NEW moved \in SUBSET request.todo,
           queue' = [id \in EmailID |->
                       IF \E s \in moved : s.id = id
                       THEN LET s == CHOOSE s \in moved : s.id = id
                            IN  Pending(SourceName(s.folder), request.target, s.uid)
                       ELSE queue[id]]
    PROVE  /\ queue' \in [EmailID -> Move \cup {NoMove}]
           /\ \A id \in EmailID : (\E s \in moved : s.id = id) =>
                 \E s \in moved : /\ s.id = id /\ queue'[id].retries = 0
                                  /\ queue'[id] \in Move
                                  /\ queue'[id].source = SourceName(s.folder)
                                  /\ queue'[id].target = request.target
                                  /\ queue'[id].uid = s.uid
           /\ \A id \in EmailID : ~(\E s \in moved : s.id = id) => queue'[id] = queue[id]
<1>1. request.target \in Folder
  BY DEF Shape, RequestShape
<1>2. ASSUME NEW id \in EmailID, \E s \in moved : s.id = id
      PROVE  \E s \in moved : /\ s.id = id /\ queue'[id].retries = 0
                              /\ queue'[id] \in Move
                              /\ queue'[id].source = SourceName(s.folder)
                              /\ queue'[id].target = request.target
                              /\ queue'[id].uid = s.uid
  <2> DEFINE s == CHOOSE s \in moved : s.id = id
  <2>1. s \in moved /\ s.id = id
    BY <1>2
  <2>2. queue'[id] = Pending(SourceName(s.folder), request.target, s.uid)
    BY <1>2
  <2>3. s.folder \in Folder \cup {NoFolder} /\ s.uid \in UID
    BY <2>1 DEF Shape, TypeOK, Snapshot
  <2> HIDE DEF s
  <2> QED BY <1>1, <2>1, <2>2, <2>3, PendingType
<1>3. \A id \in EmailID : ~(\E s \in moved : s.id = id) => queue'[id] = queue[id]
  OBVIOUS
<1>4. \A id \in EmailID : queue'[id] \in Move \cup {NoMove}
  BY <1>2, <1>3 DEF Shape, TypeOK
<1>5. queue' = [id \in EmailID |-> queue'[id]]
  OBVIOUS
<1> QED BY <1>2, <1>3, <1>4, <1>5

(* The read rows a delete finds in Trash, the others, and those there are. *)
Trashed == {s \in request.todo : request.pc = "bulkdelete" /\ s.folder = Trash}
Moved == request.todo \ Trashed
There == {id \in {s.id : s \in Moved} : Exists(id)}

LEMMA BulkCases ==
    ASSUME BulkMoveAndEnqueue
    PROVE  /\ request.pc \in {"bulk", "bulkdelete"} /\ Answer
           /\ UNCHANGED <<server, next, cursor, worker, spent>>
           /\ \/ /\ ~Collides(There, request.target)
                 /\ rows' = [id \in EmailID |-> IF \E s \in Trashed : s.id = id THEN NoRow
                                                ELSE MovedTo(There, request.target)[id]]
                 /\ queue' = [id \in EmailID |->
                                IF \E s \in Moved : s.id = id
                                THEN LET s == CHOOSE s \in Moved : s.id = id
                                     IN  Pending(SourceName(s.folder), request.target, s.uid)
                                ELSE queue[id]]
                 /\ Order(Moved, request.target)
              \/ UNCHANGED <<rows, queue, history>>
BY DEF BulkMoveAndEnqueue, Trashed, Moved, There

LEMMA ThereIds == Shape => There \in SUBSET EmailID /\ \A id \in There : Exists(id)
BY DEF There, Moved, Shape, TypeOK, Snapshot

LEMMA BulkShape == ASSUME Shape, BulkMoveAndEnqueue PROVE Shape'
<1>0. /\ request.pc \in {"bulk", "bulkdelete"} /\ Answer /\ request.target \in Folder
      /\ UNCHANGED <<server, next, cursor, worker, spent>>
  BY BulkCases DEF Shape, RequestShape
<1>1. CASE UNCHANGED <<rows, queue, history>>
  BY <1>0, <1>1, AnswerShape DEF Shape, TypeOK, history
<1>2. CASE /\ rows' = [id \in EmailID |-> IF \E s \in Trashed : s.id = id THEN NoRow
                                          ELSE MovedTo(There, request.target)[id]]
           /\ queue' = [id \in EmailID |->
                          IF \E s \in Moved : s.id = id
                          THEN LET s == CHOOSE s \in Moved : s.id = id
                               IN  Pending(SourceName(s.folder), request.target, s.uid)
                          ELSE queue[id]]
           /\ Order(Moved, request.target)
  <2>1. rows' \in [EmailID -> Row \cup {NoRow}]
    <3>1. MovedTo(There, request.target) \in [EmailID -> Row \cup {NoRow}]
      BY <1>0, ThereIds, MovedToType
    <3> QED BY <1>2, <3>1
  <2>2. /\ queue' \in [EmailID -> Move \cup {NoMove}]
        /\ \A id \in EmailID : queue'[id] = queue[id] \/ queue'[id].retries = 0
    <3>1. Moved \in SUBSET request.todo
      BY DEF Moved
    <3> QED BY <1>0, <1>2, <3>1, BulkQueueType
  <2>3. /\ ordered' \in [Msg -> SUBSET Folder] /\ wish' \in [Msg -> Folder \cup {NoFolder}]
        /\ dropped' \subseteq Msg
    BY <1>0, <1>2, OrderShape DEF Shape, TypeOK
  <2> QED BY <1>0, <2>1, <2>2, <2>3, AnswerShape DEF Shape, TypeOK
<1> QED BY <1>1, <1>2, BulkCases

LEMMA FilterShape == ASSUME Shape, BulkMoveByFilter PROVE Shape'
<1> DEFINE there == RowsIn(request.source)
<1>0. /\ request.pc = "filter" /\ request.target \in Folder
      /\ UNCHANGED <<server, next, cursor, queue, worker, spent>>
  BY DEF BulkMoveByFilter, Shape, RequestShape
<1>1. CASE Collides(there, request.target)
  <2>1. Answer /\ UNCHANGED <<rows, history>>
    BY <1>1 DEF BulkMoveByFilter
  <2> QED BY <1>0, <2>1, AnswerShape DEF Shape, TypeOK, history
<1>2. CASE ~Collides(there, request.target)
  <2>1. /\ rows' = MovedTo(there, request.target)
        /\ Ordered(request.todo \cup {GetEmail(id) : id \in there}, request.target)
        /\ dropped' = dropped \cup {MsgOf(id) : id \in there \ {s.id : s \in request.todo}}
        /\ request' = [request EXCEPT !.pc = "enqueue"]
    BY <1>2 DEF BulkMoveByFilter
  <2>2. there \in SUBSET EmailID /\ \A id \in there : Exists(id)
    BY DEF RowsIn, Exists
  <2>3. rows' \in [EmailID -> Row \cup {NoRow}]
    BY <1>0, <2>1, <2>2, MovedToType
  <2>4. /\ ordered' \in [Msg -> SUBSET Folder] /\ wish' \in [Msg -> Folder \cup {NoFolder}]
        /\ dropped' \subseteq Msg
    BY <1>0, <2>1, <2>2, OrderedShape, EmailIDs DEF Shape, TypeOK
  <2>5. /\ request' \in RequestState /\ request'.pc = "enqueue" /\ request'.todo = request.todo
        /\ request'.source = request.source /\ request'.target = request.target
    BY <2>1 DEF Shape, RequestState, Busy
  <2>6. TypeOK'
    BY <1>0, <2>3, <2>4, <2>5 DEF Shape, TypeOK
  <2>7. RequestShape'
    BY <1>0, <2>5 DEF Shape, RequestShape
  <2>8. JobsShape'
    BY <1>0, JobsKept
  <2> QED BY <1>0, <2>5, <2>6, <2>7, <2>8 DEF Shape
<1> QED BY <1>1, <1>2

LEMMA EnqueueShape == ASSUME Shape, EnqueueIMAPMovesFromEmails PROVE Shape'
<1>0. /\ request.pc = "enqueue" /\ request.target \in Folder
      /\ UNCHANGED <<server, next, cursor, rows, worker>>
  BY DEF EnqueueIMAPMovesFromEmails, Shape, RequestShape
<1>1. PICK s \in request.todo :
          /\ \/ queue' = EnqueueIMAPMove(s, request.target) /\ UNCHANGED <<history, spent>>
             \/ /\ Fault("write")
                /\ dropped' = dropped \cup {MsgOf(s.id)}
                /\ UNCHANGED <<queue, ordered, wish>>
          /\ IF request.todo = {s} THEN Answer
             ELSE request' = [request EXCEPT !.todo = @ \ {s}]
  BY DEF EnqueueIMAPMovesFromEmails
<1>2. s \in Snapshot /\ MsgOf(s.id) \in Msg
  BY EmailIDs DEF Shape, TypeOK, Snapshot
<1>3. /\ queue' \in [EmailID -> Move \cup {NoMove}]
      /\ \A id \in EmailID : queue'[id] = queue[id] \/ queue'[id].retries = 0
  <2>1. CASE queue' = EnqueueIMAPMove(s, request.target)
    BY <1>0, <1>2, <2>1, EnqueueType
  <2>2. CASE UNCHANGED queue
    BY <2>2 DEF Shape, TypeOK
  <2> QED BY <1>1, <2>1, <2>2
<1>4. /\ dropped' \subseteq Msg /\ UNCHANGED <<ordered, wish>>
      /\ spent' \in [{"moves", "remote", "faults"} -> Nat] /\ spent'.moves = spent.moves
  BY <1>1, <1>2, FaultShape DEF Shape, TypeOK, history
<1>5. CASE request.todo = {s}
  <2>1. Answer
    BY <1>1, <1>5
  <2> QED BY <1>0, <1>3, <1>4, <2>1, AnswerShape DEF Shape, TypeOK
<1>6. CASE request.todo # {s}
  <2>1. /\ request' \in RequestState /\ request'.pc = "enqueue"
        /\ request'.source = request.source /\ request'.target = request.target
    BY <1>0, <1>1, <1>6 DEF Shape, RequestState
  <2>2. TypeOK'
    BY <1>0, <1>3, <1>4, <2>1 DEF Shape, TypeOK, RequestState
  <2>3. RequestShape'
    BY <1>0, <1>4, <2>1 DEF Shape, RequestShape
  <2>4. JobsShape'
    BY <1>0, <1>3, JobsKept
  <2> QED BY <1>4, <2>1, <2>2, <2>3, <2>4, <1>0 DEF Shape
<1> QED BY <1>5, <1>6

------------------------------------------------------------------------------
(* The worker.                                                             *)

(* A worker with these values, and nothing else changed in type.           *)
LEMMA WorkerShape ==
    ASSUME Shape, worker' \in WorkerState, UNCHANGED <<request, history>>,
           server' \in [Folder -> [UID -> Msg \cup {NoMsg}]],
           next' \in [Folder -> 1 .. MaxUID + 1], cursor' \in [Folder -> 0 .. MaxUID],
           \A f \in Folder : cursor'[f] < next'[f],
           rows' \in [EmailID -> Row \cup {NoRow}], queue' \in [EmailID -> Move \cup {NoMove}],
           spent' \in [{"moves", "remote", "faults"} -> Nat] /\ spent'.moves = spent.moves,
           JobsShape'
    PROVE  Shape'
<1>1. TypeOK'
  BY DEF Shape, TypeOK, history, WorkerState, JobsShape
<1>2. RequestShape'
  BY DEF Shape, RequestShape
<1> QED BY <1>1, <1>2 DEF Shape

LEMMA IdleJobs == worker' = WorkerIdle => JobsShape'
BY WorkerIdleShape DEF JobsShape, WorkerIdle

(* The jobs that are left, of a queue in which only others have changed.   *)
LEMMA FewerJobs ==
    ASSUME Shape, worker'.todo \subseteq worker.todo,
           worker'.cur \cup worker'.left \subseteq worker'.group,
           worker'.group \subseteq worker'.todo, worker'.pc \in {"select", "move", "complete"},
           worker'.pc = "select" => worker'.group = {},
           \A j \in worker'.todo : queue'[j.id] = queue[j.id] \/ queue'[j.id] = NoMove
    PROVE  JobsShape'
<1>1. \A j \in worker'.todo : j.id \in Current({j})' => j.id \in Current({j})
  BY DEF Current
<1>2. \A j \in worker'.todo : j.id \in Current({j})' => queue'[j.id] = queue[j.id]
  BY DEF Current
<1> QED BY <1>1, <1>2 DEF Shape, JobsShape

LEMMA PendingMoves ==
    ASSUME Shape
    PROVE  /\ GetPendingIMAPMoves \in SUBSET Job
           /\ \A j \in GetPendingIMAPMoves :
                 /\ j.id \in EmailID /\ queue[j.id] # NoMove /\ queue[j.id].retries < MaxRetry
                 /\ j.key = queue[j.id].key /\ j.source = queue[j.id].source
                 /\ j.target = queue[j.id].target /\ j.uid = queue[j.id].uid
           /\ \A j, k \in GetPendingIMAPMoves : j.id = k.id => j = k
<1> DEFINE I == {i \in EmailID : queue[i] # NoMove /\ queue[i].retries < MaxRetry}
           J(id) == [id |-> id, key |-> queue[id].key, source |-> queue[id].source,
                     target |-> queue[id].target, uid |-> queue[id].uid]
<1>1. GetPendingIMAPMoves = {J(id) : id \in I}
  BY DEF GetPendingIMAPMoves
<1>2. \A id \in I : queue[id] \in Move /\ J(id) \in Job /\ J(id).id = id
  BY DEF Shape, TypeOK, Move, Job
<1> QED BY <1>1, <1>2

LEMMA SyncMovesShape == ASSUME Shape, SyncMoves PROVE Shape'
<1>1. /\ worker' = [WorkerIdle EXCEPT !.pc = "select", !.todo = GetPendingIMAPMoves]
      /\ UNCHANGED <<server, next, cursor, rows, queue, request, history, spent>>
  BY DEF SyncMoves, Becomes
<1>2. /\ worker' \in WorkerState /\ worker'.todo = GetPendingIMAPMoves /\ worker'.pc = "select"
      /\ worker'.group = {} /\ worker'.left = {} /\ worker'.cur = {}
  BY <1>1, PendingMoves DEF WorkerState, WorkerIdle
<1>3. JobsShape'
  BY <1>1, <1>2, PendingMoves DEF JobsShape, Current
<1> QED BY <1>1, <1>2, <1>3, WorkerShape DEF Shape, TypeOK

LEMMA FailType ==
    ASSUME Shape, NEW jobs \in SUBSET worker.todo, FailIMAPMove(jobs)
    PROVE  /\ queue' \in [EmailID -> Move \cup {NoMove}]
           /\ \A id \in EmailID :
                 /\ queue'[id] = NoMove <=> queue[id] = NoMove
                 /\ queue[id] # NoMove =>
                       /\ queue'[id] \in Move
                       /\ queue'[id].key = queue[id].key /\ queue'[id].source = queue[id].source
                       /\ queue'[id].target = queue[id].target /\ queue'[id].uid = queue[id].uid
                 /\ id \notin Current(jobs) => queue'[id] = queue[id]
<1>1. ASSUME NEW id \in Current(jobs)
      PROVE  queue[id].retries < MaxRetry /\ queue[id] # NoMove
  <2>1. PICK j \in jobs : j.id = id /\ queue[j.id] # NoMove /\ queue[j.id].key = j.key
    BY CurrentIds
  <2>2. j.id \in Current({j})
    BY <2>1, CurrentIds
  <2> QED BY <2>1, <2>2 DEF Shape, JobsShape
<1>2. ASSUME NEW id \in EmailID, id \in Current(jobs)
      PROVE  /\ queue[id] \in Move /\ NoMove # queue'[id]
             /\ queue'[id] = [queue[id] EXCEPT !.retries = @ + 1]
             /\ queue'[id] \in Move
             /\ queue'[id].key = queue[id].key /\ queue'[id].source = queue[id].source
             /\ queue'[id].target = queue[id].target /\ queue'[id].uid = queue[id].uid
  <2>1. queue[id] \in Move /\ queue[id].retries < MaxRetry
    BY <1>1, <1>2 DEF Shape, TypeOK
  <2>2. queue'[id] = [queue[id] EXCEPT !.retries = @ + 1]
    BY <1>2 DEF FailIMAPMove
  <2>3. /\ queue'[id] \in Move
        /\ queue'[id].key = queue[id].key /\ queue'[id].source = queue[id].source
        /\ queue'[id].target = queue[id].target /\ queue'[id].uid = queue[id].uid
    BY <2>1, <2>2, ConstantsAssumption DEF Move, ConstantsAssumption
  <2> QED BY <2>1, <2>2, <2>3, NoneIsNone
<1>3. \A id \in EmailID : id \notin Current(jobs) => queue'[id] = queue[id]
  BY DEF FailIMAPMove
<1>4. \A id \in EmailID : queue'[id] \in Move \cup {NoMove}
  BY <1>2, <1>3 DEF Shape, TypeOK
<1>5. queue' = [id \in EmailID |-> queue'[id]]
  BY DEF FailIMAPMove
<1> QED BY <1>1, <1>2, <1>3, <1>4, <1>5 DEF Shape, TypeOK

LEMMA SelectShape == ASSUME Shape, SelectSource PROVE Shape'
<1>0. /\ worker.pc = "select"
      /\ UNCHANGED <<server, next, cursor, rows, request, history>>
  BY DEF SelectSource
<1>1. PICK group \in SUBSET worker.todo :
          \/ /\ Becomes([worker EXCEPT !.pc = "move", !.group = group, !.left = group])
             /\ UNCHANGED <<queue, spent>>
          \/ /\ Fault("select")
             /\ FailIMAPMove(group)
             /\ Becomes(IF group = worker.todo THEN WorkerIdle
                        ELSE [worker EXCEPT !.todo = @ \ group])
  <2>1. PICK j \in worker.todo :
            LET group == {k \in worker.todo : k.source = j.source /\ k.target = j.target}
            IN  \/ /\ Becomes([worker EXCEPT !.pc = "move", !.group = group, !.left = group])
                   /\ UNCHANGED <<queue, spent>>
                \/ /\ Fault("select")
                   /\ FailIMAPMove(group)
                   /\ Becomes(IF group = worker.todo THEN WorkerIdle
                              ELSE [worker EXCEPT !.todo = @ \ group])
    BY DEF SelectSource
  <2>2. {k \in worker.todo : k.source = j.source /\ k.target = j.target} \in SUBSET worker.todo
    OBVIOUS
  <2> QED BY <2>1, <2>2
<1>2. worker \in WorkerState /\ worker.group = {} /\ worker.cur = {} /\ worker.left = {}
  BY <1>0 DEF Shape, JobsShape
<1>3. CASE /\ Becomes([worker EXCEPT !.pc = "move", !.group = group, !.left = group])
           /\ UNCHANGED <<queue, spent>>
  <2>1. /\ worker' \in WorkerState /\ worker'.todo = worker.todo /\ worker'.pc = "move"
        /\ worker'.group = group /\ worker'.left = group /\ worker'.cur = worker.cur
    BY <1>2, <1>3 DEF Becomes, WorkerState, Shape
  <2>2. JobsShape'
    BY <1>2, <1>3, <2>1, FewerJobs
  <2> QED BY <1>0, <1>3, <2>1, <2>2, WorkerShape DEF Shape, TypeOK
<1>4. CASE Fault("select") /\ FailIMAPMove(group) /\ worker' = WorkerIdle
  BY <1>0, <1>4, IdleJobs, WorkerIdleShape, FailType, FaultShape, WorkerShape DEF Shape, TypeOK
<1>5. CASE /\ Fault("select") /\ FailIMAPMove(group) /\ group # worker.todo
           /\ worker' = [worker EXCEPT !.todo = @ \ group]
  <2>1. /\ worker' \in WorkerState /\ worker'.todo = worker.todo \ group /\ worker'.pc = "select"
        /\ worker'.group = worker.group /\ worker'.left = worker.left /\ worker'.cur = worker.cur
    BY <1>0, <1>2, <1>5 DEF WorkerState, Shape
  <2>2. \A j \in worker'.todo : j.id \notin Current(group)
    BY <2>1, CurrentIds DEF Shape, JobsShape
  <2>3. \A j \in worker'.todo : queue'[j.id] = queue[j.id]
    BY <1>5, <2>1, <2>2, FailType DEF Shape, TypeOK, Job
  <2>4. JobsShape'
    BY <1>2, <2>1, <2>3, FewerJobs
  <2> QED BY <1>0, <1>5, <2>1, <2>4, FailType, FaultShape, WorkerShape DEF Shape, TypeOK
<1> QED BY <1>1, <1>3, <1>4, <1>5 DEF Becomes

LEMMA AfterGroupShape ==
    ASSUME Shape, worker.pc \in {"move", "complete"}
    PROVE  /\ AfterGroup \in WorkerState /\ AfterGroup.todo \subseteq worker.todo
           /\ AfterGroup.group = {} /\ AfterGroup.left = {} /\ AfterGroup.cur = {}
           /\ AfterGroup.pc \in {"idle", "select"} /\ (AfterGroup.pc = "idle" => AfterGroup.todo = {})
BY DEF Shape, AfterGroup, WorkerIdle, WorkerState

LEMMA AfterGroupJobs ==
    ASSUME Shape, worker.pc \in {"move", "complete"}, worker' = AfterGroup,
           \A j \in worker.todo : queue'[j.id] = queue[j.id] \/ queue'[j.id] = NoMove
    PROVE  JobsShape'
<1>1. CASE worker'.pc = "select"
  BY <1>1, AfterGroupShape, FewerJobs
<1>2. CASE worker'.pc = "idle"
  BY <1>2, AfterGroupShape DEF JobsShape, Shape
<1> QED BY <1>1, <1>2, AfterGroupShape

LEMMA ExecuteShape ==
    ASSUME Shape, NEW j \in Job, Execute(j) \/ UNCHANGED <<server, next>>
    PROVE  /\ server' \in [Folder -> [UID -> Msg \cup {NoMsg}]]
           /\ next' \in [Folder -> 1 .. MaxUID + 1]
           /\ \A f \in Folder : next[f] <= next'[f]
<1>1. /\ j.source \in Folder /\ j.target \in Folder /\ j.uid \in UID
      /\ server[j.source][j.uid] \in Msg \cup {NoMsg}
  BY DEF Job, Shape, TypeOK
<1>2. CASE UNCHANGED <<server, next>>
  BY <1>2 DEF Shape, TypeOK
<1>3. CASE Execute(j) /\ server[j.source][j.uid] # NoMsg
  <2> DEFINE m == server[j.source][j.uid]
  <2>1. /\ next[j.target] <= MaxUID
        /\ server' = [server EXCEPT ![j.source][j.uid] = NoMsg, ![j.target][next[j.target]] = m]
        /\ next' = [next EXCEPT ![j.target] = @ + 1]
    BY <1>3 DEF Execute
  <2>2. next[j.target] \in UID
    BY <1>1, <2>1, ConstantsAssumption DEF Shape, TypeOK, UID, ConstantsAssumption
  <2>3. next' \in [Folder -> 1 .. MaxUID + 1] /\ \A f \in Folder : next[f] <= next'[f]
    BY <1>1, <2>1, ConstantsAssumption DEF Shape, TypeOK, ConstantsAssumption
  <2>4. server' \in [Folder -> [UID -> Msg \cup {NoMsg}]]
    BY <1>1, <2>1, <2>2 DEF Shape, TypeOK
  <2> QED BY <2>3, <2>4
<1>4. CASE Execute(j) /\ server[j.source][j.uid] = NoMsg
  BY <1>2, <1>4 DEF Execute
<1> QED BY <1>2, <1>3, <1>4

LEMMA MoveOneShape == ASSUME Shape, MoveOne PROVE Shape'
<1>0. worker.pc = "move" /\ UNCHANGED <<cursor, rows, queue, request, history>>
  BY DEF MoveOne
<1>1. PICK j \in worker.left :
          \/ /\ Execute(j)
             /\ Becomes([worker EXCEPT !.pc = "complete", !.left = @ \ {j}, !.cur = {j}])
             /\ UNCHANGED spent
          \/ /\ Fault("move")
             /\ Execute(j) \/ UNCHANGED <<server, next>>
             /\ Becomes([worker EXCEPT !.left = worker.group]) \/ Becomes(AfterGroup)
  BY DEF MoveOne
<1>2. /\ worker \in WorkerState /\ j \in Job /\ j \in worker.group
      /\ worker.left \subseteq worker.group /\ worker.cur \subseteq worker.group
      /\ worker.group \subseteq worker.todo
  BY DEF Shape, JobsShape, WorkerState
<1>3. /\ server' \in [Folder -> [UID -> Msg \cup {NoMsg}]]
      /\ next' \in [Folder -> 1 .. MaxUID + 1]
      /\ \A f \in Folder : next[f] <= next'[f]
  BY <1>1, <1>2, ExecuteShape
<1>4. /\ cursor' \in [Folder -> 0 .. MaxUID] /\ \A f \in Folder : cursor'[f] < next'[f]
  BY <1>0, <1>3 DEF Shape, TypeOK
<1>5. spent' \in [{"moves", "remote", "faults"} -> Nat] /\ spent'.moves = spent.moves
  BY <1>1, FaultShape
<1>6. worker' \in WorkerState /\ JobsShape'
  <2>1. CASE worker' = [worker EXCEPT !.pc = "complete", !.left = @ \ {j}, !.cur = {j}]
    <3>1. /\ worker' \in WorkerState /\ worker'.pc = "complete" /\ worker'.todo = worker.todo
          /\ worker'.group = worker.group /\ worker'.left = worker.left \ {j} /\ worker'.cur = {j}
      BY <1>2, <2>1 DEF WorkerState
    <3> QED BY <1>0, <1>2, <3>1, FewerJobs
  <2>2. CASE worker' = [worker EXCEPT !.left = worker.group]
    <3>1. /\ worker' \in WorkerState /\ worker'.pc = "move" /\ worker'.todo = worker.todo
          /\ worker'.group = worker.group /\ worker'.left = worker.group /\ worker'.cur = worker.cur
      BY <1>0, <1>2, <2>2 DEF WorkerState
    <3> QED BY <1>0, <1>2, <3>1, FewerJobs
  <2>3. CASE worker' = AfterGroup
    BY <1>0, <2>3, AfterGroupShape, AfterGroupJobs
  <2> QED BY <1>1, <2>1, <2>2, <2>3 DEF Becomes
<1> QED BY <1>0, <1>3, <1>4, <1>5, <1>6, WorkerShape DEF Shape, TypeOK

LEMMA CompleteType ==
    ASSUME Shape, NEW jobs, CompleteIMAPMove(jobs) \/ UNCHANGED queue
    PROVE  /\ queue' \in [EmailID -> Move \cup {NoMove}]
           /\ \A id \in EmailID : queue'[id] = queue[id] \/ (queue'[id] = NoMove /\ id \in Current(jobs))
BY DEF Shape, TypeOK, CompleteIMAPMove

LEMMA CompleteShape == ASSUME Shape, Complete PROVE Shape'
<1>0. /\ worker.pc = "complete" /\ UNCHANGED <<server, next, cursor, rows, request, history>>
      /\ CompleteIMAPMove(worker.cur) \/ UNCHANGED queue
      /\ Fault("write") \/ UNCHANGED spent
      /\ worker' = IF worker.left = {} THEN AfterGroup ELSE [worker EXCEPT !.pc = "move", !.cur = {}]
  BY DEF Complete, Becomes
<1>1. /\ queue' \in [EmailID -> Move \cup {NoMove}]
      /\ \A j \in worker.todo : queue'[j.id] = queue[j.id] \/ queue'[j.id] = NoMove
  BY <1>0, CompleteType DEF Shape, TypeOK, Job
<1>2. worker' \in WorkerState /\ JobsShape'
  <2>1. CASE worker' = AfterGroup
    BY <1>0, <1>1, <2>1, AfterGroupShape, AfterGroupJobs
  <2>2. CASE worker' = [worker EXCEPT !.pc = "move", !.cur = {}]
    <3>1. worker \in WorkerState
      BY DEF Shape
    <3>2. /\ worker' \in WorkerState /\ worker'.pc = "move" /\ worker'.todo = worker.todo
          /\ worker'.group = worker.group /\ worker'.left = worker.left /\ worker'.cur = {}
      BY <2>2, <3>1 DEF WorkerState
    <3> QED BY <1>1, <3>2, FewerJobs DEF Shape, JobsShape
  <2> QED BY <1>0, <2>1, <2>2
<1> QED BY <1>0, <1>1, <1>2, FaultShape, WorkerShape DEF Shape, TypeOK

LEMMA SyncFolderShape ==
    ASSUME Shape, NEW f \in Folder, SyncFolder(f)
    PROVE  Shape'
<1>0. UNCHANGED <<server, next, queue, request, history, spent>>
  BY DEF SyncFolder
<1>1. rows' \in [EmailID -> Row \cup {NoRow}]
  <2>1. ASSUME NEW id \in EmailID, \E u \in Found(f) : id \in TargetRows(server[f][u], f)
        PROVE  [folder |-> f, uid |-> CHOOSE u \in Found(f) : id \in TargetRows(server[f][u], f)]
                  \in Row
    BY <2>1 DEF Found, Row
  <2> QED BY <2>1 DEF SyncFolder, Shape, TypeOK
<1>2. cursor' \in [Folder -> 0 .. MaxUID] /\ \A g \in Folder : cursor'[g] < next'[g]
  <2>1. LastUID(f) \in 0 .. MaxUID /\ LastUID(f) < next[f]
    BY ConstantsAssumption DEF LastUID, Shape, TypeOK, ConstantsAssumption
  <2> QED BY <1>0, <2>1 DEF SyncFolder, Shape, TypeOK
<1>3. Cardinality({u \in UID : server[f][u] # NoMsg}) \in Nat
  BY UIDsFinite, FS_Subset, FS_CardinalityType
<1>4. worker' = [WorkerIdle EXCEPT !.pc = "list", !.folder = f,
                                   !.count = Cardinality({u \in UID : server[f][u] # NoMsg})]
  BY DEF SyncFolder, Becomes
<1>5. /\ worker' \in WorkerState /\ worker'.pc = "list" /\ worker'.folder = f /\ worker'.todo = {}
      /\ worker'.group = {} /\ worker'.left = {} /\ worker'.cur = {}
  BY <1>3, <1>4 DEF WorkerIdle, WorkerState
<1>6. JobsShape'
  BY <1>5 DEF JobsShape
<1> QED BY <1>0, <1>1, <1>2, <1>5, <1>6, WorkerShape DEF Shape, TypeOK

LEMMA ReconcileListShape == ASSUME Shape, ReconcileList PROVE Shape'
<1> DEFINE local == {rows[id].uid : id \in RowsIn(worker.folder)}
<1>0. /\ worker.pc = "list"
      /\ UNCHANGED <<server, next, cursor, rows, queue, request, history, spent>>
  BY DEF ReconcileList
<1>1. /\ worker.folder \in Folder /\ worker.todo \in SUBSET Job /\ worker \in WorkerState
      /\ worker.cur \cup worker.left \subseteq worker.group /\ worker.group \subseteq worker.todo
  BY <1>0 DEF Shape, JobsShape, WorkerState
<1>2. CASE Becomes(WorkerIdle)
  BY <1>0, <1>2, WorkerIdleShape, IdleJobs, WorkerShape DEF Becomes, Shape, TypeOK
<1>3. CASE \E last \in [local -> RowsIn(worker.folder)] :
              Becomes([worker EXCEPT !.pc = "purge",
                          !.listed = {[id |-> last[u], uid |-> u] : u \in local}])
  <2>1. PICK last \in [local -> RowsIn(worker.folder)] :
            Becomes([worker EXCEPT !.pc = "purge",
                        !.listed = {[id |-> last[u], uid |-> u] : u \in local}])
    BY <1>3
  <2>2. local \subseteq UID /\ RowsIn(worker.folder) \subseteq EmailID
    BY GetEmailType DEF RowsIn, Exists, Row
  <2> HIDE DEF local
  <2>3. \A u \in local : [id |-> last[u], uid |-> u] \in [id : EmailID, uid : UID]
    BY <2>1, <2>2
  <2> DEFINE listed == {[id |-> last[u], uid |-> u] : u \in local}
  <2>4. listed \in SUBSET [id : EmailID, uid : UID]
    BY <2>3
  <2>5. worker' = [worker EXCEPT !.pc = "purge", !.listed = listed]
    BY <2>1 DEF Becomes
  <2> HIDE DEF listed
  <2>6. /\ worker' \in WorkerState /\ worker'.pc = "purge" /\ worker'.folder = worker.folder
        /\ worker'.todo = worker.todo /\ worker'.group = worker.group
        /\ worker'.left = worker.left /\ worker'.cur = worker.cur
    BY <1>1, <2>4, <2>5 DEF WorkerState
  <2>7. JobsShape'
    BY <1>0, <1>1, <2>6 DEF Shape, JobsShape, Current
  <2> QED BY <1>0, <2>6, <2>7, WorkerShape DEF Shape, TypeOK
<1> QED BY <1>2, <1>3 DEF ReconcileList

LEMMA ReconcilePurgeShape == ASSUME Shape, ReconcilePurge PROVE Shape'
<1>1. /\ worker' = WorkerIdle /\ rows' \in [EmailID -> Row \cup {NoRow}]
      /\ UNCHANGED <<server, next, cursor, queue, request, history, spent>>
  BY DeleteRowsType DEF ReconcilePurge, Becomes
<1> QED BY <1>1, WorkerIdleShape, IdleJobs, WorkerShape DEF Shape, TypeOK

LEMMA StopShape == ASSUME Shape, Stop PROVE Shape'
<1>1. /\ worker' = WorkerIdle /\ Fault("stop")
      /\ UNCHANGED <<server, next, cursor, rows, queue, request, history>>
  BY DEF Stop, Becomes
<1> QED BY <1>1, WorkerIdleShape, IdleJobs, FaultShape, WorkerShape DEF Shape, TypeOK

(* A message goes to a new UID, on the server.                             *)
Taken(f, u, t) ==
    /\ server[f][u] # NoMsg /\ next[t] \in UID
    /\ server' = [server EXCEPT ![f][u] = NoMsg, ![t][next[t]] = server[f][u]]
    /\ next' = [next EXCEPT ![t] = @ + 1]

(* Another client takes a message to a new UID of another folder, or away. *)
LEMMA RemoteCases ==
    ASSUME Shape, NEW f \in Folder, NEW u \in UID, Remote(f, u)
    PROVE  /\ server[f][u] \in Msg
           /\ \/ \E t \in Folder \ {f} : Taken(f, u, t)
              \/ server' = [server EXCEPT ![f][u] = NoMsg] /\ UNCHANGED next
           /\ wish' = [wish EXCEPT ![server[f][u]] = NoFolder]
           /\ Spend("remote", MaxRemote)
           /\ UNCHANGED <<cursor, rows, queue, request, worker, ordered, dropped>>
<1>1. server[f][u] \in Msg
  BY DEF Remote, Shape, TypeOK
<1>2. \A t \in Folder : next[t] <= MaxUID => next[t] \in UID
  BY ConstantsAssumption DEF Shape, TypeOK, UID, ConstantsAssumption
<1> QED BY <1>1, <1>2 DEF Remote, Taken

LEMMA RemoteShape ==
    ASSUME Shape, NEW f \in Folder, NEW u \in UID, Remote(f, u)
    PROVE  Shape'
<1>1. /\ server' \in [Folder -> [UID -> Msg \cup {NoMsg}]]
      /\ next' \in [Folder -> 1 .. MaxUID + 1]
      /\ \A g \in Folder : next[g] <= next'[g]
  <2>1. CASE \E t \in Folder \ {f} : Taken(f, u, t)
    <3>1. PICK t \in Folder \ {f} : Taken(f, u, t)
      BY <2>1
    <3>0. /\ t \in Folder /\ next[t] \in 1 .. MaxUID /\ next' = [next EXCEPT ![t] = @ + 1]
          /\ next \in [Folder -> 1 .. MaxUID + 1]
      BY <3>1 DEF Shape, TypeOK, UID, Taken
    <3>2. next' \in [Folder -> 1 .. MaxUID + 1] /\ \A g \in Folder : next[g] <= next'[g]
      BY <3>0, ConstantsAssumption DEF ConstantsAssumption
    <3>3. server' \in [Folder -> [UID -> Msg \cup {NoMsg}]]
      BY <3>1, RemoteCases DEF Shape, TypeOK, Taken
    <3> QED BY <3>2, <3>3
  <2>2. CASE server' = [server EXCEPT ![f][u] = NoMsg] /\ UNCHANGED next
    BY <2>2 DEF Shape, TypeOK
  <2> QED BY <2>1, <2>2, RemoteCases
<1>2. /\ wish' \in [Msg -> Folder \cup {NoFolder}]
      /\ UNCHANGED <<cursor, rows, queue, request, worker, ordered, dropped>>
  BY RemoteCases DEF Shape, TypeOK
<1>3. spent' \in [{"moves", "remote", "faults"} -> Nat] /\ spent'.moves = spent.moves
  BY RemoteCases, SpendShape, ConstantsAssumption DEF ConstantsAssumption
<1>4. TypeOK'
  BY <1>1, <1>2, <1>3 DEF Shape, TypeOK
<1>5. RequestShape' /\ JobsShape'
  BY <1>2, <1>3, JobsKept DEF Shape, RequestShape
<1> QED BY <1>2, <1>3, <1>4, <1>5 DEF Shape

LEMMA ShapeNext == Shape /\ [Next]_vars => Shape'
<1> SUFFICES ASSUME Shape, [Next]_vars PROVE Shape'
  OBVIOUS
<1>1. CASE UNCHANGED vars
  BY <1>1 DEF vars, history, Shape, TypeOK, RequestShape, JobsShape, Current
<1>2. CASE RequestStep
  BY <1>2, MoveEmailAndEnqueueShape, EraseShape, BulkShape, FilterShape, EnqueueShape
     DEF RequestStep
<1>3. CASE WorkerStep
  BY <1>3, SelectShape, MoveOneShape, CompleteShape, ReconcileListShape, ReconcilePurgeShape
     DEF WorkerStep
<1>4. CASE SyncMoves \/ (\E f \in Folder : SyncFolder(f)) \/ Stop
  BY <1>4, SyncMovesShape, SyncFolderShape, StopShape
<1>5. CASE \E f \in Folder, u \in UID : Remote(f, u)
  BY <1>5, RemoteShape
<1>6. CASE Requested
  BY <1>6, RequestedShape
<1> QED BY <1>1, <1>2, <1>3, <1>4, <1>5, <1>6 DEF Next, Requested

(* Whatever the hazards: the tables, the mailboxes, the request and the    *)
(* pass of the worker have their shape; cursors stay below UIDNEXT, jobs   *)
(* belong to the pass they were read for, and a pending move is not        *)
(* failed more often than MaxRetry (syncMoves, FailIMAPMove).              *)
THEOREM MoveTypes == Spec => []TypeOK
<1>1. Shape => TypeOK
  BY DEF Shape
<1> QED BY <1>1, ShapeInit, ShapeNext, PTL DEF Spec

------------------------------------------------------------------------------
(* Moves are the user's.                                                   *)

(* The user moves messages one after the other, and in bulk from INBOX.    *)
Calm == "again" \notin Hazards /\ "elsewhere" \notin Hazards

(* What no step takes back: a UID is never used again.                     *)
Later ==
    /\ \A f \in Folder : cursor[f] <= cursor'[f]
    /\ \A f \in Folder, u \in UID : u < next[f] => server'[f][u] \in {server[f][u], NoMsg}
    /\ \A m \in Msg : ordered[m] \subseteq ordered'[m]

LEMMA TakenValues ==
    ASSUME Shape, ServerOK, NEW f \in Folder, NEW u \in UID, NEW t \in Folder, Taken(f, u, t)
    PROVE  /\ server'[t][next[t]] = server[f][u] /\ server[f][u] # NoMsg
           /\ next[t] \in UID /\ next'[t] = next[t] + 1
           /\ ~(f = t /\ u = next[t])
           /\ server'[f][u] = NoMsg
           /\ \A g \in Folder, v \in UID :
                 ~(g = t /\ v = next[t]) /\ ~(g = f /\ v = u) => server'[g][v] = server[g][v]
           /\ \A g \in Folder : next[g] \in Nat /\ next'[g] \in Nat /\ next[g] <= next'[g]
<1>1. server \in [Folder -> [UID -> Msg \cup {NoMsg}]] /\ u < next[f] /\ ~(f = t /\ u = next[t])
  BY DEF Shape, TypeOK, ServerOK, UID, Taken
<1>2. /\ server'[t][next[t]] = server[f][u]
      /\ server'[f][u] = NoMsg
      /\ \A g \in Folder, v \in UID :
            ~(g = t /\ v = next[t]) /\ ~(g = f /\ v = u) => server'[g][v] = server[g][v]
  BY <1>1 DEF Taken
<1>3. \A g \in Folder : next[g] \in Nat
  BY DEF Shape, TypeOK
<1>4. next'[t] = next[t] + 1 /\ \A g \in Folder : g # t => next'[g] = next[g]
  BY DEF Taken, Shape, TypeOK
<1>5. \A g \in Folder : next'[g] \in Nat /\ next[g] <= next'[g]
  BY <1>3, <1>4
<1> QED BY <1>1, <1>2, <1>3, <1>4, <1>5 DEF Taken

LEMMA TakenOK ==
    ASSUME Shape, ServerOK, NEW f \in Folder, NEW u \in UID, NEW t \in Folder, Taken(f, u, t)
    PROVE  /\ ServerOK'
           /\ \A g \in Folder, v \in UID : v < next[g] => server'[g][v] \in {server[g][v], NoMsg}
<1> DEFINE n == next[t]
           m == server[f][u]
<1>1. /\ server'[t][n] = m /\ m # NoMsg
      /\ n \in UID /\ next'[t] = n + 1
      /\ ~(f = t /\ u = n)
      /\ server'[f][u] = NoMsg
      /\ \A g \in Folder, v \in UID :
            ~(g = t /\ v = n) /\ ~(g = f /\ v = u) => server'[g][v] = server[g][v]
      /\ \A g \in Folder : next[g] \in Nat /\ next'[g] \in Nat /\ next[g] <= next'[g]
  BY TakenValues
<1>2. UID \subseteq Nat
  BY DEF UID
<1>3. \A g \in Folder, v \in UID : v < next[g] => ~(g = t /\ v = n)
  BY <1>1, <1>2
<1> HIDE DEF n, m
<1>4. ASSUME NEW g \in Folder, NEW v \in UID, server'[g][v] # NoMsg
      PROVE  v < next'[g]
  <2>1. CASE g = t /\ v = n
    BY <1>1, <1>2, <2>1
  <2>2. CASE ~(g = t /\ v = n)
    <3>1. server[g][v] # NoMsg
      BY <1>1, <1>4, <2>2
    <3>2. v < next[g]
      BY <3>1 DEF ServerOK
    <3> QED BY <1>1, <1>2, <3>2
  <2> QED BY <2>1, <2>2
<1>5. ASSUME NEW x \in Folder, NEW y \in UID, server'[x][y] # NoMsg, ~(x = t /\ y = n)
      PROVE  server'[x][y] = server[x][y] /\ server'[x][y] # m
  <2>1. ~(x = f /\ y = u) /\ server'[x][y] = server[x][y]
    BY <1>1, <1>5
  <2> QED BY <1>5, <2>1 DEF ServerOK, m
<1>6. ASSUME NEW g \in Folder, NEW v \in UID, NEW h \in Folder, NEW w \in UID,
             server'[g][v] # NoMsg, server'[g][v] = server'[h][w]
      PROVE  g = h /\ v = w
  <2>1. CASE g = t /\ v = n
    <3>1. server'[h][w] = m /\ server'[h][w] # NoMsg
      BY <1>1, <1>6, <2>1
    <3> QED BY <1>5, <1>6, <2>1, <3>1
  <2>2. CASE h = t /\ w = n
    <3>1. server'[g][v] = m
      BY <1>1, <1>6, <2>2
    <3> QED BY <1>5, <1>6, <2>2, <3>1
  <2>3. CASE ~(g = t /\ v = n) /\ ~(h = t /\ w = n)
    <3>1. server'[g][v] = server[g][v] /\ server'[h][w] = server[h][w]
      BY <1>5, <1>6, <2>3
    <3>2. server[g][v] # NoMsg /\ server[g][v] = server[h][w]
      BY <1>6, <3>1
    <3> QED BY <3>2 DEF ServerOK
  <2> QED BY <2>1, <2>2, <2>3
<1>7. ASSUME NEW g \in Folder, NEW v \in UID, v < next[g]
      PROVE  server'[g][v] \in {server[g][v], NoMsg}
  BY <1>1, <1>3, <1>7
<1> QED BY <1>4, <1>6, <1>7 DEF ServerOK

LEMMA ExecuteTakes ==
    ASSUME Shape, NEW j \in Job, Execute(j), server[j.source][j.uid] # NoMsg
    PROVE  Taken(j.source, j.uid, j.target)
<1>1. next[j.target] <= MaxUID => next[j.target] \in UID
  BY ConstantsAssumption DEF Job, Shape, TypeOK, UID, ConstantsAssumption
<1> QED BY <1>1 DEF Execute, Taken

LEMMA ExecuteOK ==
    ASSUME Shape, ServerOK, NEW j \in Job, Execute(j) \/ UNCHANGED <<server, next>>
    PROVE  /\ ServerOK'
           /\ \A g \in Folder, v \in UID : v < next[g] => server'[g][v] \in {server[g][v], NoMsg}
<1>1. CASE UNCHANGED <<server, next>>
  BY <1>1 DEF ServerOK
<1>2. CASE Execute(j) /\ server[j.source][j.uid] # NoMsg
  <2>1. j.source \in Folder /\ j.target \in Folder /\ j.uid \in UID
    BY DEF Job
  <2>2. Taken(j.source, j.uid, j.target)
    BY <1>2, ExecuteTakes
  <2> QED BY <2>1, <2>2, TakenOK
<1>3. CASE Execute(j) /\ server[j.source][j.uid] = NoMsg
  BY <1>1, <1>3 DEF Execute
<1> QED BY <1>1, <1>2, <1>3

LEMMA RemoteOK ==
    ASSUME Shape, ServerOK, NEW f \in Folder, NEW u \in UID, Remote(f, u)
    PROVE  /\ ServerOK'
           /\ \A g \in Folder, v \in UID : v < next[g] => server'[g][v] \in {server[g][v], NoMsg}
<1>0. server[f][u] # NoMsg
  BY DEF Remote
<1>1. CASE \E t \in Folder \ {f} : Taken(f, u, t)
  BY <1>1, TakenOK
<1>2. CASE server' = [server EXCEPT ![f][u] = NoMsg] /\ UNCHANGED next
  <2>1. /\ server'[f][u] = NoMsg
        /\ \A g \in Folder, v \in UID : g # f \/ v # u => server'[g][v] = server[g][v]
    BY <1>2 DEF Shape, TypeOK
  <2>2. \A g \in Folder, v \in UID : server'[g][v] \in {server[g][v], NoMsg}
    BY <2>1
  <2>3. \A g \in Folder, v \in UID : server'[g][v] # NoMsg => server'[g][v] = server[g][v]
    BY <2>2
  <2> QED BY <1>2, <2>2, <2>3 DEF ServerOK
<1> QED BY <1>1, <1>2, RemoteCases

(* What a request has read, when it is made: rows that are right.          *)
LEMMA ReadCalm ==
    ASSUME Shape, Calm, Requested
    PROVE  /\ UNCHANGED <<server, next, cursor, rows, queue, worker, history>>
           /\ request'.pc # "enqueue"
           /\ \A s \in request'.todo :
                 /\ s.id \in EmailID /\ Exists(s.id) /\ Fresh(s.id)
                 /\ SourceName(s.folder) = rows[s.id].folder /\ s.uid = rows[s.id].uid
           /\ \A s, t \in request'.todo : s.id = t.id => s = t
           /\ request'.pc = "filter" => \A id \in RowsIn(request'.source) : Exists(id) /\ Fresh(id)
<1> DEFINE Good(pc, todo, source) ==
              /\ UNCHANGED <<server, next, cursor, rows, queue, worker, history>>
              /\ request'.pc = pc /\ request'.todo = todo /\ request'.source = source
              /\ \A s \in todo : Fresh(s.id)
<1>1. ASSUME NEW pc, NEW todo, NEW source, NEW target, Read(pc, todo, source, target)
      PROVE  Good(pc, todo, source)
  BY <1>1 DEF Read, CalmRows, Calm
<1>2. ASSUME NEW id \in EmailID, Exists(id)
      PROVE  /\ GetEmail(id).id = id /\ GetEmail(id).uid = rows[id].uid
             /\ SourceName(GetEmail(id).folder) = rows[id].folder
  BY <1>2, GetEmailType, ConstantsAssumption
     DEF GetEmail, Row, SourceName, ConstantsAssumption
<1>3. ASSUME NEW I \in SUBSET EmailID, \A id \in I : Exists(id) /\ CalmSource(rows[id].folder)
      PROVE  /\ \A s \in GetEmailsByIDs(I) :
                   /\ s.id \in I
                   /\ SourceName(s.folder) = rows[s.id].folder /\ s.uid = rows[s.id].uid
             /\ \A s, t \in GetEmailsByIDs(I) : s.id = t.id => s = t
             /\ \A id \in I : \E s \in GetEmailsByIDs(I) : s.id = id
  <2>1. ASSUME NEW s \in GetEmailsByIDs(I)
        PROVE  \E id \in I : s.id = id /\ s.folder = NoFolder /\ s.uid = rows[id].uid
                              /\ s = [id |-> id, folder |-> NoFolder, uid |-> rows[id].uid]
    BY DEF GetEmailsByIDs
  <2>2. \A id \in I : rows[id].folder = Inbox
    BY <1>3 DEF CalmSource, Calm
  <2>3. SourceName(NoFolder) = Inbox
    BY DEF SourceName
  <2>4. ASSUME NEW id \in I PROVE \E s \in GetEmailsByIDs(I) : s.id = id
    <3>1. [id |-> id, folder |-> NoFolder, uid |-> rows[id].uid] \in GetEmailsByIDs(I)
      BY DEF GetEmailsByIDs
    <3> QED BY <3>1
  <2>5. ASSUME NEW s \in GetEmailsByIDs(I)
        PROVE  s.id \in I /\ SourceName(s.folder) = rows[s.id].folder /\ s.uid = rows[s.id].uid
    BY <2>1, <2>2, <2>3
  <2>6. ASSUME NEW s \in GetEmailsByIDs(I), NEW t \in GetEmailsByIDs(I), s.id = t.id
        PROVE  s = t
    BY <2>1, <2>6
  <2> QED BY <2>4, <2>5, <2>6
<1>4. ASSUME NEW id \in EmailID, Exists(id), NEW pc \in {"move", "erase"},
             Good(pc, {GetEmail(id)}, NoFolder)
      PROVE  /\ \A s \in request'.todo :
                   /\ s.id \in EmailID /\ Exists(s.id) /\ Fresh(s.id)
                   /\ SourceName(s.folder) = rows[s.id].folder /\ s.uid = rows[s.id].uid
             /\ \A s, t \in request'.todo : s.id = t.id => s = t
  BY <1>2, <1>4
<1>5. ASSUME NEW I \in SUBSET EmailID, \A id \in I : Exists(id) /\ CalmSource(rows[id].folder),
             NEW pc, NEW source, Good(pc, GetEmailsByIDs(I), source)
      PROVE  /\ \A s \in request'.todo :
                   /\ s.id \in EmailID /\ Exists(s.id) /\ Fresh(s.id)
                   /\ SourceName(s.folder) = rows[s.id].folder /\ s.uid = rows[s.id].uid
             /\ \A s, t \in request'.todo : s.id = t.id => s = t
             /\ \A id \in I : \E s \in request'.todo : s.id = id
  BY <1>3, <1>5
<1>6. ASSUME NEW f \in Folder, CalmSource(f)
      PROVE  RowsIn(f) \in SUBSET EmailID /\ \A id \in RowsIn(f) : Exists(id) /\ CalmSource(rows[id].folder)
  BY <1>6 DEF RowsIn, Exists
<1>7. CASE \E id \in EmailID, f \in Folder : MoveEmail(id, f)
  <2>1. PICK id \in EmailID, f \in Folder : MoveEmail(id, f)
    BY <1>7
  <2>2. Exists(id) /\ Good("move", {GetEmail(id)}, NoFolder)
    BY <1>1, <2>1 DEF MoveEmail
  <2> QED BY <1>4, <2>2
<1>8. CASE \E id \in EmailID : DeleteEmail(id) \/ RestoreFromTrash(id)
  <2>1. PICK id \in EmailID : DeleteEmail(id) \/ RestoreFromTrash(id)
    BY <1>8
  <2>2. PICK pc \in {"move", "erase"} : Exists(id) /\ Good(pc, {GetEmail(id)}, NoFolder)
    BY <1>1, <2>1 DEF DeleteEmail, RestoreFromTrash
  <2> QED BY <1>4, <2>2
<1>9. CASE \/ \E I \in SUBSET EmailID \ {{}}, f \in Folder : BulkAction("bulk", I, f)
           \/ \E I \in SUBSET EmailID \ {{}} : BulkAction("bulkdelete", I, Trash)
  <2>1. PICK pc \in {"bulk", "bulkdelete"}, I \in SUBSET EmailID, f \in Folder \cup {Trash} :
            BulkAction(pc, I, f)
    BY <1>9
  <2>2. /\ \A id \in I : Exists(id) /\ CalmSource(rows[id].folder)
        /\ Good(pc, GetEmailsByIDs(I), NoFolder)
    BY <1>1, <2>1 DEF BulkAction
  <2> QED BY <1>5, <2>2
<1>10. CASE \E f, t \in Folder : BulkActionByFilter(f, t)
  <2>1. PICK f \in Folder, target \in Folder : BulkActionByFilter(f, target)
    BY <1>10
  <2>2. PICK I \in GetEmailIDsByFilter(f) : Good("filter", GetEmailsByIDs(I), f)
    BY <1>1, <2>1 DEF BulkActionByFilter
  <2>3. CalmSource(f) /\ \A id \in RowsIn(f) : Exists(id) /\ Fresh(id)
    BY <2>1, <1>6 DEF BulkActionByFilter, CalmRows, Calm
  <2>4. I \in SUBSET EmailID /\ \A id \in I : Exists(id) /\ CalmSource(rows[id].folder)
    BY <1>6, <2>3 DEF GetEmailIDsByFilter
  <2>5. request'.source = f /\ request'.pc = "filter"
    BY <2>2
  <2> HIDE DEF Good
  <2>6. /\ \A s \in request'.todo :
              /\ s.id \in EmailID /\ Exists(s.id) /\ Fresh(s.id)
              /\ SourceName(s.folder) = rows[s.id].folder /\ s.uid = rows[s.id].uid
        /\ \A s, t \in request'.todo : s.id = t.id => s = t
    BY <1>5, <2>2, <2>4
  <2>7. UNCHANGED <<server, next, cursor, rows, queue, worker, history>>
    BY <2>2 DEF Good
  <2> QED BY <2>3, <2>5, <2>6, <2>7
<1> QED BY <1>7, <1>8, <1>9, <1>10 DEF Requested

(* What no step takes back.                                                *)
LEMMA ServerStep ==
    ASSUME Shape, ServerOK, [Next]_vars
    PROVE  /\ ServerOK'
           /\ \A f \in Folder, u \in UID : u < next[f] => server'[f][u] \in {server[f][u], NoMsg}
<1>1. CASE UNCHANGED <<server, next>>
  BY <1>1 DEF ServerOK
<1>2. CASE MoveOne
  <2>1. PICK j \in worker.left : Execute(j) \/ UNCHANGED <<server, next>>
    BY <1>2 DEF MoveOne
  <2>2. j \in Job
    BY DEF Shape, WorkerState
  <2> QED BY <2>1, <2>2, ExecuteOK
<1>3. CASE \E f \in Folder, u \in UID : Remote(f, u)
  BY <1>3, RemoteOK
<1>4. CASE RequestStep
  BY <1>1, <1>4 DEF RequestStep, MoveEmailAndEnqueueIMAP, Erase, BulkMoveAndEnqueue,
                    BulkMoveByFilter, EnqueueIMAPMovesFromEmails
<1>5. CASE SelectSource \/ Complete \/ ReconcileList \/ ReconcilePurge
  BY <1>1, <1>5 DEF SelectSource, Complete, ReconcileList, ReconcilePurge
<1>6. CASE SyncMoves \/ (\E f \in Folder : SyncFolder(f)) \/ Stop
  BY <1>1, <1>6 DEF SyncMoves, SyncFolder, Stop
<1>7. CASE Requested
  BY <1>1, <1>7 DEF Requested, MoveEmail, DeleteEmail, RestoreFromTrash, BulkAction,
                    BulkActionByFilter, Read
<1>8. CASE UNCHANGED vars
  BY <1>1, <1>8 DEF vars
<1> QED BY <1>2, <1>3, <1>4, <1>5, <1>6, <1>7, <1>8 DEF Next, WorkerStep, Requested

LEMMA CursorStep == ASSUME Shape, [Next]_vars PROVE \A f \in Folder : cursor[f] <= cursor'[f]
<1>0. \A f \in Folder : cursor[f] \in Nat /\ next[f] \in Nat /\ cursor[f] < next[f]
  BY DEF Shape, TypeOK
<1>1. CASE UNCHANGED cursor
  BY <1>0, <1>1
<1>2. CASE \E f \in Folder : SyncFolder(f)
  <2>1. PICK f \in Folder : cursor' = [cursor EXCEPT ![f] = next[f] - 1]
    BY <1>2 DEF SyncFolder, LastUID
  <2>2. cursor'[f] = next[f] - 1 /\ \A g \in Folder : g # f => cursor'[g] = cursor[g]
    BY <2>1 DEF Shape, TypeOK
  <2> QED BY <1>0, <2>2
<1>3. CASE RequestStep
  BY <1>1, <1>3 DEF RequestStep, MoveEmailAndEnqueueIMAP, Erase, BulkMoveAndEnqueue,
                    BulkMoveByFilter, EnqueueIMAPMovesFromEmails
<1>4. CASE WorkerStep \/ SyncMoves \/ Stop
  BY <1>1, <1>4 DEF WorkerStep, SelectSource, MoveOne, Complete, ReconcileList, ReconcilePurge,
                    SyncMoves, Stop
<1>5. CASE Requested
  BY <1>1, <1>5 DEF Requested, MoveEmail, DeleteEmail, RestoreFromTrash, BulkAction,
                    BulkActionByFilter, Read
<1>6. CASE (\E f \in Folder, u \in UID : Remote(f, u)) \/ UNCHANGED vars
  BY <1>1, <1>6 DEF Remote, vars
<1> QED BY <1>2, <1>3, <1>4, <1>5, <1>6 DEF Next, Requested

LEMMA OrderedStep ==
    ASSUME Shape, [Next]_vars
    PROVE  \A m \in Msg : ordered[m] \subseteq ordered'[m]
<1>1. CASE UNCHANGED ordered
  BY <1>1
<1>2. ASSUME NEW S, NEW target, Ordered(S, target)
      PROVE  \A m \in Msg : ordered[m] \subseteq ordered'[m]
  BY <1>2 DEF Ordered
<1>3. CASE RequestStep
  BY <1>1, <1>2, <1>3 DEF RequestStep, MoveEmailAndEnqueueIMAP, Erase, BulkMoveAndEnqueue,
                          BulkMoveByFilter, EnqueueIMAPMovesFromEmails, Order, history
<1>4. CASE WorkerStep \/ SyncMoves \/ Stop \/ (\E f \in Folder : SyncFolder(f))
  BY <1>1, <1>4 DEF WorkerStep, SelectSource, MoveOne, Complete, ReconcileList, ReconcilePurge,
                    SyncMoves, Stop, SyncFolder, history
<1>5. CASE Requested
  BY <1>1, <1>5 DEF Requested, MoveEmail, DeleteEmail, RestoreFromTrash, BulkAction,
                    BulkActionByFilter, Read, history
<1>6. CASE (\E f \in Folder, u \in UID : Remote(f, u)) \/ UNCHANGED vars
  BY <1>1, <1>6 DEF Remote, vars, history
<1> QED BY <1>3, <1>4, <1>5, <1>6 DEF Next, Requested

LEMMA LaterStep == ASSUME Shape, ServerOK, [Next]_vars PROVE Later /\ ServerOK'
BY ServerStep, CursorStep, OrderedStep DEF Later

(* What a UID names after a step.                                          *)
NamesNext(f, u, m) ==
    /\ f \in Folder /\ u \in UID /\ u <= cursor'[f]
    /\ server'[f][u] \in {m, NoMsg}

LEMMA NamesLater ==
    ASSUME Shape, Shape', Later, NEW f, NEW u, NEW m, Names(f, u, m)
    PROVE  NamesNext(f, u, m)
<1>1. /\ f \in Folder /\ u \in UID /\ u <= cursor[f] /\ cursor[f] <= cursor'[f] /\ cursor[f] < next[f]
      /\ server[f][u] \in {m, NoMsg}
      /\ u < next[f] => server'[f][u] \in {server[f][u], NoMsg}
  BY DEF Names, Later, Shape, TypeOK
<1>2. u \in Nat /\ cursor[f] \in Nat /\ next[f] \in Nat /\ cursor'[f] \in Nat
  BY <1>1 DEF UID, Shape, TypeOK
<1>3. u < next[f] /\ u <= cursor'[f]
  BY <1>1, <1>2
<1> QED BY <1>1, <1>3 DEF NamesNext

(* Names stay right; what a step adds must be right.                       *)
LEMMA NamedStep ==
    ASSUME OrderedInv, Shape', Later, ServerOK',
           \A id \in EmailID : queue'[id] # NoMove =>
               \/ /\ queue[id] # NoMove /\ queue'[id].source = queue[id].source
                  /\ queue'[id].target = queue[id].target /\ queue'[id].uid = queue[id].uid
               \/ /\ Names(queue'[id].source, queue'[id].uid, MsgOf(id))
                  /\ queue'[id].target \in ordered'[MsgOf(id)],
           \A j \in worker'.todo :
               \/ j \in worker.todo
               \/ /\ j \in Job /\ queue[j.id] # NoMove /\ j.source = queue[j.id].source
                  /\ j.target = queue[j.id].target /\ j.uid = queue[j.id].uid,
           \A s \in request'.todo : request'.pc \in Busy =>
               /\ Names(SourceName(s.folder), s.uid, MsgOf(s.id))
               /\ request'.pc = "enqueue" => request'.target \in ordered'[MsgOf(s.id)]
    PROVE  OrderedInv'
<1>0. Shape /\ \A id \in EmailID : MsgOf(id) \in Msg
  BY EmailIDs DEF OrderedInv
<1>1. QueueNamed'
  <2>1. ASSUME NEW id \in EmailID, queue'[id] # NoMove
        PROVE  /\ NamesNext(queue'[id].source, queue'[id].uid, MsgOf(id))
               /\ queue'[id].target \in ordered'[MsgOf(id)]
    <3>1. CASE /\ Names(queue'[id].source, queue'[id].uid, MsgOf(id))
               /\ queue'[id].target \in ordered'[MsgOf(id)]
      BY <1>0, <3>1, NamesLater
    <3>2. CASE /\ queue[id] # NoMove /\ queue'[id].source = queue[id].source
               /\ queue'[id].target = queue[id].target /\ queue'[id].uid = queue[id].uid
      <4>1. /\ Names(queue[id].source, queue[id].uid, MsgOf(id))
            /\ queue[id].target \in ordered[MsgOf(id)] /\ MsgOf(id) \in Msg
        BY <1>0, <2>1, <3>2 DEF OrderedInv, QueueNamed
      <4>2. queue'[id].target \in ordered'[MsgOf(id)]
        BY <3>2, <4>1 DEF Later
      <4> QED BY <1>0, <3>2, <4>1, <4>2, NamesLater
    <3> QED BY <2>1, <3>1, <3>2
  <2> QED BY <2>1 DEF QueueNamed, Names, NamesNext, MsgOf
<1>2. JobsNamed'
  <2>1. ASSUME NEW j \in worker'.todo
        PROVE  /\ NamesNext(j.source, j.uid, MsgOf(j.id))
               /\ j.target \in ordered'[MsgOf(j.id)]
    <3>1. j.id \in EmailID
      BY DEF Shape, TypeOK, Job
    <3>2. Names(j.source, j.uid, MsgOf(j.id)) /\ j.target \in ordered[MsgOf(j.id)]
      BY <3>1 DEF OrderedInv, QueueNamed, JobsNamed
    <3> QED BY <1>0, <3>1, <3>2, NamesLater DEF Later
  <2> QED BY <2>1 DEF JobsNamed, Names, NamesNext, MsgOf
<1>3. RequestNamed'
  <2>1. ASSUME NEW s \in request'.todo, request'.pc \in Busy
        PROVE  NamesNext(SourceName(s.folder), s.uid, MsgOf(s.id))
    <3>1. Names(SourceName(s.folder), s.uid, MsgOf(s.id))
      BY <2>1
    <3> QED BY <1>0, <3>1, NamesLater
  <2> QED BY <2>1 DEF RequestNamed, Names, NamesNext, MsgOf, SourceName
<1> QED BY <1>1, <1>2, <1>3 DEF OrderedInv

(* What the steps of a request and of the worker do to moves and rows.     *)
LEMMA MoveResult ==
    ASSUME Shape, MoveEmailAndEnqueueIMAP
    PROVE  /\ request.pc = "move" /\ request' = RequestIdle
           /\ UNCHANGED <<server, next, cursor, worker>> /\ spent'.moves = spent.moves
           /\ \/ UNCHANGED <<rows, queue, history>>
              \/ \E s \in request.todo, id \in EmailID :
                    /\ Exists(s.id) /\ MsgOf(id) = MsgOf(s.id) /\ Order({s}, request.target)
                    /\ queue'[id] # NoMove /\ queue'[id].source = SourceName(s.folder)
                    /\ queue'[id].target = request.target /\ queue'[id].uid = s.uid
                    /\ queue'[id].key = spent.moves
                    /\ \A d \in EmailID \ {id} : queue'[d] = queue[d]
                    /\ \A d \in EmailID \ {s.id} : rows'[d] = rows[d]
                    /\ \/ /\ id = s.id /\ Duplicate(s.id, request.target) = {}
                          /\ rows'[s.id] = [folder |-> request.target, uid |-> rows[s.id].uid]
                       \/ rows'[s.id] = NoRow
<1>0. /\ request.pc = "move" /\ request.target \in Folder /\ request' = RequestIdle
      /\ UNCHANGED <<server, next, cursor, worker>> /\ spent'.moves = spent.moves
  BY FaultShape DEF MoveEmailAndEnqueueIMAP, Shape, RequestShape, Answer
<1>1. PICK s \in request.todo :
          \/ /\ Exists(s.id)
             /\ MoveEmailFolderInTx(s.id, request.target)
             /\ \E id \in IF Duplicate(s.id, request.target) = {} THEN {s.id}
                          ELSE Duplicate(s.id, request.target) :
                   queue' = EnqueueIMAPMove([s EXCEPT !.id = id], request.target)
             /\ Order({s}, request.target)
          \/ UNCHANGED <<rows, queue, history>>
  BY DEF MoveEmailAndEnqueueIMAP
<1>2. s \in Snapshot /\ s.id \in EmailID
  BY DEF Shape, TypeOK, Snapshot
<1>3. CASE /\ Exists(s.id)
           /\ MoveEmailFolderInTx(s.id, request.target)
           /\ \E id \in IF Duplicate(s.id, request.target) = {} THEN {s.id}
                        ELSE Duplicate(s.id, request.target) :
                 queue' = EnqueueIMAPMove([s EXCEPT !.id = id], request.target)
           /\ Order({s}, request.target)
  <2>1. PICK id \in EmailID :
            /\ MsgOf(id) = MsgOf(s.id) /\ (Duplicate(s.id, request.target) = {} => id = s.id)
            /\ queue' = EnqueueIMAPMove([s EXCEPT !.id = id], request.target)
    BY <1>2, <1>3 DEF Duplicate, RowsIn
  <2> DEFINE t == [s EXCEPT !.id = id]
  <2>2. t \in Snapshot /\ t.id = id /\ t.folder = s.folder /\ t.uid = s.uid
    BY <1>2 DEF Snapshot
  <2>3. s.folder \in Folder \cup {NoFolder} /\ s.uid \in UID
    BY <1>2 DEF Snapshot
  <2> HIDE DEF t
  <2>4. /\ queue'[id] = Pending(SourceName(s.folder), request.target, s.uid)
        /\ \A d \in EmailID \ {id} : queue'[d] = queue[d]
    BY <1>0, <2>1, <2>2, EnqueueType DEF t
  <2>5. /\ queue'[id] # NoMove /\ queue'[id].source = SourceName(s.folder)
        /\ queue'[id].target = request.target /\ queue'[id].uid = s.uid
        /\ queue'[id].key = spent.moves
    BY <1>0, <2>3, <2>4, PendingType, NoneIsNone
  <2>6. /\ \A d \in EmailID \ {s.id} : rows'[d] = rows[d]
        /\ rows'[s.id] = IF Duplicate(s.id, request.target) = {}
                         THEN [folder |-> request.target, uid |-> rows[s.id].uid] ELSE NoRow
    BY <1>0, <1>2, <1>3, MoveRowType
  <2> QED BY <1>0, <1>3, <2>1, <2>4, <2>5, <2>6
<1> QED BY <1>0, <1>1, <1>3

LEMMA SelectResult ==
    ASSUME Shape, SelectSource
    PROVE  /\ UNCHANGED <<server, next, cursor, rows, request, history>>
           /\ worker'.todo \subseteq worker.todo /\ worker'.pc # "complete"
           /\ \A id \in EmailID :
                 /\ queue'[id] = NoMove <=> queue[id] = NoMove
                 /\ queue[id] # NoMove => Same(queue'[id], queue[id]) /\ queue'[id].key = queue[id].key
<1>0. /\ worker.pc = "select" /\ worker \in WorkerState
      /\ UNCHANGED <<server, next, cursor, rows, request, history>>
  BY DEF SelectSource, Shape
<1>1. PICK group \in SUBSET worker.todo :
          \/ /\ worker' = [worker EXCEPT !.pc = "move", !.group = group, !.left = group]
             /\ UNCHANGED queue
          \/ /\ FailIMAPMove(group)
             /\ worker' \in {WorkerIdle, [worker EXCEPT !.todo = @ \ group]}
  <2>1. PICK j \in worker.todo :
            LET group == {k \in worker.todo : k.source = j.source /\ k.target = j.target}
            IN  \/ /\ Becomes([worker EXCEPT !.pc = "move", !.group = group, !.left = group])
                   /\ UNCHANGED <<queue, spent>>
                \/ /\ Fault("select")
                   /\ FailIMAPMove(group)
                   /\ Becomes(IF group = worker.todo THEN WorkerIdle
                              ELSE [worker EXCEPT !.todo = @ \ group])
    BY DEF SelectSource
  <2>2. {k \in worker.todo : k.source = j.source /\ k.target = j.target} \in SUBSET worker.todo
    OBVIOUS
  <2> QED BY <2>1, <2>2 DEF Becomes
<1>2. worker'.todo \subseteq worker.todo /\ worker'.pc # "complete"
  BY <1>0, <1>1, WorkerIdleShape DEF WorkerState
<1>3. \A id \in EmailID :
         /\ queue'[id] = NoMove <=> queue[id] = NoMove
         /\ queue[id] # NoMove => Same(queue'[id], queue[id]) /\ queue'[id].key = queue[id].key
  BY <1>1, FailType DEF Same
<1> QED BY <1>0, <1>2, <1>3

LEMMA MoveOneResult ==
    ASSUME Shape, MoveOne
    PROVE  /\ UNCHANGED <<cursor, rows, queue, request, history>>
           /\ worker'.todo \subseteq worker.todo
           /\ \E j \in worker.todo :
                 /\ Execute(j) \/ UNCHANGED <<server, next>>
                 /\ worker'.pc = "complete" => Execute(j) /\ worker'.cur = {j}
<1>0. /\ worker.pc = "move" /\ worker \in WorkerState
      /\ worker.left \subseteq worker.todo
      /\ UNCHANGED <<cursor, rows, queue, request, history>>
  BY DEF MoveOne, Shape, JobsShape
<1>1. PICK j \in worker.left :
          \/ /\ Execute(j)
             /\ worker' = [worker EXCEPT !.pc = "complete", !.left = @ \ {j}, !.cur = {j}]
          \/ /\ Execute(j) \/ UNCHANGED <<server, next>>
             /\ worker' = [worker EXCEPT !.left = worker.group] \/ worker' = AfterGroup
  BY DEF MoveOne, Becomes
<1>2. /\ worker'.todo \subseteq worker.todo
      /\ worker'.pc = "complete" =>
            worker' = [worker EXCEPT !.pc = "complete", !.left = @ \ {j}, !.cur = {j}]
  BY <1>0, <1>1, AfterGroupShape DEF WorkerState
<1>3. worker'.pc = "complete" => Execute(j) /\ worker'.cur = {j}
  <2>1. CASE worker' = [worker EXCEPT !.left = worker.group] \/ worker' = AfterGroup
    BY <1>0, <2>1, AfterGroupShape DEF WorkerState
  <2>2. CASE /\ Execute(j)
             /\ worker' = [worker EXCEPT !.pc = "complete", !.left = @ \ {j}, !.cur = {j}]
    <3>1. worker'.cur = {j}
      BY <1>0, <2>2 DEF WorkerState
    <3> QED BY <2>2, <3>1
  <2> QED BY <1>1, <2>1, <2>2
<1> QED BY <1>0, <1>1, <1>2, <1>3

LEMMA CompleteResult ==
    ASSUME Shape, Complete
    PROVE  /\ UNCHANGED <<server, next, cursor, rows, request, history>>
           /\ worker.pc = "complete"
           /\ worker'.todo \subseteq worker.todo /\ worker'.pc # "complete"
           /\ \A id \in EmailID :
                 queue'[id] = queue[id] \/ (queue'[id] = NoMove /\ id \in Current(worker.cur))
<1>0. /\ worker.pc = "complete" /\ worker \in WorkerState
      /\ UNCHANGED <<server, next, cursor, rows, request, history>>
      /\ CompleteIMAPMove(worker.cur) \/ UNCHANGED queue
      /\ worker' = IF worker.left = {} THEN AfterGroup ELSE [worker EXCEPT !.pc = "move", !.cur = {}]
  BY DEF Complete, Becomes, Shape
<1>1. worker'.todo \subseteq worker.todo /\ worker'.pc # "complete"
  BY <1>0, AfterGroupShape DEF WorkerState
<1> QED BY <1>0, <1>1, CompleteType

LEMMA BulkResult ==
    ASSUME Shape, BulkMoveAndEnqueue
    PROVE  /\ request.pc \in {"bulk", "bulkdelete"} /\ request' = RequestIdle
           /\ UNCHANGED <<server, next, cursor, worker, spent>>
           /\ \/ UNCHANGED <<rows, queue, history>>
              \/ /\ ~Collides(There, request.target) /\ Order(Moved, request.target)
                 /\ \A id \in EmailID : \A s \in Moved : s.id = id =>
                       \E t \in Moved : /\ t.id = id /\ queue'[id] # NoMove
                                        /\ queue'[id].source = SourceName(t.folder)
                                        /\ queue'[id].target = request.target
                                        /\ queue'[id].uid = t.uid
                                        /\ queue'[id].key = spent.moves
                 /\ \A id \in EmailID : (\A s \in Moved : s.id # id) => queue'[id] = queue[id]
                 /\ \A id \in There :
                       \/ rows'[id] = [folder |-> request.target, uid |-> rows[id].uid]
                       \/ rows'[id] = NoRow
                 /\ \A id \in EmailID \ There : rows'[id] \in {rows[id], NoRow}
<1>0. /\ request.pc \in {"bulk", "bulkdelete"} /\ request' = RequestIdle
      /\ request.pc # "idle" /\ request.target \in Folder /\ Moved \in SUBSET request.todo
      /\ UNCHANGED <<server, next, cursor, worker, spent>>
  BY BulkCases DEF Shape, RequestShape, Answer, Moved
<1>1. CASE UNCHANGED <<rows, queue, history>>
  BY <1>0, <1>1
<1>2. CASE /\ ~Collides(There, request.target)
           /\ rows' = [id \in EmailID |-> IF \E s \in Trashed : s.id = id THEN NoRow
                                          ELSE MovedTo(There, request.target)[id]]
           /\ queue' = [id \in EmailID |->
                          IF \E s \in Moved : s.id = id
                          THEN LET s == CHOOSE s \in Moved : s.id = id
                               IN  Pending(SourceName(s.folder), request.target, s.uid)
                          ELSE queue[id]]
           /\ Order(Moved, request.target)
  <2>1. ASSUME NEW id \in EmailID, \E s \in Moved : s.id = id
        PROVE  \E t \in Moved : /\ t.id = id /\ queue'[id] # NoMove
                                /\ queue'[id].source = SourceName(t.folder)
                                /\ queue'[id].target = request.target
                                /\ queue'[id].uid = t.uid
                                /\ queue'[id].key = spent.moves
    <3> DEFINE s == CHOOSE s \in Moved : s.id = id
    <3>1. s \in Moved /\ s.id = id
      BY <2>1
    <3>2. queue'[id] = Pending(SourceName(s.folder), request.target, s.uid)
      BY <1>2, <2>1
    <3>3. s.folder \in Folder \cup {NoFolder} /\ s.uid \in UID
      BY <1>0, <3>1 DEF Shape, TypeOK, Snapshot
    <3> HIDE DEF s
    <3>4. /\ queue'[id] # NoMove /\ queue'[id].source = SourceName(s.folder)
          /\ queue'[id].target = request.target /\ queue'[id].uid = s.uid
          /\ queue'[id].key = spent.moves
      BY <1>0, <3>2, <3>3, PendingType, NoneIsNone
    <3> QED BY <3>1, <3>4
  <2>2. \A id \in EmailID : (\A s \in Moved : s.id # id) => queue'[id] = queue[id]
    BY <1>2
  <2>3. /\ \A id \in There : rows'[id] \in {[folder |-> request.target, uid |-> rows[id].uid], NoRow}
        /\ \A id \in EmailID \ There : rows'[id] \in {rows[id], NoRow}
    <3>1. /\ \A id \in There : MovedTo(There, request.target)[id]
                                 = [folder |-> request.target, uid |-> rows[id].uid]
          /\ \A id \in EmailID \ There : MovedTo(There, request.target)[id] = rows[id]
          /\ There \subseteq EmailID
      BY <1>0, ThereIds, MovedToType
    <3> QED BY <1>2, <3>1
  <2> QED BY <1>0, <1>2, <2>1, <2>2, <2>3
<1> QED BY <1>1, <1>2, BulkCases

LEMMA ServerInit == Init => ServerOK
<1> SUFFICES ASSUME Init PROVE ServerOK
  OBVIOUS
<1>1. PICK home \in [Msg -> Folder], num \in [Msg -> 1 .. Cardinality(Msg)] :
          server = [f \in Folder |-> [u \in UID |->
                      IF \E m \in Msg : home[m] = f /\ num[m] = u
                      THEN CHOOSE m \in Msg : home[m] = f /\ num[m] = u ELSE NoMsg]]
  BY DEF Init
<1>2. ASSUME NEW f \in Folder, NEW u \in UID, server[f][u] # NoMsg
      PROVE  server[f][u] \in Msg /\ home[server[f][u]] = f /\ num[server[f][u]] = u
  <2>1. server[f][u] = IF \E m \in Msg : home[m] = f /\ num[m] = u
                       THEN CHOOSE m \in Msg : home[m] = f /\ num[m] = u ELSE NoMsg
    BY <1>1
  <2>2. \E m \in Msg : home[m] = f /\ num[m] = u
    BY <1>2, <2>1
  <2> QED BY <2>1, <2>2
<1>3. ASSUME NEW f \in Folder, NEW u \in UID, server[f][u] # NoMsg
      PROVE  u < next[f]
  <2>1. u \in 1 .. Cardinality(Msg)
    BY <1>2, <1>3
  <2> QED BY <2>1, MsgCount DEF Init
<1>4. ASSUME NEW f \in Folder, NEW u \in UID, NEW g \in Folder, NEW v \in UID,
             server[f][u] # NoMsg, server[f][u] = server[g][v]
      PROVE  f = g /\ u = v
  BY <1>2, <1>4
<1> QED BY <1>3, <1>4 DEF ServerOK

LEMMA OrderedInit == Init => OrderedInv
BY ShapeInit, ServerInit, RequestIdleShape, WorkerIdleShape
   DEF Init, OrderedInv, QueueNamed, JobsNamed, RequestNamed

LEMMA SnapshotType ==
    Shape => \A s \in request.todo :
                /\ s \in Snapshot /\ s.id \in EmailID /\ MsgOf(s.id) \in Msg
                /\ s.uid \in UID /\ SourceName(s.folder) \in Folder
BY EmailIDs, SourceNameType DEF Shape, TypeOK, Snapshot

LEMMA OrderedRequest ==
    ASSUME OrderedInv, Shape', Later, ServerOK', RequestStep
    PROVE  OrderedInv'
<1>0. /\ Shape /\ RequestNamed /\ UNCHANGED worker
  BY DEF OrderedInv, RequestStep, MoveEmailAndEnqueueIMAP, Erase, BulkMoveAndEnqueue,
         BulkMoveByFilter, EnqueueIMAPMovesFromEmails
<1>1. CASE MoveEmailAndEnqueueIMAP
  <2>1. request.pc \in Busy /\ request'.todo = {}
    BY <1>0, <1>1, MoveResult, RequestIdleShape DEF Busy
  <2>2. CASE UNCHANGED queue
    BY <1>0, <2>1, <2>2, NamedStep
  <2>3. CASE \E s \in request.todo, id \in EmailID :
                /\ MsgOf(id) = MsgOf(s.id) /\ Order({s}, request.target)
                /\ queue'[id].source = SourceName(s.folder)
                /\ queue'[id].target = request.target /\ queue'[id].uid = s.uid
                /\ \A d \in EmailID \ {id} : queue'[d] = queue[d]
    <3>1. PICK s \in request.todo, id \in EmailID :
              /\ MsgOf(id) = MsgOf(s.id) /\ Order({s}, request.target)
              /\ queue'[id].source = SourceName(s.folder)
              /\ queue'[id].target = request.target /\ queue'[id].uid = s.uid
              /\ \A d \in EmailID \ {id} : queue'[d] = queue[d]
      BY <2>3
    <3>2. request.target \in ordered'[MsgOf(id)]
      BY <1>0, <3>1, SnapshotType DEF Order, Ordered
    <3>3. Names(queue'[id].source, queue'[id].uid, MsgOf(id))
      BY <1>0, <2>1, <3>1 DEF RequestNamed
    <3> QED BY <1>0, <2>1, <3>1, <3>2, <3>3, NamedStep
  <2> QED BY <1>0, <1>1, <2>2, <2>3, MoveResult
<1>2. CASE Erase
  BY <1>0, <1>2, NamedStep, RequestIdleShape DEF Erase, Answer
<1>3. CASE BulkMoveAndEnqueue
  <2>1. request.pc \in Busy /\ request'.todo = {} /\ Moved \subseteq request.todo
    BY <1>0, <1>3, BulkResult, RequestIdleShape DEF Busy, Moved
  <2>2. CASE UNCHANGED queue
    BY <1>0, <2>1, <2>2, NamedStep
  <2>3. CASE /\ Order(Moved, request.target)
             /\ \A id \in EmailID : \A s \in Moved : s.id = id =>
                   \E t \in Moved : /\ t.id = id /\ queue'[id].source = SourceName(t.folder)
                                    /\ queue'[id].target = request.target
                                    /\ queue'[id].uid = t.uid
             /\ \A id \in EmailID : (\A s \in Moved : s.id # id) => queue'[id] = queue[id]
    <3>1. ASSUME NEW id \in EmailID, NEW s \in Moved, s.id = id
          PROVE  /\ Names(queue'[id].source, queue'[id].uid, MsgOf(id))
                 /\ queue'[id].target \in ordered'[MsgOf(id)]
      <4>1. PICK t \in Moved : /\ t.id = id /\ queue'[id].source = SourceName(t.folder)
                               /\ queue'[id].target = request.target /\ queue'[id].uid = t.uid
        BY <2>3, <3>1
      <4>2. request.target \in ordered'[MsgOf(id)]
        BY <1>0, <2>1, <2>3, <4>1, SnapshotType DEF Order, Ordered
      <4> QED BY <1>0, <2>1, <4>1, <4>2 DEF RequestNamed
    <3> QED BY <1>0, <2>1, <2>3, <3>1, NamedStep
  <2> QED BY <1>0, <1>3, <2>2, <2>3, BulkResult
<1>4. CASE BulkMoveByFilter
  <2>1. /\ request.pc \in Busy /\ UNCHANGED queue
        /\ \/ request'.todo = {}
           \/ /\ request' = [request EXCEPT !.pc = "enqueue"]
              /\ Ordered(request.todo \cup {GetEmail(id) : id \in RowsIn(request.source)},
                         request.target)
    BY <1>4, RequestIdleShape DEF BulkMoveByFilter, Answer, Busy
  <2>2. CASE request'.todo = {}
    BY <1>0, <2>1, <2>2, NamedStep
  <2>3. CASE /\ request' = [request EXCEPT !.pc = "enqueue"]
             /\ Ordered(request.todo \cup {GetEmail(id) : id \in RowsIn(request.source)},
                        request.target)
    <3>1. request'.todo = request.todo /\ request'.target = request.target
      BY <1>0, <2>3 DEF Shape, RequestState
    <3>2. \A s \in request.todo : request.target \in ordered'[MsgOf(s.id)]
      BY <1>0, <2>3, SnapshotType DEF Order, Ordered
    <3> QED BY <1>0, <2>1, <3>1, <3>2, NamedStep DEF RequestNamed
  <2> QED BY <2>1, <2>2, <2>3
<1>5. CASE EnqueueIMAPMovesFromEmails
  <2>1. PICK s \in request.todo :
            /\ queue' = EnqueueIMAPMove(s, request.target) \/ UNCHANGED queue
            /\ IF request.todo = {s} THEN Answer
               ELSE request' = [request EXCEPT !.todo = @ \ {s}]
    BY <1>5 DEF EnqueueIMAPMovesFromEmails
  <2>2. request.pc = "enqueue" /\ request.pc \in Busy /\ UNCHANGED ordered
    BY <1>5 DEF EnqueueIMAPMovesFromEmails, Busy, history
  <2>3. request'.todo \subseteq request.todo /\ (request'.todo # {} => request'.target = request.target)
    BY <1>0, <2>1, RequestIdleShape DEF Answer, Shape, RequestState
  <2>4. s \in Snapshot /\ s.folder \in Folder \cup {NoFolder} /\ s.uid \in UID /\ request.target \in Folder
    BY <1>0, <2>2, SnapshotType DEF Snapshot, Shape, RequestShape
  <2>5. /\ Names(SourceName(s.folder), s.uid, MsgOf(s.id))
        /\ request.target \in ordered[MsgOf(s.id)]
    BY <1>0, <2>2 DEF RequestNamed
  <2>6. CASE queue' = EnqueueIMAPMove(s, request.target)
    <3>1. /\ queue'[s.id] = Pending(SourceName(s.folder), request.target, s.uid)
          /\ \A id \in EmailID : id # s.id => queue'[id] = queue[id]
      BY <1>0, <2>2, <2>4, <2>6, EnqueueType
    <3>2. /\ queue'[s.id].source = SourceName(s.folder) /\ queue'[s.id].uid = s.uid
          /\ queue'[s.id].target = request.target
      BY <1>0, <2>2, <2>4, <3>1, PendingType
    <3> QED BY <1>0, <2>2, <2>3, <2>5, <3>1, <3>2, NamedStep DEF RequestNamed
  <2>7. CASE UNCHANGED queue
    BY <1>0, <2>2, <2>3, <2>7, NamedStep DEF RequestNamed
  <2> QED BY <2>1, <2>6, <2>7
<1> QED BY <1>1, <1>2, <1>3, <1>4, <1>5 DEF RequestStep

LEMMA OrderedWorker ==
    ASSUME OrderedInv, Shape', Later, ServerOK',
           WorkerStep \/ SyncMoves \/ (\E f \in Folder : SyncFolder(f)) \/ Stop
    PROVE  OrderedInv'
<1>0. Shape /\ RequestNamed /\ UNCHANGED <<request, history>>
  BY DEF OrderedInv, WorkerStep, SelectSource, MoveOne, Complete, ReconcileList, ReconcilePurge,
         SyncMoves, SyncFolder, Stop
<1>1. \A s \in request'.todo : request'.pc \in Busy =>
          /\ Names(SourceName(s.folder), s.uid, MsgOf(s.id))
          /\ request'.pc = "enqueue" => request'.target \in ordered'[MsgOf(s.id)]
  BY <1>0 DEF RequestNamed, history
<1>2. CASE SelectSource
  BY <1>0, <1>1, <1>2, SelectResult, NamedStep DEF Same
<1>3. CASE MoveOne
  BY <1>0, <1>1, <1>3, MoveOneResult, NamedStep
<1>4. CASE Complete
  BY <1>0, <1>1, <1>4, CompleteResult, NamedStep
<1>5. CASE SyncMoves
  <2>1. UNCHANGED queue /\ worker'.todo = GetPendingIMAPMoves
    BY <1>5 DEF SyncMoves, Becomes, WorkerIdle
  <2> QED BY <1>0, <1>1, <2>1, PendingMoves, NamedStep
<1>6. CASE ReconcileList \/ ReconcilePurge \/ (\E f \in Folder : SyncFolder(f)) \/ Stop
  <2>1. UNCHANGED queue /\ worker'.todo \subseteq worker.todo
    <3>1. worker' = WorkerIdle => worker'.todo \subseteq worker.todo
      BY WorkerIdleShape
    <3>2. CASE ReconcilePurge \/ Stop
      BY <3>1, <3>2 DEF ReconcilePurge, Stop, Becomes
    <3>3. CASE \E f \in Folder : SyncFolder(f)
      BY <3>3 DEF SyncFolder, Becomes, WorkerIdle
    <3>4. CASE ReconcileList
      <4>1. \A l : [worker EXCEPT !.pc = "purge", !.listed = l].todo = worker.todo
        BY <1>0 DEF Shape, WorkerState
      <4> QED BY <3>1, <3>4, <4>1 DEF ReconcileList, Becomes
    <3> QED BY <1>6, <3>2, <3>3, <3>4
  <2> QED BY <1>0, <1>1, <2>1, NamedStep
<1> QED BY <1>2, <1>3, <1>4, <1>5, <1>6 DEF WorkerStep

LEMMA OrderedNext == ASSUME Calm PROVE OrderedInv /\ [Next]_vars => OrderedInv'
<1> SUFFICES ASSUME OrderedInv, [Next]_vars PROVE OrderedInv'
  OBVIOUS
<1>0. /\ Shape /\ ServerOK /\ RequestNamed /\ Shape' /\ Later /\ ServerOK'
  BY ShapeNext, LaterStep DEF OrderedInv
<1>1. CASE RequestStep
  BY <1>0, <1>1, OrderedRequest
<1>2. CASE WorkerStep \/ SyncMoves \/ (\E f \in Folder : SyncFolder(f)) \/ Stop
  BY <1>0, <1>2, OrderedWorker
<1>3. CASE (\E f \in Folder, u \in UID : Remote(f, u)) \/ UNCHANGED vars
  <2>1. UNCHANGED <<queue, worker, request, ordered>>
    BY <1>3 DEF Remote, vars, history
  <2> QED BY <1>0, <2>1, NamedStep DEF RequestNamed
<1>4. CASE Requested
  <2>1. /\ UNCHANGED <<queue, worker>> /\ request'.pc # "enqueue"
        /\ \A s \in request'.todo : /\ s.id \in EmailID /\ Exists(s.id) /\ Fresh(s.id)
                                    /\ SourceName(s.folder) = rows[s.id].folder
                                    /\ s.uid = rows[s.id].uid
    BY <1>0, <1>4, ReadCalm
  <2>2. \A s \in request'.todo : Names(SourceName(s.folder), s.uid, MsgOf(s.id))
    BY <1>0, <2>1, GetEmailType DEF Names, Fresh, Row
  <2> QED BY <1>0, <2>1, <2>2, NamedStep
<1> QED BY <1>1, <1>2, <1>3, <1>4 DEF Next, Requested

(* A job takes its own message, to where the user ordered it.              *)
LEMMA ExecuteOrdered ==
    ASSUME OrderedInv, NEW j \in worker.todo, Execute(j) \/ UNCHANGED <<server, next>>,
           NEW m \in Msg, NEW f \in Folder, ~IsOn(m, f), IsOn(m, f)'
    PROVE  f \in ordered[m]
<1>0. Shape /\ ServerOK /\ j \in Job
  BY DEF OrderedInv, Shape, TypeOK
<1>1. j.source \in Folder /\ j.target \in Folder /\ j.uid \in UID
  BY <1>0 DEF Job
<1>2. CASE Execute(j) /\ server[j.source][j.uid] # NoMsg
  <2>1. Taken(j.source, j.uid, j.target)
    BY <1>0, <1>2, ExecuteTakes
  <2>2. PICK u \in UID : server'[f][u] = m
    BY DEF IsOn
  <2>3. m # NoMsg /\ server[f][u] # m
    BY ConstantsAssumption DEF ConstantsAssumption, IsOn
  <2>4. f = j.target /\ m = server[j.source][j.uid]
    BY <1>0, <1>1, <2>1, <2>2, <2>3, TakenValues
  <2>5. m = MsgOf(j.id) /\ j.target \in ordered[MsgOf(j.id)]
    BY <2>3, <2>4 DEF OrderedInv, JobsNamed, Names
  <2> QED BY <2>4, <2>5
<1>3. CASE UNCHANGED <<server, next>>
  BY <1>3 DEF IsOn
<1> QED BY <1>2, <1>3 DEF Execute

LEMMA OrderedMove ==
    ASSUME OrderedInv, [Next]_vars, spent'.remote = spent.remote,
           NEW m \in Msg, NEW f \in Folder, ~IsOn(m, f), IsOn(m, f)'
    PROVE  f \in ordered[m]
<1>0. Shape
  BY DEF OrderedInv
<1>1. CASE MoveOne
  BY <1>0, <1>1, MoveOneResult, ExecuteOrdered
<1>2. CASE \E g \in Folder, u \in UID : Remote(g, u)
  BY <1>0, <1>2 DEF Remote, Spend, Shape, TypeOK
<1>3. CASE UNCHANGED server
  BY <1>3 DEF IsOn
<1>4. CASE RequestStep
  BY <1>3, <1>4 DEF RequestStep, MoveEmailAndEnqueueIMAP, Erase, BulkMoveAndEnqueue,
                    BulkMoveByFilter, EnqueueIMAPMovesFromEmails
<1>5. CASE SelectSource \/ Complete \/ ReconcileList \/ ReconcilePurge
  BY <1>3, <1>5 DEF SelectSource, Complete, ReconcileList, ReconcilePurge
<1>6. CASE SyncMoves \/ (\E g \in Folder : SyncFolder(g)) \/ Stop
  BY <1>3, <1>6 DEF SyncMoves, SyncFolder, Stop
<1>7. CASE Requested
  BY <1>3, <1>7 DEF Requested, MoveEmail, DeleteEmail, RestoreFromTrash, BulkAction,
                    BulkActionByFilter, Read
<1>8. CASE UNCHANGED vars
  BY <1>3, <1>8 DEF vars
<1> QED BY <1>1, <1>2, <1>4, <1>5, <1>6, <1>7, <1>8 DEF Next, WorkerStep, Requested

(* While the user moves messages one after the other and in bulk only from *)
(* INBOX, the worker brings a message only to folders the user moved it    *)
(* to, whatever other clients do, whatever fails and whenever it stops:    *)
(* what it sends MOVE for is the message the row was of (syncMoves).       *)
THEOREM MovesAreOrdered == ASSUME Calm PROVE Spec => OnlyOrderedMoves
<1>1. OrderedInv /\ [Next]_vars =>
         [spent'.remote = spent.remote =>
            \A m \in Msg, f \in Folder : ~IsOn(m, f) /\ IsOn(m, f)' => f \in ordered[m]]_vars
  BY OrderedMove
<1>2. Calm
  OBVIOUS
<1>3. OrderedInv /\ [Next]_vars => OrderedInv'
  BY <1>2, OrderedNext
<1> QED BY OrderedInit, <1>1, <1>3, PTL DEF Spec, OnlyOrderedMoves

------------------------------------------------------------------------------
(* No move is lost.                                                        *)

(* No message arrives between the two statements of a bulk move by filter. *)
CalmArrival == Calm /\ "arrival" \notin Hazards

LEMMA KnownStays ==
    ASSUME Shape, Later, NEW f \in Folder, NEW u \in UID, u <= cursor[f], NEW m \in Msg,
           server'[f][u] = m
    PROVE  server[f][u] = m
<1>1. u \in Nat /\ cursor[f] \in Nat /\ next[f] \in Nat /\ cursor[f] < next[f]
  BY DEF Shape, TypeOK, UID
<1>2. u < next[f]
  BY <1>1
<1>3. m # NoMsg
  BY ConstantsAssumption DEF ConstantsAssumption
<1> QED BY <1>2, <1>3 DEF Later

LEMMA LivePlace ==
    ASSUME OrderedInv, NEW id \in EmailID, LiveMove(id)
    PROVE  /\ queue[id].source \in Folder /\ queue[id].uid \in UID
           /\ queue[id].uid <= cursor[queue[id].source]
           /\ server[queue[id].source][queue[id].uid] = MsgOf(id)
           /\ MsgOf(id) \in Msg /\ MsgOf(id) # NoMsg
BY EmailIDs, ConstantsAssumption
   DEF OrderedInv, QueueNamed, Names, LiveMove, ConstantsAssumption

LEMMA LiveKept ==
    ASSUME OrderedInv, Later, NEW id \in EmailID, queue[id] # NoMove,
           Same(queue'[id], queue[id]), LiveMove(id)'
    PROVE  LiveMove(id)
<1>1. Names(queue[id].source, queue[id].uid, MsgOf(id)) /\ MsgOf(id) \in Msg /\ Shape
  BY EmailIDs DEF OrderedInv, QueueNamed
<1>2. server'[queue[id].source][queue[id].uid] = MsgOf(id)
  BY DEF LiveMove, Same, MsgOf
<1>3. server[queue[id].source][queue[id].uid] = MsgOf(id)
  BY <1>1, <1>2, KnownStays DEF Names
<1> QED BY <1>3 DEF LiveMove

LEMMA LiveJobKept ==
    ASSUME OrderedInv, Later, NEW j \in worker.todo, LiveJob(j)'
    PROVE  LiveJob(j)
<1>1. Names(j.source, j.uid, MsgOf(j.id)) /\ MsgOf(j.id) \in Msg /\ Shape
  BY EmailIDs DEF OrderedInv, JobsNamed, Shape, TypeOK, Job
<1>2. server'[j.source][j.uid] = MsgOf(j.id)
  BY DEF LiveJob, MsgOf
<1> QED BY <1>1, <1>2, KnownStays DEF Names, LiveJob

LEMMA NamedKept ==
    ASSUME OrderedInv, Later, NEW s \in request.todo, request.pc \in Busy, Named(s)'
    PROVE  Named(s)
<1>1. Names(SourceName(s.folder), s.uid, MsgOf(s.id)) /\ MsgOf(s.id) \in Msg /\ Shape
  BY SnapshotType DEF OrderedInv, RequestNamed
<1>2. server'[SourceName(s.folder)][s.uid] = MsgOf(s.id)
  BY DEF Named, MsgOf, SourceName
<1> QED BY <1>1, <1>2, KnownStays DEF Names, Named

LEMMA RightPlace ==
    ASSUME Shape, NEW id \in EmailID, Right(id)
    PROVE  /\ rows[id].folder \in Folder /\ rows[id].uid \in UID
           /\ rows[id].uid <= cursor[rows[id].folder]
           /\ server[rows[id].folder][rows[id].uid] = MsgOf(id)
           /\ MsgOf(id) \in Msg /\ MsgOf(id) # NoMsg
BY GetEmailType, EmailIDs, ConstantsAssumption DEF Right, Row, ConstantsAssumption

LEMMA RightKept ==
    ASSUME Shape, Later, UNCHANGED cursor, NEW id \in EmailID,
           rows'[id] \in {rows[id], NoRow}, Right(id)'
    PROVE  Right(id) /\ rows'[id] = rows[id]
<1>1. /\ Exists(id) /\ rows'[id] = rows[id] /\ rows[id].uid <= cursor[rows[id].folder]
      /\ server'[rows[id].folder][rows[id].uid] = MsgOf(id)
  BY DEF Right, Exists, MsgOf
<1>2. rows[id].folder \in Folder /\ rows[id].uid \in UID /\ MsgOf(id) \in Msg
  BY <1>1, GetEmailType, EmailIDs DEF Row
<1> QED BY <1>1, <1>2, KnownStays DEF Right

(* Steps that add no row and no move; the place of a message changes only  *)
(* when it is moved where it should be or taken away by another client.    *)
Quiet ==
    /\ UNCHANGED cursor /\ spent'.moves = spent.moves
    /\ \A id \in EmailID : rows'[id] \in {rows[id], NoRow}
    /\ \A id \in EmailID : queue'[id] # NoMove =>
          queue[id] # NoMove /\ Same(queue'[id], queue[id]) /\ queue'[id].key = queue[id].key
    /\ \A id \in EmailID : LiveMove(id) => queue'[id] # NoMove
    /\ request' = request \/ (request' = RequestIdle /\ request.pc # "enqueue")
    /\ dropped \subseteq dropped'
    /\ \A m \in Msg :
          \/ /\ wish'[m] = wish[m]
             /\ \A f \in Folder, u \in UID : server'[f][u] = m <=> server[f][u] = m
          \/ wish'[m] = wish[m] /\ IsOn(m, wish[m])'
          \/ /\ wish'[m] = NoFolder
             /\ \A f \in Folder, u \in UID : u <= cursor[f] => server'[f][u] # m

LEMMA QuietRows ==
    ASSUME QueuedInv, Later, Quiet
    PROVE  OneRow' /\ RightRows' /\ MovesWished' /\ RequestsCalm' /\ FilterCalm'
<1>0. Shape /\ OrderedInv
  BY DEF QueuedInv, OrderedInv
<1>1. OneRow'
  BY DEF QueuedInv, OneRow, Quiet, Exists, MsgOf
<1>2. ASSUME NEW id \in EmailID, LiveMove(id)' PROVE LiveMove(id) /\ Same(queue'[id], queue[id])
  <2>1. queue'[id] # NoMove
    BY <1>2 DEF LiveMove
  <2> QED BY <1>0, <1>2, <2>1, LiveKept DEF Quiet
<1>3. ASSUME NEW id \in EmailID, Right(id)' PROVE Right(id)
  BY <1>0, <1>3, RightKept DEF Quiet
<1>4. RightRows'
  <2>1. \A id, d \in EmailID : Right(id)' /\ LiveMove(d)' /\ MsgOf(d) = MsgOf(id) => d = id
    BY <1>2, <1>3 DEF QueuedInv, RightRows
  <2> QED BY <2>1 DEF RightRows, MsgOf
<1>5. MovesWished'
  <2>1. ASSUME NEW id \in EmailID, LiveMove(id)'
        PROVE  queue'[id].target = wish'[MsgOf(id)]
    <3>1. LiveMove(id) /\ Same(queue'[id], queue[id]) /\ queue[id].target = wish[MsgOf(id)]
      BY <1>2, <2>1 DEF QueuedInv, MovesWished
    <3>2. server'[queue[id].source][queue[id].uid] = MsgOf(id)
      BY <2>1, <3>1 DEF LiveMove, Same, MsgOf
    <3>3. wish'[MsgOf(id)] = wish[MsgOf(id)]
      BY <1>0, <3>1, <3>2, LivePlace DEF Quiet
    <3> QED BY <3>1, <3>3 DEF Same
  <2> QED BY <2>1 DEF MovesWished, MsgOf
<1>6. RequestsCalm'
  <2>1. CASE request' = RequestIdle
    BY <2>1, RequestIdleShape DEF RequestsCalm, Busy
  <2>2. CASE request' = request /\ request.pc \in Busy
    <3>1. ASSUME NEW s \in request.todo
          PROVE  /\ \A id \in EmailID : MsgOf(id) = MsgOf(s.id) => ~LiveMove(id)'
                 /\ Named(s)' => \A id \in EmailID : MsgOf(id) = MsgOf(s.id) /\ Right(id)' => id = s.id
                 /\ request.pc = "enqueue" /\ Named(s)' => wish'[MsgOf(s.id)] = request.target
      <4>1. Named(s)' => Named(s)
        BY <1>0, <2>2, NamedKept
      <4>2. ASSUME Named(s)'
            PROVE  wish'[MsgOf(s.id)] = wish[MsgOf(s.id)]
        <5>1. server'[SourceName(s.folder)][s.uid] = MsgOf(s.id)
          BY <4>2 DEF Named, MsgOf, SourceName
        <5>2. /\ SourceName(s.folder) \in Folder /\ s.uid \in UID /\ MsgOf(s.id) \in Msg
              /\ s.uid <= cursor[SourceName(s.folder)]
          BY <1>0, <2>2, SnapshotType DEF OrderedInv, RequestNamed, Names
        <5> QED BY <5>1, <5>2 DEF Quiet
      <4>3. /\ \A id \in EmailID : MsgOf(id) = MsgOf(s.id) => ~LiveMove(id)
            /\ Named(s) => \A id \in EmailID : MsgOf(id) = MsgOf(s.id) /\ Right(id) => id = s.id
            /\ request.pc = "enqueue" /\ Named(s) => wish[MsgOf(s.id)] = request.target
        BY <2>2 DEF QueuedInv, RequestsCalm
      <4> QED BY <1>2, <1>3, <4>1, <4>2, <4>3
    <3>2. \A s, t \in request.todo : MsgOf(s.id) = MsgOf(t.id) => s = t
      BY <2>2 DEF QueuedInv, RequestsCalm
    <3> QED BY <2>2, <3>1, <3>2 DEF RequestsCalm, MsgOf
  <2>3. CASE request' = request /\ request.pc \notin Busy
    BY <2>3 DEF RequestsCalm
  <2> QED BY <2>1, <2>2, <2>3 DEF Quiet
<1>7. FilterCalm'
  <2>1. CASE request' = RequestIdle
    BY <2>1, RequestIdleShape DEF FilterCalm
  <2>2. CASE request' = request
    <3>1. ASSUME request.pc = "filter", NEW id \in RowsIn(request.source)'
          PROVE  id \in RowsIn(request.source) /\ rows'[id] = rows[id]
      BY <2>2, <3>1 DEF Quiet, RowsIn
    <3> QED BY <1>2, <2>2, <3>1 DEF QueuedInv, FilterCalm, MsgOf, SourceName
  <2> QED BY <2>1, <2>2 DEF Quiet
<1> QED BY <1>1, <1>4, <1>5, <1>6, <1>7

LEMMA QuietWishes ==
    ASSUME QueuedInv, Later, Quiet
    PROVE  WishesQueued'
<1>0. Shape /\ OrderedInv
  BY DEF QueuedInv, OrderedInv
<1>1. ASSUME NEW m \in Msg \ dropped', wish'[m] # NoFolder, ~IsOn(m, wish[m])',
             NEW g \in Folder, IsOn(m, g)'
      PROVE  \/ \E id \in EmailID : MsgOf(id) = m /\ LiveMove(id)' /\ queue'[id].target = wish'[m]
             \/ \E s \in request'.todo : request'.pc = "enqueue" /\ MsgOf(s.id) = m /\ Named(s)'
  <2>1. /\ m \notin dropped /\ wish'[m] = wish[m]
        /\ \A f \in Folder, u \in UID : server'[f][u] = m <=> server[f][u] = m
    BY <1>1 DEF Quiet, IsOn
  <2>2. ~IsOn(m, wish[m]) /\ IsOn(m, g)
    <3>1. wish[m] \in Folder
      BY <1>0, <1>1, <2>1 DEF Shape, TypeOK
    <3> QED BY <1>1, <2>1, <3>1 DEF IsOn
  <2>3. Queued(m)
    BY <1>1, <2>1, <2>2 DEF QueuedInv, WishesQueued
  <2>4. CASE \E id \in EmailID : MsgOf(id) = m /\ LiveMove(id) /\ queue[id].target = wish[m]
    <3>1. PICK id \in EmailID : MsgOf(id) = m /\ LiveMove(id) /\ queue[id].target = wish[m]
      BY <2>4
    <3>2. /\ queue'[id] # NoMove /\ Same(queue'[id], queue[id])
          /\ queue[id].source \in Folder /\ queue[id].uid \in UID
          /\ server[queue[id].source][queue[id].uid] = m
      BY <1>0, <3>1, LivePlace DEF Quiet
    <3>3. LiveMove(id)'
      BY <2>1, <3>1, <3>2 DEF LiveMove, Same, MsgOf
    <3> QED BY <2>1, <3>1, <3>2, <3>3 DEF Same
  <2>5. CASE \E s \in request.todo : request.pc = "enqueue" /\ MsgOf(s.id) = m /\ Named(s)
    <3>1. PICK s \in request.todo : request.pc = "enqueue" /\ MsgOf(s.id) = m /\ Named(s)
      BY <2>5
    <3>2. request' = request /\ SourceName(s.folder) \in Folder /\ s.uid \in UID
      BY <1>0, <3>1, SnapshotType DEF Quiet
    <3>3. Named(s)'
      BY <2>1, <3>1, <3>2 DEF Named, MsgOf, SourceName
    <3> QED BY <3>1, <3>2, <3>3
  <2> QED BY <2>3, <2>4, <2>5 DEF Queued
<1> QED BY <1>1 DEF WishesQueued, Queued, MsgOf

LEMMA QuietJobs ==
    ASSUME QueuedInv, Later, Quiet, worker'.todo \subseteq worker.todo
    PROVE  JobsQueued' /\ KeysFresh'
<1>0. Shape /\ OrderedInv
  BY DEF QueuedInv, OrderedInv
<1>1. ASSUME NEW j \in worker'.todo, LiveJob(j)'
      PROVE  queue'[j.id] # NoMove /\ Same(queue'[j.id], j)
  <2>1. j \in worker.todo /\ j.id \in EmailID
    BY <1>0 DEF Shape, TypeOK, Job
  <2>2. LiveJob(j)
    BY <1>0, <1>1, <2>1, LiveJobKept
  <2>3. queue[j.id] # NoMove /\ Same(queue[j.id], j)
    BY <2>1, <2>2 DEF QueuedInv, JobsQueued
  <2>4. LiveMove(j.id)
    BY <2>2, <2>3 DEF LiveMove, LiveJob, Same
  <2> QED BY <2>1, <2>3, <2>4 DEF Quiet, Same
<1>2. \A id \in EmailID : Awaited(id)' => Awaited(id)
  BY RequestIdleShape DEF Awaited, Quiet, Busy
<1>3. \A j \in worker'.todo : j \in worker.todo /\ j.id \in EmailID
  BY <1>0 DEF Shape, TypeOK, Job
<1>4. \A id \in EmailID : queue'[id] # NoMove =>
         queue'[id].key <= spent'.moves /\ (Awaited(id)' => queue'[id].key # spent'.moves)
  BY <1>2 DEF QueuedInv, KeysFresh, Quiet
<1>5. \A j \in worker'.todo :
         /\ j.key <= spent'.moves /\ (Awaited(j.id)' => j.key # spent'.moves)
         /\ queue'[j.id] # NoMove /\ queue'[j.id].key = j.key => Same(queue'[j.id], j)
  <2>1. ASSUME NEW j \in worker'.todo
        PROVE  j.key <= spent'.moves /\ (Awaited(j.id)' => j.key # spent'.moves)
    <3>1. Awaited(j.id)' => Awaited(j.id)
      BY <1>2, <1>3
    <3> QED BY <1>3, <3>1 DEF QueuedInv, KeysFresh, Quiet
  <2>2. \A j \in worker'.todo :
           queue'[j.id] # NoMove /\ queue'[j.id].key = j.key => Same(queue'[j.id], j)
    BY <1>3 DEF QueuedInv, KeysFresh, Quiet, Same
  <2> QED BY <2>1, <2>2
<1> QED BY <1>1, <1>4, <1>5 DEF JobsQueued, KeysFresh, Awaited, Same

(* Steps that queue the moves of the snapshots S of the request.           *)
Enqueued(id, s) ==
    /\ MsgOf(id) = MsgOf(s.id) /\ Awaited(id)
    /\ queue'[id] # NoMove /\ queue'[id].source = SourceName(s.folder)
    /\ queue'[id].target = request.target /\ queue'[id].uid = s.uid
    /\ queue'[id].key = spent.moves

Moving(S) ==
    /\ request.pc \in Busy
    /\ UNCHANGED <<server, next, cursor, worker>> /\ spent'.moves = spent.moves
    /\ dropped \subseteq dropped'
    /\ \A id \in EmailID : queue'[id] = queue[id] \/ \E s \in S : Enqueued(id, s)
    /\ \A s \in S : MsgOf(s.id) \in dropped' \/ \E id \in EmailID : Enqueued(id, s)
    /\ \A id \in EmailID : rows'[id] \in {rows[id], NoRow} \/ \E s \in S : s.id = id
    /\ \A s \in S : \A id \in EmailID : Enqueued(id, s) => id = s.id \/ rows'[s.id] = NoRow
    /\ \A m \in Msg : wish'[m] = IF \E s \in S : MsgOf(s.id) = m /\ Named(s)
                                 THEN request.target ELSE wish[m]
    /\ \/ request' = RequestIdle /\ (request.pc = "enqueue" => request.todo = S)
       \/ /\ request.pc = "enqueue" /\ request'.pc = "enqueue"
          /\ request'.todo = request.todo \ S /\ request'.target = request.target

LEMMA MovingLive ==
    ASSUME QueuedInv, NEW S \in SUBSET request.todo, Moving(S), NEW d \in EmailID, LiveMove(d)'
    PROVE  \/ queue'[d] = queue[d] /\ LiveMove(d) /\ \A s \in S : MsgOf(s.id) # MsgOf(d)
           \/ \E s \in S : Enqueued(d, s) /\ Named(s)
<1>1. CASE queue'[d] = queue[d]
  <2>1. LiveMove(d)
    BY <1>1 DEF LiveMove, Moving, MsgOf
  <2> QED BY <1>1, <2>1 DEF QueuedInv, RequestsCalm, Moving
<1>2. ASSUME NEW s \in S, Enqueued(d, s) PROVE Named(s)
  BY <1>2 DEF LiveMove, Enqueued, Named, MsgOf, Moving
<1> QED BY <1>1, <1>2 DEF Moving

LEMMA MovingRows ==
    ASSUME QueuedInv, NEW S \in SUBSET request.todo, Moving(S)
    PROVE  RightRows' /\ MovesWished' /\ RequestsCalm' /\ FilterCalm'
<1>0. /\ Shape /\ OrderedInv
      /\ \A s, t \in request.todo : MsgOf(s.id) = MsgOf(t.id) => s = t
      /\ \A s \in request.todo : Named(s) =>
            \A id \in EmailID : MsgOf(id) = MsgOf(s.id) /\ Right(id) => id = s.id
      /\ \A s \in request.todo : MsgOf(s.id) \in Msg /\ s.id \in EmailID
  BY SnapshotType DEF QueuedInv, OrderedInv, RequestsCalm, Moving
<1>1. ASSUME NEW id \in EmailID, Right(id)'
      PROVE  Right(id) \/ \E s \in S : s.id = id
  BY <1>1 DEF Moving, Right, Exists, MsgOf
<1>2. ASSUME NEW id \in EmailID, Right(id)', NEW d \in EmailID, LiveMove(d)', MsgOf(d) = MsgOf(id)
      PROVE  d = id
  <2>1. CASE LiveMove(d) /\ \A s \in S : MsgOf(s.id) # MsgOf(d)
    BY <1>1, <1>2, <2>1 DEF QueuedInv, RightRows
  <2>2. ASSUME NEW s \in S, Enqueued(d, s), Named(s) PROVE d = id
    <3>1. id = s.id
      BY <1>0, <1>1, <1>2, <2>2 DEF Enqueued
    <3>2. rows'[id] # NoRow
      BY <1>2 DEF Right, Exists
    <3> QED BY <2>2, <3>1, <3>2 DEF Moving
  <2> QED BY <1>2, <2>1, <2>2, MovingLive
<1>3. RightRows'
  BY <1>2 DEF RightRows, MsgOf
<1>4. MovesWished'
  <2>1. ASSUME NEW d \in EmailID, LiveMove(d)'
        PROVE  queue'[d].target = wish'[MsgOf(d)]
    <3>0. MsgOf(d) \in Msg
      BY EmailIDs
    <3>1. CASE queue'[d] = queue[d] /\ LiveMove(d) /\ \A s \in S : MsgOf(s.id) # MsgOf(d)
      BY <3>0, <3>1 DEF QueuedInv, MovesWished, Moving
    <3>2. ASSUME NEW s \in S, Enqueued(d, s), Named(s)
          PROVE  queue'[d].target = wish'[MsgOf(d)]
      BY <3>0, <3>2 DEF Enqueued, Moving
    <3> QED BY <2>1, <3>1, <3>2, MovingLive
  <2> QED BY <2>1 DEF MovesWished, MsgOf
<1>5. RequestsCalm' /\ FilterCalm'
  <2>1. CASE request' = RequestIdle
    BY <2>1, RequestIdleShape DEF RequestsCalm, FilterCalm, Busy
  <2>2. CASE /\ request.pc = "enqueue" /\ request'.pc = "enqueue"
             /\ request'.todo = request.todo \ S /\ request'.target = request.target
    <3>1. ASSUME NEW s \in request.todo \ S
          PROVE  /\ \A id \in EmailID : MsgOf(id) = MsgOf(s.id) => ~LiveMove(id)'
                 /\ Named(s)' => \A id \in EmailID : MsgOf(id) = MsgOf(s.id) /\ Right(id)' => id = s.id
                 /\ Named(s)' => wish'[MsgOf(s.id)] = request.target
      <4>1. Named(s)' => Named(s)
        BY DEF Named, Moving, MsgOf, SourceName
      <4>2. \A t \in S : MsgOf(t.id) # MsgOf(s.id)
        BY <1>0
      <4>3. \A id \in EmailID : MsgOf(id) = MsgOf(s.id) => ~LiveMove(id)'
        <5>1. ASSUME NEW id \in EmailID, MsgOf(id) = MsgOf(s.id), LiveMove(id)' PROVE FALSE
          <6>1. ~LiveMove(id)
            BY <2>2, <5>1 DEF QueuedInv, RequestsCalm, Busy
          <6> QED BY <4>2, <5>1, <6>1, MovingLive DEF Enqueued
        <5> QED BY <5>1
      <4>4. \A id \in EmailID : MsgOf(id) = MsgOf(s.id) /\ Right(id)' => Right(id)
        BY <1>1, <4>2
      <4>5. Named(s) => wish'[MsgOf(s.id)] = wish[MsgOf(s.id)]
        BY <1>0, <4>2 DEF Moving
      <4>6. Named(s) => wish[MsgOf(s.id)] = request.target
        BY <2>2 DEF QueuedInv, RequestsCalm, Busy
      <4> QED BY <1>0, <4>1, <4>3, <4>4, <4>5, <4>6
    <3> QED BY <1>0, <2>2, <3>1 DEF RequestsCalm, FilterCalm, MsgOf
  <2> QED BY <2>1, <2>2 DEF Moving
<1> QED BY <1>3, <1>4, <1>5

LEMMA MovingWishes ==
    ASSUME QueuedInv, NEW S \in SUBSET request.todo, Moving(S)
    PROVE  WishesQueued'
<1>0. /\ Shape /\ OrderedInv
      /\ \A s, t \in request.todo : MsgOf(s.id) = MsgOf(t.id) => s = t
      /\ \A s \in request.todo : \A id \in EmailID : MsgOf(id) = MsgOf(s.id) => ~LiveMove(id)
  BY DEF QueuedInv, OrderedInv, RequestsCalm, Moving
<1>1. ASSUME NEW m \in Msg \ dropped', wish'[m] # NoFolder, ~IsOn(m, wish[m])',
             NEW g \in Folder, IsOn(m, g)'
      PROVE  \/ \E id \in EmailID : MsgOf(id) = m /\ LiveMove(id)' /\ queue'[id].target = wish'[m]
             \/ \E s \in request'.todo : request'.pc = "enqueue" /\ MsgOf(s.id) = m /\ Named(s)'
  <2>1. CASE \E s \in S : MsgOf(s.id) = m /\ Named(s)
    <3>1. PICK s \in S : MsgOf(s.id) = m /\ Named(s)
      BY <2>1
    <3>2. PICK id \in EmailID : Enqueued(id, s)
      BY <1>1, <3>1 DEF Moving
    <3>3. LiveMove(id)'
      BY <3>1, <3>2 DEF LiveMove, Enqueued, Named, Moving, MsgOf
    <3>4. wish'[m] = request.target
      BY <3>1 DEF Moving
    <3> QED BY <3>1, <3>2, <3>3, <3>4 DEF Enqueued
  <2>2. CASE ~(\E s \in S : MsgOf(s.id) = m /\ Named(s))
    <3>1. wish'[m] = wish[m] /\ m \in Msg \ dropped
      BY <1>1, <2>2 DEF Moving
    <3>2. ~IsOn(m, wish[m]) /\ IsOn(m, g)
      BY <1>1, <3>1 DEF IsOn, Moving
    <3>3. Queued(m)
      BY <1>1, <3>1, <3>2 DEF QueuedInv, WishesQueued
    <3>4. CASE \E id \in EmailID : MsgOf(id) = m /\ LiveMove(id) /\ queue[id].target = wish[m]
      <4>1. PICK id \in EmailID : MsgOf(id) = m /\ LiveMove(id) /\ queue[id].target = wish[m]
        BY <3>4
      <4>2. queue'[id] = queue[id]
        BY <1>0, <4>1 DEF Moving, Enqueued
      <4>3. LiveMove(id)'
        BY <4>1, <4>2 DEF LiveMove, Moving, MsgOf
      <4> QED BY <3>1, <4>1, <4>2, <4>3
    <3>5. CASE \E s \in request.todo : request.pc = "enqueue" /\ MsgOf(s.id) = m /\ Named(s)
      <4>1. PICK s \in request.todo : request.pc = "enqueue" /\ MsgOf(s.id) = m /\ Named(s)
        BY <3>5
      <4>2. s \notin S
        BY <2>2, <4>1
      <4>3. s \in request'.todo /\ request'.pc = "enqueue"
        BY <4>1, <4>2 DEF Moving
      <4>4. Named(s)'
        BY <4>1 DEF Named, Moving, MsgOf, SourceName
      <4> QED BY <4>1, <4>3, <4>4
    <3> QED BY <3>3, <3>4, <3>5 DEF Queued
  <2> QED BY <2>1, <2>2
<1> QED BY <1>1 DEF WishesQueued, Queued, MsgOf

LEMMA MovingJobs ==
    ASSUME QueuedInv, NEW S \in SUBSET request.todo, Moving(S)
    PROVE  JobsQueued' /\ CurExecuted' /\ KeysFresh'
<1>0. /\ Shape /\ OrderedInv /\ \A s \in request.todo : s.id \in EmailID
      /\ \A s, t \in request.todo : MsgOf(s.id) = MsgOf(t.id) => s = t
      /\ \A s \in request.todo : \A id \in EmailID : MsgOf(id) = MsgOf(s.id) => ~LiveMove(id)
      /\ \A j \in worker.todo : j.id \in EmailID
      /\ UNCHANGED <<server, worker>> /\ spent'.moves = spent.moves
  BY SnapshotType DEF QueuedInv, OrderedInv, RequestsCalm, Moving, Shape, TypeOK, Job
<1>1. JobsQueued'
  <2>1. ASSUME NEW j \in worker.todo, LiveJob(j)
        PROVE  queue'[j.id] # NoMove /\ Same(queue'[j.id], j)
    <3>1. queue[j.id] # NoMove /\ Same(queue[j.id], j) /\ LiveMove(j.id)
      BY <2>1 DEF QueuedInv, JobsQueued, LiveMove, LiveJob, Same
    <3>2. queue'[j.id] = queue[j.id]
      BY <1>0, <3>1 DEF Moving, Enqueued
    <3> QED BY <3>1, <3>2
  <2> QED BY <1>0, <2>1 DEF JobsQueued, LiveJob, MsgOf, Same
<1>2. CurExecuted'
  BY <1>0 DEF QueuedInv, CurExecuted, LiveJob, MsgOf
<1>3. ASSUME NEW id \in EmailID, Awaited(id)'
      PROVE  Awaited(id) /\ \A s \in S : ~Enqueued(id, s)
  <2>1. request'.pc \in Busy
    BY <1>3 DEF Awaited
  <2>2. /\ request.pc = "enqueue" /\ request'.pc = "enqueue" /\ request'.todo = request.todo \ S
    BY <2>1, RequestIdleShape DEF Moving, Busy
  <2>3. PICK t \in request.todo \ S : t.id = id
    BY <1>3, <2>2 DEF Awaited
  <2> QED BY <1>0, <2>2, <2>3 DEF Awaited, Busy, Enqueued
<1>4. ASSUME NEW id \in EmailID, queue'[id] # NoMove
      PROVE  queue'[id].key <= spent'.moves /\ (Awaited(id)' => queue'[id].key # spent'.moves)
  <2>1. CASE queue'[id] = queue[id]
    BY <1>0, <1>3, <1>4, <2>1 DEF QueuedInv, KeysFresh
  <2>2. CASE \E s \in S : Enqueued(id, s)
    <3>1. queue'[id].key = spent'.moves /\ spent'.moves \in Nat
      BY <1>0, <2>2 DEF Enqueued, Shape
    <3> QED BY <1>3, <2>2, <3>1
  <2> QED BY <2>1, <2>2 DEF Moving
<1>5. ASSUME NEW j \in worker.todo
      PROVE  /\ j.key <= spent'.moves /\ (Awaited(j.id)' => j.key # spent'.moves)
             /\ queue'[j.id] # NoMove /\ queue'[j.id].key = j.key => Same(queue'[j.id], j)
  <2>1. /\ j.key <= spent.moves /\ (Awaited(j.id) => j.key # spent.moves)
        /\ queue[j.id] # NoMove /\ queue[j.id].key = j.key => Same(queue[j.id], j)
        /\ j.id \in EmailID
    BY <1>0 DEF QueuedInv, KeysFresh
  <2>2. Awaited(j.id)' => Awaited(j.id)
    BY <1>3, <2>1
  <2>3. queue'[j.id] # queue[j.id] => queue'[j.id].key = spent.moves /\ Awaited(j.id)
    BY <2>1 DEF Moving, Enqueued
  <2> QED BY <1>0, <2>1, <2>2, <2>3
<1> QED BY <1>0, <1>1, <1>2, <1>4, <1>5 DEF KeysFresh, Awaited, Same

(* Rows I move to the folder target, where their messages have no others.  *)
LEMMA OneRowMoved ==
    ASSUME OneRow, NEW I \in SUBSET EmailID, NEW target, ~Collides(I, target),
           \A id \in I : Exists(id),
           \A id \in I : rows'[id] \in {[folder |-> target, uid |-> rows[id].uid], NoRow},
           \A id \in EmailID \ I : rows'[id] \in {rows[id], NoRow}
    PROVE  OneRow'
<1>1. ASSUME NEW id \in EmailID, NEW d \in EmailID, rows'[id] # NoRow, rows'[d] # NoRow,
             MsgOf(id) = MsgOf(d), rows'[id].folder = rows'[d].folder
      PROVE  id = d
  <2>1. CASE id \in I /\ d \in I
    BY <1>1, <2>1 DEF Collides
  <2>2. CASE id \in I /\ d \notin I
    <3>1. d \in RowsIn(target)
      BY <1>1, <2>2 DEF RowsIn
    <3> QED BY <1>1, <2>2, <3>1 DEF Collides
  <2>3. CASE id \notin I /\ d \in I
    <3>1. id \in RowsIn(target)
      BY <1>1, <2>3 DEF RowsIn
    <3> QED BY <1>1, <2>3, <3>1 DEF Collides
  <2>4. CASE id \notin I /\ d \notin I
    BY <1>1, <2>4 DEF OneRow, Exists
  <2> QED BY <2>1, <2>2, <2>3, <2>4
<1> QED BY <1>1 DEF OneRow, Exists, MsgOf

(* The steps of a request.                                                 *)
LEMMA NothingMoved ==
    ASSUME Shape, UNCHANGED <<server, cursor, rows, queue, history>>, spent'.moves = spent.moves,
           request' = request \/ (request' = RequestIdle /\ request.pc # "enqueue")
    PROVE  Quiet
BY DEF Quiet, Same, LiveMove, history

LEMMA QuietStep ==
    ASSUME QueuedInv, OrderedInv', Later, Quiet, worker'.todo \subseteq worker.todo, CurExecuted'
    PROVE  QueuedInv'
BY QuietRows, QuietWishes, QuietJobs DEF QueuedInv

LEMMA MovingStep ==
    ASSUME QueuedInv, OrderedInv', NEW S \in SUBSET request.todo, Moving(S), OneRow'
    PROVE  QueuedInv'
BY MovingRows, MovingWishes, MovingJobs DEF QueuedInv

LEMMA CurKept ==
    ASSUME QueuedInv, Later, worker'.pc = "complete" => UNCHANGED worker
    PROVE  CurExecuted'
<1>1. ASSUME worker'.pc = "complete", NEW j \in worker'.cur PROVE ~LiveJob(j)'
  <2>1. j \in worker.cur /\ worker.pc = "complete" /\ j \in worker.todo
    BY <1>1 DEF QueuedInv, OrderedInv, Shape, JobsShape
  <2>2. OrderedInv /\ ~LiveJob(j)
    BY <2>1 DEF QueuedInv, CurExecuted
  <2> QED BY <2>1, <2>2, LiveJobKept
<1> QED BY <1>1 DEF CurExecuted, LiveJob, MsgOf

LEMMA MoveQueued ==
    ASSUME QueuedInv, OrderedInv', Later, MoveEmailAndEnqueueIMAP
    PROVE  QueuedInv'
<1>0. /\ Shape /\ request.pc = "move" /\ request.pc \in Busy /\ request' = RequestIdle
      /\ UNCHANGED <<server, next, cursor, worker>> /\ spent'.moves = spent.moves
  BY MoveResult DEF QueuedInv, OrderedInv, Busy
<1>1. CASE UNCHANGED <<rows, queue, history>>
  <2>1. Quiet
    BY <1>0, <1>1, NothingMoved
  <2> QED BY <1>0, <2>1, QuietStep, CurKept
<1>2. CASE ~UNCHANGED <<rows, queue, history>>
  <2>1. PICK s \in request.todo, id \in EmailID :
            /\ Exists(s.id) /\ MsgOf(id) = MsgOf(s.id) /\ Order({s}, request.target)
            /\ queue'[id] # NoMove /\ queue'[id].source = SourceName(s.folder)
            /\ queue'[id].target = request.target /\ queue'[id].uid = s.uid
            /\ queue'[id].key = spent.moves
            /\ \A d \in EmailID \ {id} : queue'[d] = queue[d]
            /\ \A d \in EmailID \ {s.id} : rows'[d] = rows[d]
            /\ \/ /\ id = s.id /\ Duplicate(s.id, request.target) = {}
                  /\ rows'[s.id] = [folder |-> request.target, uid |-> rows[s.id].uid]
               \/ rows'[s.id] = NoRow
    BY <1>0, <1>2, MoveResult
  <2>2. Enqueued(id, s)
    BY <1>0, <2>1 DEF Enqueued, Awaited
  <2>3. \A d \in EmailID : Enqueued(d, s) => d = s.id \/ rows'[s.id] = NoRow
    <3>1. CASE id # s.id
      BY <2>1, <3>1
    <3>2. CASE id = s.id
      <4>1. ASSUME NEW d \in EmailID, Enqueued(d, s), d # s.id PROVE FALSE
        <5>1. queue'[d] = queue[d]
          BY <2>1, <3>2, <4>1
        <5>2. queue[d].key # spent.moves /\ queue'[d].key = spent.moves
          BY <4>1, <5>1 DEF Enqueued, QueuedInv, KeysFresh
        <5> QED BY <5>1, <5>2
      <4> QED BY <4>1
    <3> QED BY <3>1, <3>2
  <2>4. /\ dropped' = dropped
        /\ \A m \in Msg : wish'[m] = IF \E t \in {s} : MsgOf(t.id) = m /\ Named(t)
                                     THEN request.target ELSE wish[m]
    BY <2>1 DEF Order, Ordered
  <2>5. Moving({s})
    BY <1>0, <2>1, <2>2, <2>3, <2>4 DEF Moving
  <2>6. OneRow'
    <3>0. s.id \in EmailID
      BY <1>0, SnapshotType
    <3>1. CASE rows'[s.id] = NoRow
      BY <2>1, <3>1 DEF QueuedInv, OneRow, Exists, MsgOf
    <3>2. CASE /\ Duplicate(s.id, request.target) = {}
               /\ rows'[s.id] = [folder |-> request.target, uid |-> rows[s.id].uid]
      <4>1. ~Collides({s.id}, request.target)
        BY <3>2 DEF Duplicate, Collides
      <4> QED BY <2>1, <3>0, <3>2, <4>1, OneRowMoved DEF QueuedInv
    <3> QED BY <2>1, <3>1, <3>2
  <2> QED BY <2>5, <2>6, MovingStep
<1> QED BY <1>1, <1>2

LEMMA EraseQuiet ==
    ASSUME QueuedInv, OrderedInv', Later, Erase
    PROVE  QueuedInv'
<1>1. /\ Shape /\ request.pc = "erase" /\ request' = RequestIdle
      /\ UNCHANGED <<server, next, cursor, queue, worker, ordered, wish, spent>>
      /\ \A id \in EmailID : rows'[id] \in {rows[id], NoRow}
      /\ dropped \subseteq dropped'
  BY DEF QueuedInv, OrderedInv, Erase, DeleteRows, Answer
<1>2. Quiet
  BY <1>1 DEF Quiet, Same, LiveMove
<1> QED BY <1>1, <1>2, QuietStep, CurKept

LEMMA BulkQueued ==
    ASSUME QueuedInv, OrderedInv', Later, BulkMoveAndEnqueue
    PROVE  QueuedInv'
<1>0. /\ Shape /\ request.pc \in Busy /\ request.pc # "enqueue" /\ request' = RequestIdle
      /\ UNCHANGED <<server, next, cursor, worker, spent>> /\ Moved \in SUBSET request.todo
      /\ There \in SUBSET EmailID /\ \A id \in There : Exists(id)
  BY BulkResult, ThereIds DEF QueuedInv, OrderedInv, Busy, Moved
<1>1. CASE UNCHANGED <<rows, queue, history>>
  <2>1. Quiet
    BY <1>0, <1>1, NothingMoved
  <2> QED BY <1>0, <2>1, QuietStep, CurKept
<1>2. CASE ~UNCHANGED <<rows, queue, history>>
  <2>1. /\ ~Collides(There, request.target) /\ Order(Moved, request.target)
        /\ \A id \in EmailID : \A s \in Moved : s.id = id =>
              \E t \in Moved : /\ t.id = id /\ queue'[id] # NoMove
                               /\ queue'[id].source = SourceName(t.folder)
                               /\ queue'[id].target = request.target
                               /\ queue'[id].uid = t.uid
                               /\ queue'[id].key = spent.moves
        /\ \A id \in EmailID : (\A s \in Moved : s.id # id) => queue'[id] = queue[id]
        /\ \A id \in There :
              \/ rows'[id] = [folder |-> request.target, uid |-> rows[id].uid]
              \/ rows'[id] = NoRow
        /\ \A id \in EmailID \ There : rows'[id] \in {rows[id], NoRow}
    BY <1>0, <1>2, BulkResult
  <2>2. \A s, t \in request.todo : MsgOf(s.id) = MsgOf(t.id) => s = t
    BY <1>0 DEF QueuedInv, RequestsCalm
  <2>3. ASSUME NEW s \in Moved PROVE s.id \in EmailID /\ Enqueued(s.id, s)
    <3>1. s.id \in EmailID
      BY <1>0, SnapshotType
    <3>2. PICK t \in Moved : /\ t.id = s.id /\ queue'[s.id] # NoMove
                             /\ queue'[s.id].source = SourceName(t.folder)
                             /\ queue'[s.id].target = request.target
                             /\ queue'[s.id].uid = t.uid /\ queue'[s.id].key = spent.moves
      BY <2>1, <3>1
    <3>3. t = s
      BY <1>0, <2>2, <3>2
    <3> QED BY <1>0, <3>1, <3>2, <3>3 DEF Enqueued, Awaited
  <2>4. \A id \in EmailID : queue'[id] = queue[id] \/ \E s \in Moved : Enqueued(id, s)
    BY <2>1, <2>3
  <2>5. \A s \in Moved : \A d \in EmailID : Enqueued(d, s) => d = s.id
    <3>1. ASSUME NEW s \in Moved, NEW d \in EmailID, Enqueued(d, s) PROVE d = s.id
      <4>1. CASE \A t \in Moved : t.id # d
        <5>1. queue'[d] = queue[d]
          BY <2>1, <4>1
        <5>2. queue[d].key # spent.moves /\ queue'[d].key = spent.moves
          BY <3>1, <5>1 DEF Enqueued, QueuedInv, KeysFresh
        <5> QED BY <5>1, <5>2
      <4>2. CASE \E t \in Moved : t.id = d
        BY <1>0, <2>2, <3>1, <4>2 DEF Enqueued
      <4> QED BY <4>1, <4>2
    <3> QED BY <3>1
  <2>6. /\ dropped' = dropped
        /\ \A m \in Msg : wish'[m] = IF \E t \in Moved : MsgOf(t.id) = m /\ Named(t)
                                     THEN request.target ELSE wish[m]
    BY <2>1 DEF Order, Ordered
  <2>7. \A id \in EmailID : rows'[id] \in {rows[id], NoRow} \/ \E s \in Moved : s.id = id
    BY <2>1 DEF There
  <2>8. Moving(Moved)
    BY <1>0, <2>3, <2>4, <2>5, <2>6, <2>7 DEF Moving
  <2>9. OneRow'
    <3>1. /\ OneRow /\ There \in SUBSET EmailID /\ ~Collides(There, request.target)
          /\ \A id \in There : Exists(id)
      BY <1>0, <2>1 DEF QueuedInv
    <3>2. \A id \in There : rows'[id] \in {[folder |-> request.target, uid |-> rows[id].uid], NoRow}
      BY <2>1
    <3>3. \A id \in EmailID \ There : rows'[id] \in {rows[id], NoRow}
      BY <2>1
    <3> QED BY <3>1, <3>2, <3>3, OneRowMoved
  <2> QED BY <1>0, <2>8, <2>9, MovingStep
<1> QED BY <1>1, <1>2

LEMMA EnqueueQueued ==
    ASSUME QueuedInv, OrderedInv', Later, EnqueueIMAPMovesFromEmails
    PROVE  QueuedInv'
<1>0. /\ Shape /\ request.pc = "enqueue" /\ request.pc \in Busy /\ request.target \in Folder
      /\ UNCHANGED <<server, next, cursor, rows, worker>>
      /\ \A s, t \in request.todo : MsgOf(s.id) = MsgOf(t.id) => s = t
      /\ \A s \in request.todo : Named(s) => wish[MsgOf(s.id)] = request.target
  BY DEF QueuedInv, OrderedInv, RequestsCalm, Busy, EnqueueIMAPMovesFromEmails, Shape, RequestShape
<1>1. PICK s \in request.todo :
          /\ \/ queue' = EnqueueIMAPMove(s, request.target) /\ UNCHANGED <<history, spent>>
             \/ /\ Fault("write")
                /\ dropped' = dropped \cup {MsgOf(s.id)}
                /\ UNCHANGED <<queue, ordered, wish>>
          /\ IF request.todo = {s} THEN Answer
             ELSE request' = [request EXCEPT !.todo = @ \ {s}]
  BY DEF EnqueueIMAPMovesFromEmails
<1>2. /\ s \in Snapshot /\ s.id \in EmailID /\ s.uid \in UID /\ s.folder \in Folder \cup {NoFolder}
      /\ MsgOf(s.id) \in Msg
  BY <1>0, SnapshotType DEF Snapshot
<1>3. spent'.moves = spent.moves /\ UNCHANGED wish /\ dropped \subseteq dropped'
  BY <1>0, <1>1, FaultShape DEF history
<1>4. /\ \A id \in EmailID : id # s.id => queue'[id] = queue[id]
      /\ queue'[s.id] = queue[s.id] \/ Enqueued(s.id, s)
      /\ MsgOf(s.id) \in dropped' \/ Enqueued(s.id, s)
  <2>1. CASE queue' = EnqueueIMAPMove(s, request.target)
    <3>1. /\ queue'[s.id] = Pending(SourceName(s.folder), request.target, s.uid)
          /\ \A id \in EmailID : id # s.id => queue'[id] = queue[id]
      BY <1>0, <1>2, <2>1, EnqueueType
    <3>2. /\ queue'[s.id].source = SourceName(s.folder) /\ queue'[s.id].uid = s.uid
          /\ queue'[s.id].target = request.target /\ queue'[s.id].key = spent.moves
          /\ queue'[s.id] # NoMove
      BY <1>0, <1>2, <3>1, PendingType, NoneIsNone
    <3> QED BY <1>0, <3>1, <3>2 DEF Enqueued, Awaited
  <2>2. CASE UNCHANGED queue /\ dropped' = dropped \cup {MsgOf(s.id)}
    BY <2>2
  <2> QED BY <1>1, <2>1, <2>2
<1>5. \A d \in EmailID : Enqueued(d, s) => d = s.id
  <2>1. ASSUME NEW d \in EmailID, Enqueued(d, s), d # s.id PROVE FALSE
    <3>1. queue'[d] = queue[d]
      BY <1>4, <2>1
    <3>2. queue[d].key # spent.moves /\ queue'[d].key = spent.moves
      BY <2>1, <3>1 DEF Enqueued, QueuedInv, KeysFresh
    <3> QED BY <3>1, <3>2
  <2> QED BY <2>1
<1>6. \A m \in Msg : wish'[m] = IF \E t \in {s} : MsgOf(t.id) = m /\ Named(t)
                                THEN request.target ELSE wish[m]
  BY <1>0, <1>3
<1>7. \/ request' = RequestIdle /\ request.todo = {s}
      \/ /\ request.pc = "enqueue" /\ request'.pc = "enqueue"
         /\ request'.todo = request.todo \ {s} /\ request'.target = request.target
  BY <1>0, <1>1 DEF Answer, Shape, RequestState
<1>8. Moving({s})
  <2>1. \A id \in EmailID : queue'[id] = queue[id] \/ \E t \in {s} : Enqueued(id, t)
    BY <1>4
  <2>2. \A t \in {s} : MsgOf(t.id) \in dropped' \/ \E id \in EmailID : Enqueued(id, t)
    BY <1>2, <1>4
  <2>3. \A t \in {s} : \A id \in EmailID : Enqueued(id, t) => id = t.id
    BY <1>5
  <2> QED BY <1>0, <1>3, <1>6, <1>7, <2>1, <2>2, <2>3 DEF Moving
<1>9. OneRow'
  BY <1>0 DEF QueuedInv, OneRow, Exists, MsgOf
<1> QED BY <1>8, <1>9, MovingStep

LEMMA FilterQueued ==
    ASSUME QueuedInv, OrderedInv', Later, BulkMoveByFilter
    PROVE  QueuedInv'
<1> DEFINE there == RowsIn(request.source)
           S == request.todo \cup {GetEmail(id) : id \in there}
<1>0. /\ Shape /\ OrderedInv /\ request.pc = "filter" /\ request.pc \in Busy
      /\ request.source \in Folder
      /\ UNCHANGED <<server, next, cursor, queue, worker, spent>>
      /\ there \in SUBSET EmailID /\ \A id \in there : Exists(id) /\ rows[id].folder = request.source
      /\ \A s \in request.todo : MsgOf(s.id) \in Msg /\ s.id \in EmailID
      /\ \A s, t \in request.todo : MsgOf(s.id) = MsgOf(t.id) => s = t
      /\ \A s \in request.todo : \A id \in EmailID : MsgOf(id) = MsgOf(s.id) => ~LiveMove(id)
      /\ \A s \in request.todo : Named(s) =>
            \A id \in EmailID : MsgOf(id) = MsgOf(s.id) /\ Right(id) => id = s.id
  BY SnapshotType
     DEF QueuedInv, OrderedInv, RequestsCalm, Busy, BulkMoveByFilter, Shape, RequestShape, RowsIn, Exists
<1>1. CASE request' = RequestIdle /\ UNCHANGED <<rows, history>>
  <2>1. Quiet
    BY <1>0, <1>1, NothingMoved
  <2> QED BY <1>0, <2>1, QuietStep, CurKept
<1>2. CASE /\ ~Collides(there, request.target)
           /\ rows' = MovedTo(there, request.target)
           /\ Ordered(S, request.target)
           /\ dropped' = dropped \cup {MsgOf(id) : id \in there \ {s.id : s \in request.todo}}
           /\ request' = [request EXCEPT !.pc = "enqueue"]
  <2>1. /\ request'.pc = "enqueue" /\ request'.todo = request.todo
        /\ request'.target = request.target /\ request.target \in Folder
    BY <1>0, <1>2 DEF Shape, RequestState, RequestShape, Busy
  <2>2. /\ \A id \in there : rows'[id] = [folder |-> request.target, uid |-> rows[id].uid]
        /\ \A id \in EmailID \ there : rows'[id] = rows[id]
    BY <1>0, <1>2, <2>1, MovedToType
  <2>3. OneRow'
    <3>1. OneRow /\ ~Collides(there, request.target)
      BY <1>2 DEF QueuedInv
    <3>2. \A id \in there : rows'[id] \in {[folder |-> request.target, uid |-> rows[id].uid], NoRow}
      BY <2>2
    <3>3. \A id \in EmailID \ there : rows'[id] \in {rows[id], NoRow}
      BY <2>2
    <3>4. there \in SUBSET EmailID /\ \A id \in there : Exists(id)
      BY <1>0
    <3> HIDE DEF there
    <3> QED BY <3>1, <3>2, <3>3, <3>4, OneRowMoved
  <2>4. ASSUME NEW id \in there
        PROVE  /\ \A s \in request.todo : MsgOf(s.id) = MsgOf(id) =>
                     s.id = id /\ (Named(GetEmail(id)) <=> Named(s))
               /\ \A d \in EmailID : MsgOf(d) = MsgOf(id) => ~LiveMove(d)
    <3>1. /\ \A s \in request.todo : MsgOf(s.id) = MsgOf(id) =>
                s.id = id /\ SourceName(s.folder) = request.source /\ s.uid = rows[id].uid
          /\ \A d \in EmailID : MsgOf(d) = MsgOf(id) => ~LiveMove(d)
      BY <1>0 DEF QueuedInv, FilterCalm
    <3>2. SourceName(request.source) = request.source
      BY <1>0, ConstantsAssumption DEF SourceName, ConstantsAssumption
    <3> QED BY <1>0, <3>1, <3>2 DEF Named, GetEmail
  <2>5. \A s \in S : s \in request.todo \/ \E id \in there : s = GetEmail(id) /\ s.id = id
    BY DEF GetEmail
  <2>6. /\ \A m \in Msg : (m \notin dropped' \/ \E s \in request.todo : MsgOf(s.id) = m) =>
              wish'[m] = IF \E s \in request.todo : MsgOf(s.id) = m /\ Named(s)
                         THEN request.target ELSE wish[m]
        /\ \A id \in EmailID : LiveMove(id) => wish'[MsgOf(id)] = wish[MsgOf(id)]
        /\ dropped \subseteq dropped'
    <3>1. \A m \in Msg : wish'[m] = IF \E s \in S : MsgOf(s.id) = m /\ Named(s)
                                    THEN request.target ELSE wish[m]
      BY <1>2 DEF Ordered
    <3>2. ASSUME NEW m \in Msg, m \notin dropped' \/ \E s \in request.todo : MsgOf(s.id) = m
          PROVE  (\E s \in S : MsgOf(s.id) = m /\ Named(s)) <=>
                    \E s \in request.todo : MsgOf(s.id) = m /\ Named(s)
      <4>1. ASSUME NEW id \in there, MsgOf(id) = m, Named(GetEmail(id))
            PROVE  \E s \in request.todo : MsgOf(s.id) = m /\ Named(s)
        <5>1. \E s \in request.todo : MsgOf(s.id) = m
          BY <1>2, <3>2, <4>1
        <5> QED BY <2>4, <4>1, <5>1
      <4>2. request.todo \subseteq S
        OBVIOUS
      <4> HIDE DEF S, there
      <4> QED BY <2>5, <4>1, <4>2
    <3>3. ASSUME NEW id \in EmailID, LiveMove(id)
          PROVE  \A s \in S : MsgOf(s.id) # MsgOf(id)
      <4> HIDE DEF S, there
      <4> QED BY <1>0, <2>4, <2>5, <3>3
    <3>4. dropped \subseteq dropped'
      BY <1>2
    <3> HIDE DEF S, there
    <3> QED BY <3>1, <3>2, <3>3, <3>4, EmailIDs
  <2>7. \A id \in EmailID : LiveMove(id)' <=> LiveMove(id)
    BY <1>0 DEF LiveMove, MsgOf
  <2>8. ASSUME NEW id \in EmailID, Right(id)'
        PROVE  Right(id) \/ id \in there
    <3>1. CASE id \in there
      BY <3>1
    <3>2. CASE id \notin there
      BY <1>0, <2>2, <2>8, <3>2 DEF Right, Exists, MsgOf
    <3> QED BY <3>1, <3>2
  <2> HIDE DEF S, there
  <2>9. RightRows'
    <3>1. ASSUME NEW id \in EmailID, NEW d \in EmailID, Right(id)', LiveMove(d)', MsgOf(d) = MsgOf(id)
          PROVE  d = id
      BY <1>0, <2>4, <2>7, <2>8, <3>1 DEF QueuedInv, RightRows
    <3> QED BY <3>1 DEF RightRows, MsgOf
  <2>10. MovesWished'
    <3>1. ASSUME NEW id \in EmailID, LiveMove(id)'
          PROVE  queue'[id].target = wish'[MsgOf(id)]
      BY <1>0, <2>6, <2>7, <3>1 DEF QueuedInv, MovesWished
    <3> QED BY <3>1 DEF MovesWished, MsgOf
  <2>11. JobsQueued' /\ CurExecuted' /\ KeysFresh'
    <3>1. \A id \in EmailID : Awaited(id)' => Awaited(id)
      BY <1>0 DEF Awaited
    <3>2. \A j \in worker.todo : j.id \in EmailID
      BY <1>0 DEF Shape, TypeOK, Job
    <3>3. JobsQueued' /\ CurExecuted'
      BY <1>0 DEF QueuedInv, JobsQueued, CurExecuted, LiveJob, Same, MsgOf
    <3>4. \A j \in worker.todo : Awaited(j.id)' => Awaited(j.id)
      BY <3>1, <3>2
    <3>5. KeysFresh'
      BY <1>0, <3>1, <3>4 DEF QueuedInv, KeysFresh, Same, Awaited
    <3> QED BY <3>3, <3>5
  <2>12. RequestsCalm' /\ FilterCalm'
    <3>1. ASSUME NEW s \in request.todo
          PROVE  /\ \A id \in EmailID : MsgOf(id) = MsgOf(s.id) => ~LiveMove(id)'
                 /\ Named(s)' => \A id \in EmailID : MsgOf(id) = MsgOf(s.id) /\ Right(id)' => id = s.id
                 /\ Named(s)' => wish'[MsgOf(s.id)] = request.target
      <4>1. Named(s)' => Named(s)
        BY <1>0 DEF Named, MsgOf, SourceName
      <4> QED BY <1>0, <2>4, <2>6, <2>7, <2>8, <4>1
    <3> QED BY <1>0, <2>1, <3>1 DEF RequestsCalm, FilterCalm, MsgOf
  <2>13. WishesQueued'
    <3>1. ASSUME NEW m \in Msg, m \notin dropped', wish'[m] # NoFolder, ~IsOn(m, wish[m])',
                 NEW g \in Folder, IsOn(m, g)'
          PROVE  \/ \E id \in EmailID : MsgOf(id) = m /\ LiveMove(id)' /\ queue'[id].target = wish'[m]
                 \/ \E s \in request.todo : MsgOf(s.id) = m /\ Named(s)'
      <4>1. CASE \E s \in request.todo : MsgOf(s.id) = m /\ Named(s)
        BY <1>0, <4>1 DEF Named, MsgOf, SourceName
      <4>2. CASE ~(\E s \in request.todo : MsgOf(s.id) = m /\ Named(s))
        <5>1. wish'[m] = wish[m]
          BY <2>6, <3>1, <4>2
        <5>2. ~IsOn(m, wish[m]) /\ IsOn(m, g)
          BY <1>0, <3>1, <5>1 DEF IsOn
        <5>3. \E id \in EmailID : MsgOf(id) = m /\ LiveMove(id) /\ queue[id].target = wish[m]
          BY <1>0, <2>6, <3>1, <5>1, <5>2 DEF QueuedInv, WishesQueued, Queued
        <5> QED BY <1>0, <2>7, <5>1, <5>3
      <4> QED BY <4>1, <4>2
    <3> QED BY <2>1, <3>1 DEF WishesQueued, Queued, MsgOf
  <2> QED BY <2>3, <2>9, <2>10, <2>11, <2>12, <2>13 DEF QueuedInv
<1> QED BY <1>0, <1>1, <1>2 DEF BulkMoveByFilter, Answer

(* The steps of the worker.                                                *)
LEMMA SelectQuiet ==
    ASSUME QueuedInv, OrderedInv', Later, SelectSource
    PROVE  QueuedInv'
<1>1. /\ Shape /\ UNCHANGED <<server, next, cursor, rows, request, history>>
      /\ worker'.todo \subseteq worker.todo /\ worker'.pc # "complete"
      /\ spent'.moves = spent.moves
      /\ \A id \in EmailID :
            /\ queue'[id] = NoMove <=> queue[id] = NoMove
            /\ queue[id] # NoMove => Same(queue'[id], queue[id]) /\ queue'[id].key = queue[id].key
  BY SelectResult, FaultShape DEF QueuedInv, OrderedInv, SelectSource
<1>2. Quiet
  BY <1>1 DEF Quiet, LiveMove, history
<1> QED BY <1>1, <1>2, QuietStep, CurKept

LEMMA CompleteQuiet ==
    ASSUME QueuedInv, OrderedInv', Later, Complete
    PROVE  QueuedInv'
<1>1. /\ Shape /\ OrderedInv /\ UNCHANGED <<server, next, cursor, rows, request, history>>
      /\ worker.pc = "complete"
      /\ worker'.todo \subseteq worker.todo /\ worker'.pc # "complete"
      /\ \A id \in EmailID :
            queue'[id] = queue[id] \/ (queue'[id] = NoMove /\ id \in Current(worker.cur))
  BY CompleteResult DEF QueuedInv, OrderedInv
<1>2. spent'.moves = spent.moves
  BY <1>1, FaultShape DEF Complete
<1>3. ASSUME NEW id \in EmailID, LiveMove(id), queue'[id] = NoMove PROVE FALSE
  <2>1. queue[id] # NoMove /\ id \in Current(worker.cur)
    BY <1>1, <1>3 DEF LiveMove
  <2>2. PICK j \in worker.cur : j.id = id /\ queue[j.id] # NoMove /\ queue[j.id].key = j.key
    BY <2>1, CurrentIds
  <2>3. j \in worker.todo
    BY <1>1 DEF Shape, JobsShape
  <2>4. Same(queue[id], j)
    BY <2>2, <2>3 DEF QueuedInv, KeysFresh
  <2>5. ~LiveJob(j)
    BY <1>1 DEF QueuedInv, CurExecuted
  <2> QED BY <1>3, <2>2, <2>4, <2>5 DEF LiveMove, LiveJob, Same
<1>4. Quiet
  BY <1>1, <1>2, <1>3 DEF Quiet, Same, history
<1> QED BY <1>1, <1>4, QuietStep, CurKept

LEMMA PassQueued ==
    ASSUME QueuedInv, OrderedInv', Later, SyncMoves
    PROVE  QueuedInv'
<1>0. /\ Shape /\ worker'.todo = GetPendingIMAPMoves /\ worker'.pc = "select"
      /\ UNCHANGED <<server, next, cursor, rows, queue, request, history, spent>>
  BY DEF QueuedInv, OrderedInv, SyncMoves, Becomes, WorkerIdle
<1>1. Quiet
  BY <1>0, NothingMoved
<1>2. ASSUME NEW j \in worker'.todo
      PROVE  /\ j.id \in EmailID /\ queue'[j.id] # NoMove /\ queue'[j.id] = queue[j.id]
             /\ Same(queue[j.id], j) /\ j.key = queue[j.id].key
  BY <1>0, PendingMoves DEF Same
<1>3. JobsQueued'
  BY <1>2 DEF JobsQueued, Same
<1>4. CurExecuted'
  BY <1>0 DEF CurExecuted
<1>5. KeysFresh'
  <2>1. \A id \in EmailID : Awaited(id)' <=> Awaited(id)
    BY <1>0 DEF Awaited
  <2>2. \A j \in worker'.todo : Awaited(j.id)' <=> Awaited(j.id)
    BY <1>2, <2>1
  <2>3. \A j \in worker'.todo : /\ j.key <= spent.moves /\ (Awaited(j.id)' => j.key # spent.moves)
                                /\ Same(queue'[j.id], j)
    BY <1>2, <2>2 DEF QueuedInv, KeysFresh
  <2> QED BY <1>0, <2>1, <2>3 DEF QueuedInv, KeysFresh, Awaited, Same
<1> QED BY <1>1, <1>3, <1>4, <1>5, QuietRows, QuietWishes DEF QueuedInv

LEMMA ExecuteQueued ==
    ASSUME QueuedInv, OrderedInv', Later, MoveOne
    PROVE  QueuedInv'
<1>0. /\ Shape /\ OrderedInv /\ ServerOK /\ UNCHANGED <<cursor, rows, queue, request, history>>
      /\ worker'.todo \subseteq worker.todo /\ spent'.moves = spent.moves
  BY MoveOneResult, FaultShape DEF QueuedInv, OrderedInv, MoveOne
<1>1. PICK j \in worker.todo :
          /\ Execute(j) \/ UNCHANGED <<server, next>>
          /\ worker'.pc = "complete" => Execute(j) /\ worker'.cur = {j}
  BY <1>0, MoveOneResult
<1>2. /\ j \in Job /\ j.source \in Folder /\ j.target \in Folder /\ j.uid \in UID /\ j.id \in EmailID
      /\ MsgOf(j.id) \in Msg /\ MsgOf(j.id) # NoMsg
      /\ server[j.source][j.uid] \in {MsgOf(j.id), NoMsg}
  BY <1>0, EmailIDs, ConstantsAssumption
     DEF OrderedInv, JobsNamed, Names, Shape, TypeOK, Job, ConstantsAssumption
<1>3. CASE UNCHANGED server
  <2>1. Quiet
    BY <1>0, <1>3 DEF Quiet, Same, LiveMove, history
  <2>2. worker'.pc = "complete" => server[j.source][j.uid] = NoMsg
    <3>1. ASSUME worker'.pc = "complete", server[j.source][j.uid] # NoMsg PROVE FALSE
      <4>1. Taken(j.source, j.uid, j.target)
        BY <1>0, <1>1, <1>2, <3>1, ExecuteTakes
      <4> QED BY <1>0, <1>2, <1>3, <4>1, TakenValues
    <3> QED BY <3>1
  <2>3. CurExecuted'
    BY <1>1, <1>2, <1>3, <2>2 DEF CurExecuted, LiveJob, MsgOf
  <2> QED BY <1>0, <2>1, <2>3, QuietStep
<1>4. CASE Taken(j.source, j.uid, j.target)
  <2>1. /\ server[j.source][j.uid] = MsgOf(j.id) /\ server'[j.source][j.uid] = NoMsg
        /\ next[j.target] \in UID /\ server'[j.target][next[j.target]] = MsgOf(j.id)
        /\ server[j.target][next[j.target]] = NoMsg
        /\ \A g \in Folder, v \in UID :
              ~(g = j.target /\ v = next[j.target]) /\ ~(g = j.source /\ v = j.uid)
                  => server'[g][v] = server[g][v]
    <3>1. next[j.target] \in UID /\ server[j.target][next[j.target]] = NoMsg
      <4>1. next[j.target] \in UID
        BY <1>4 DEF Taken
      <4>2. ~(next[j.target] < next[j.target])
        BY <4>1 DEF UID
      <4> QED BY <1>0, <1>2, <4>1, <4>2 DEF ServerOK
    <3> QED BY <1>0, <1>2, <1>4, <3>1, TakenValues
  <2>2. queue[j.id] # NoMove /\ Same(queue[j.id], j) /\ LiveMove(j.id)
    BY <2>1 DEF QueuedInv, JobsQueued, LiveJob, LiveMove, Same
  <2>3. j.target = wish[MsgOf(j.id)]
    BY <1>2, <2>2 DEF QueuedInv, MovesWished, Same
  <2>4. IsOn(MsgOf(j.id), wish[MsgOf(j.id)])'
    BY <1>0, <2>1, <2>3 DEF IsOn, history
  <2>5. ASSUME NEW m \in Msg, m # MsgOf(j.id), NEW f \in Folder, NEW u \in UID
        PROVE  server'[f][u] = m <=> server[f][u] = m
    <3>1. m # NoMsg
      BY ConstantsAssumption DEF ConstantsAssumption
    <3> QED BY <1>2, <2>1, <2>5, <3>1
  <2>6. \A m \in Msg :
           \/ wish'[m] = wish[m] /\ \A f \in Folder, u \in UID : server'[f][u] = m <=> server[f][u] = m
           \/ wish'[m] = wish[m] /\ IsOn(m, wish[m])'
    BY <1>0, <2>4, <2>5 DEF IsOn, history
  <2>7. Quiet
    BY <1>0, <2>6 DEF Quiet, Same, LiveMove, history
  <2>8. CurExecuted'
    BY <1>1, <1>2, <2>1 DEF CurExecuted, LiveJob, MsgOf
  <2> QED BY <1>0, <2>7, <2>8, QuietStep
<1>5. Taken(j.source, j.uid, j.target) \/ UNCHANGED server
  BY <1>0, <1>1, <1>2, ExecuteTakes DEF Execute
<1> QED BY <1>3, <1>4, <1>5

LEMMA ReconcileQuiet ==
    ASSUME QueuedInv, OrderedInv', Later, ReconcileList \/ ReconcilePurge \/ Stop
    PROVE  QueuedInv'
<1>0. /\ Shape /\ UNCHANGED <<server, next, cursor, queue, request, history>>
      /\ \A id \in EmailID : rows'[id] \in {rows[id], NoRow}
      /\ spent'.moves = spent.moves
  BY FaultShape DEF QueuedInv, OrderedInv, ReconcileList, ReconcilePurge, Stop, DeleteRows
<1>1. worker'.todo \subseteq worker.todo /\ worker'.pc # "complete"
  <2>1. worker' = WorkerIdle => worker'.todo \subseteq worker.todo /\ worker'.pc # "complete"
    BY WorkerIdleShape
  <2>2. CASE ReconcilePurge \/ Stop
    BY <2>1, <2>2 DEF ReconcilePurge, Stop, Becomes
  <2>3. CASE ReconcileList
    <3>1. \A l : /\ [worker EXCEPT !.pc = "purge", !.listed = l].todo = worker.todo
                 /\ [worker EXCEPT !.pc = "purge", !.listed = l].pc = "purge"
      BY <1>0 DEF Shape, WorkerState
    <3> QED BY <2>1, <2>3, <3>1 DEF ReconcileList, Becomes
  <2> QED BY <2>2, <2>3
<1>2. Quiet
  BY <1>0 DEF Quiet, Same, LiveMove, history
<1> QED BY <1>0, <1>1, <1>2, QuietStep, CurKept

(* Another client.                                                         *)
LEMMA RemoteQuiet ==
    ASSUME QueuedInv, OrderedInv', Later, NEW f \in Folder, NEW u \in UID, Remote(f, u)
    PROVE  QueuedInv'
<1> DEFINE n == server[f][u]
<1>0. /\ Shape /\ ServerOK /\ n \in Msg /\ n # NoMsg
      /\ wish' = [wish EXCEPT ![n] = NoFolder]
      /\ UNCHANGED <<cursor, rows, queue, request, worker, ordered, dropped>>
      /\ spent'.moves = spent.moves
  BY RemoteCases, SpendShape, ConstantsAssumption
     DEF QueuedInv, OrderedInv, Remote, ConstantsAssumption
<1>1. wish'[n] = NoFolder /\ \A m \in Msg : m # n => wish'[m] = wish[m]
  BY <1>0 DEF Shape, TypeOK
<1>2. CASE \E t \in Folder \ {f} : Taken(f, u, t)
  <2>1. PICK t \in Folder \ {f} : Taken(f, u, t)
    BY <1>2
  <2>2. /\ next[t] \in UID /\ server'[t][next[t]] = n /\ server'[f][u] = NoMsg
        /\ \A g \in Folder, v \in UID :
              ~(g = t /\ v = next[t]) /\ ~(g = f /\ v = u) => server'[g][v] = server[g][v]
    BY <1>0, <2>1, TakenValues
  <2>3. server[t][next[t]] = NoMsg
    <3>1. ~(next[t] < next[t])
      BY <2>2 DEF UID
    <3> QED BY <1>0, <2>2, <3>1 DEF ServerOK
  <2>4. ASSUME NEW m \in Msg, m # n, NEW g \in Folder, NEW v \in UID
        PROVE  server'[g][v] = m <=> server[g][v] = m
    <3>1. m # NoMsg
      BY ConstantsAssumption DEF ConstantsAssumption
    <3> QED BY <2>2, <2>3, <2>4, <3>1
  <2>5. ASSUME NEW g \in Folder, NEW v \in UID, v <= cursor[g] PROVE server'[g][v] # n
    <3>1. v \in Nat /\ cursor[g] \in Nat /\ next[g] \in Nat /\ cursor[g] < next[g]
      BY <1>0 DEF Shape, TypeOK, UID
    <3>2. ~(g = t /\ v = next[t])
      BY <2>5, <3>1
    <3>3. CASE g = f /\ v = u
      BY <1>0, <2>2, <3>3
    <3>4. CASE ~(g = f /\ v = u)
      <4>1. server'[g][v] = server[g][v]
        BY <2>2, <3>2, <3>4
      <4> QED BY <1>0, <3>4, <4>1 DEF ServerOK
    <3> QED BY <3>3, <3>4
  <2> HIDE DEF n
  <2>6. Quiet
    BY <1>0, <1>1, <2>4, <2>5 DEF Quiet, Same, LiveMove
  <2> QED BY <1>0, <2>6, QuietStep, CurKept
<1>3. CASE server' = [server EXCEPT ![f][u] = NoMsg]
  <2>1. /\ server'[f][u] = NoMsg
        /\ \A g \in Folder, v \in UID : ~(g = f /\ v = u) => server'[g][v] = server[g][v]
    BY <1>0, <1>3 DEF Shape, TypeOK
  <2>2. ASSUME NEW m \in Msg, m # n, NEW g \in Folder, NEW v \in UID
        PROVE  server'[g][v] = m <=> server[g][v] = m
    <3>1. m # NoMsg
      BY ConstantsAssumption DEF ConstantsAssumption
    <3> QED BY <2>1, <2>2, <3>1
  <2>3. \A g \in Folder, v \in UID : server'[g][v] # n
    BY <1>0, <2>1 DEF ServerOK
  <2> HIDE DEF n
  <2>4. Quiet
    BY <1>0, <1>1, <2>2, <2>3 DEF Quiet, Same, LiveMove
  <2> QED BY <1>0, <2>4, QuietStep, CurKept
<1>4. (\E t \in Folder \ {f} : Taken(f, u, t)) \/ server' = [server EXCEPT ![f][u] = NoMsg]
  BY <1>0, RemoteCases
<1> QED BY <1>2, <1>3, <1>4

(* Two right rows of a message are one.                                    *)
LEMMA RightIsOne ==
    ASSUME Shape, ServerOK, OneRow, NEW id \in EmailID, NEW d \in EmailID,
           Right(id), Right(d), MsgOf(id) = MsgOf(d)
    PROVE  id = d
<1>1. rows[id].folder = rows[d].folder
  BY RightPlace DEF ServerOK
<1> QED BY <1>1 DEF OneRow, Right

LEMMA RequestQuiet ==
    ASSUME QueuedInv, OrderedInv', Later, Calm, Requested
    PROVE  QueuedInv'
<1>0. /\ Shape /\ OrderedInv /\ ServerOK /\ OneRow
      /\ UNCHANGED <<server, next, cursor, rows, queue, worker, history>>
      /\ request'.pc # "enqueue"
      /\ \A s \in request'.todo :
            /\ s.id \in EmailID /\ Exists(s.id) /\ Fresh(s.id)
            /\ SourceName(s.folder) = rows[s.id].folder /\ s.uid = rows[s.id].uid
      /\ \A s, t \in request'.todo : s.id = t.id => s = t
      /\ request'.pc = "filter" => \A id \in RowsIn(request'.source) : Exists(id) /\ Fresh(id)
  BY ReadCalm DEF QueuedInv, OrderedInv
<1>1. request.pc = "idle" /\ spent'.moves = spent.moves + 1
  <2>1. Spend("moves", MaxMoves) /\ request.pc = "idle"
    BY DEF Requested, MoveEmail, DeleteEmail, RestoreFromTrash, BulkAction, BulkActionByFilter, Read
  <2> QED BY <1>0, <2>1, SpendShape, ConstantsAssumption DEF ConstantsAssumption
<1>2. \A id \in EmailID : (LiveMove(id)' <=> LiveMove(id)) /\ (Right(id)' <=> Right(id))
  BY <1>0 DEF LiveMove, Right, Exists, MsgOf
<1>9. ASSUME NEW d \in EmailID, Exists(d), Fresh(d)
      PROVE  Right(d) /\ \A id \in EmailID : MsgOf(id) = MsgOf(d) => ~LiveMove(id)
  <2>1. Right(d) /\ queue[d] = NoMove
    BY <1>9 DEF Fresh, Right
  <2>2. \A id \in EmailID : LiveMove(id) /\ MsgOf(id) = MsgOf(d) => id = d
    BY <2>1 DEF QueuedInv, RightRows
  <2> QED BY <2>1, <2>2 DEF LiveMove
<1>3. ASSUME NEW s \in request'.todo
      PROVE  Right(s.id) /\ \A id \in EmailID : MsgOf(id) = MsgOf(s.id) => ~LiveMove(id)
  BY <1>0, <1>9
<1>4. OneRow' /\ RightRows' /\ MovesWished' /\ JobsQueued' /\ CurExecuted'
  <2>1. OneRow' /\ JobsQueued' /\ CurExecuted'
    BY <1>0 DEF QueuedInv, OneRow, Exists, MsgOf, JobsQueued, CurExecuted, LiveJob, Same
  <2>2. RightRows'
    BY <1>2 DEF QueuedInv, RightRows, MsgOf
  <2>3. MovesWished'
    BY <1>0, <1>2 DEF QueuedInv, MovesWished, MsgOf, history
  <2> QED BY <2>1, <2>2, <2>3
<1>5. RequestsCalm'
  <2>1. ASSUME NEW s \in request'.todo, NEW t \in request'.todo, MsgOf(s.id) = MsgOf(t.id)
        PROVE  s = t
    <3>1. s.id = t.id
      BY <1>0, <1>3, <2>1, RightIsOne
    <3> QED BY <1>0, <3>1
  <2>2. ASSUME NEW s \in request'.todo, NEW id \in EmailID, MsgOf(id) = MsgOf(s.id), Right(id)'
        PROVE  id = s.id
    BY <1>0, <1>2, <1>3, <2>2, RightIsOne
  <2>3. \A s \in request'.todo : \A id \in EmailID : MsgOf(id) = MsgOf(s.id) => ~LiveMove(id)'
    BY <1>2, <1>3
  <2> QED BY <1>0, <2>1, <2>2, <2>3 DEF RequestsCalm, MsgOf
<1>6. FilterCalm'
  <2>1. ASSUME request'.pc = "filter", NEW id \in EmailID, rows[id] # NoRow,
               rows[id].folder = request'.source
        PROVE  /\ \A s \in request'.todo : MsgOf(s.id) = MsgOf(id) =>
                     /\ s.id = id /\ SourceName(s.folder) = request'.source
                     /\ s.uid = rows[id].uid
               /\ \A d \in EmailID : MsgOf(d) = MsgOf(id) => ~LiveMove(d)'
    <3>1. Exists(id) /\ Fresh(id)
      BY <1>0, <2>1 DEF RowsIn
    <3>2. \A s \in request'.todo : MsgOf(s.id) = MsgOf(id) => s.id = id
      BY <1>0, <1>3, <1>9, <3>1, RightIsOne
    <3> QED BY <1>0, <1>2, <1>9, <2>1, <3>1, <3>2
  <2> QED BY <1>0, <2>1 DEF FilterCalm, RowsIn, SourceName, MsgOf
<1>7. KeysFresh'
  <2>1. spent.moves \in Nat /\ \A id \in EmailID : queue[id] # NoMove => queue[id].key \in Nat
    BY <1>0 DEF Shape, TypeOK, Move
  <2>2. ASSUME NEW id \in EmailID, queue[id] # NoMove
        PROVE  queue[id].key <= spent'.moves /\ queue[id].key # spent'.moves
    <3>1. queue[id].key <= spent.moves
      BY <2>2 DEF QueuedInv, KeysFresh
    <3> QED BY <1>1, <2>1, <2>2, <3>1
  <2>3. ASSUME NEW j \in worker.todo
        PROVE  j.key <= spent'.moves /\ j.key # spent'.moves
    <3>1. j.key <= spent.moves /\ j.key \in Nat
      BY <1>0 DEF QueuedInv, KeysFresh, Shape, TypeOK, Job
    <3> QED BY <1>1, <2>1, <3>1
  <2> QED BY <1>0, <2>2, <2>3 DEF QueuedInv, KeysFresh, Same
<1>8. WishesQueued'
  <2>1. ASSUME NEW m \in Msg \ dropped, wish[m] # NoFolder, ~IsOn(m, wish[m]),
               NEW g \in Folder, IsOn(m, g)
        PROVE  \E id \in EmailID : MsgOf(id) = m /\ LiveMove(id) /\ queue[id].target = wish[m]
    BY <1>1, <2>1 DEF QueuedInv, WishesQueued, Queued
  <2> QED BY <1>0, <1>2, <2>1 DEF WishesQueued, Queued, IsOn, MsgOf, history
<1> QED BY <1>4, <1>5, <1>6, <1>7, <1>8 DEF QueuedInv

(* The row of a message that is found beyond the cursor.                   *)
LEMMA TargetRow ==
    ASSUME OneRow, NEW m, NEW f,
           NEW id \in TargetRows(m, f), NEW d \in TargetRows(m, f)
    PROVE  /\ id \in EmailID /\ MsgOf(id) = m /\ id = d
           /\ \A e \in EmailID : Exists(e) /\ rows[e].folder = f /\ MsgOf(e) = m => e = id
<1> DEFINE known == {e \in RowsIn(f) : MsgOf(e) = m}
<1>1. CASE known # {}
  <2>1. id \in known /\ d \in known
    BY <1>1 DEF TargetRows
  <2>2. known \subseteq EmailID /\ \A e \in known : Exists(e) /\ rows[e].folder = f /\ MsgOf(e) = m
    BY DEF RowsIn, Exists
  <2> HIDE DEF known
  <2> QED BY <2>1, <2>2 DEF OneRow
<1>2. CASE known = {}
  <2>1. /\ id \in EmailID /\ MsgOf(id) = m /\ d \in EmailID /\ MsgOf(d) = m
        /\ id[2] <= d[2] /\ d[2] <= id[2]
    BY <1>2 DEF TargetRows
  <2>2. id[2] = d[2] /\ id[1] = d[1]
    BY <2>1, EmailIDs DEF MsgOf
  <2>3. id = <<id[1], id[2]>> /\ d = <<d[1], d[2]>>
    BY <2>1 DEF EmailID
  <2>4. \A e \in EmailID : ~(Exists(e) /\ rows[e].folder = f /\ MsgOf(e) = m)
    BY <1>2 DEF RowsIn, Exists
  <2> QED BY <2>1, <2>2, <2>3, <2>4
<1> QED BY <1>1, <1>2

LEMMA SyncQueued ==
    ASSUME QueuedInv, OrderedInv', Later, "arrival" \notin Hazards, NEW f \in Folder, SyncFolder(f)
    PROVE  QueuedInv'
<1> DEFINE Gets(id, u) == u \in Found(f) /\ id \in TargetRows(server[f][u], f)
<1>0. /\ Shape /\ OrderedInv /\ ServerOK /\ OneRow /\ request.pc # "filter"
      /\ UNCHANGED <<server, next, queue, request, history, spent>>
      /\ worker'.todo = {} /\ worker'.pc = "list"
      /\ cursor' = [cursor EXCEPT ![f] = LastUID(f)]
  BY DEF QueuedInv, OrderedInv, SyncFolder, Becomes, WorkerIdle
<1>1. ASSUME NEW id \in EmailID, NEW u, Gets(id, u)
      PROVE  /\ u \in UID /\ server[f][u] = MsgOf(id) /\ MsgOf(id) # NoMsg /\ ~(u <= cursor[f])
             /\ \A e \in EmailID :
                   Exists(e) /\ rows[e].folder = f /\ MsgOf(e) = MsgOf(id) => e = id
  <2>1. u \in UID /\ server[f][u] # NoMsg /\ u > cursor[f] /\ id \in TargetRows(server[f][u], f)
    BY <1>1 DEF Found
  <2>2. ~(u <= cursor[f])
    BY <1>0, <2>1 DEF UID, Shape, TypeOK
  <2> QED BY <1>0, <2>1, <2>2, TargetRow
<1>2. ASSUME NEW id \in EmailID
      PROVE  \/ rows'[id] = rows[id] /\ \A u : ~Gets(id, u)
             \/ rows'[id].folder = f /\ Gets(id, rows'[id].uid)
  <2>1. CASE \E u : Gets(id, u)
    <3>1. rows'[id] = [folder |-> f,
                       uid |-> CHOOSE u \in Found(f) : id \in TargetRows(server[f][u], f)]
      BY <2>1 DEF SyncFolder
    <3>2. Gets(id, CHOOSE u \in Found(f) : id \in TargetRows(server[f][u], f))
      BY <2>1
    <3> QED BY <3>1, <3>2
  <2>2. CASE \A u : ~Gets(id, u)
    BY <2>2 DEF SyncFolder
  <2> QED BY <2>1, <2>2
<1>3. ASSUME NEW id \in EmailID, NEW d \in EmailID, NEW u, NEW v, Gets(id, u), Gets(d, v),
             MsgOf(id) = MsgOf(d)
      PROVE  id = d
  <2>1. u = v /\ server[f][u] = MsgOf(id)
    BY <1>0, <1>1, <1>3 DEF ServerOK
  <2> QED BY <1>0, <1>3, <2>1, TargetRow
<1> HIDE DEF Gets
<1>4. OneRow'
  <2>1. ASSUME NEW id \in EmailID, NEW d \in EmailID, rows'[id] # NoRow, rows'[d] # NoRow,
               MsgOf(id) = MsgOf(d), rows'[id].folder = rows'[d].folder
        PROVE  id = d
    <3>1. CASE rows'[id] = rows[id] /\ rows'[d] = rows[d]
      BY <1>0, <2>1, <3>1 DEF OneRow, Exists
    <3>2. CASE rows'[id] = rows[id] /\ rows'[d].folder = f /\ Gets(d, rows'[d].uid)
      BY <1>1, <2>1, <3>2 DEF Exists
    <3>3. CASE rows'[id].folder = f /\ Gets(id, rows'[id].uid) /\ rows'[d] = rows[d]
      BY <1>1, <2>1, <3>3 DEF Exists
    <3>4. CASE Gets(id, rows'[id].uid) /\ Gets(d, rows'[d].uid)
      BY <1>3, <2>1, <3>4
    <3> QED BY <1>2, <3>1, <3>2, <3>3, <3>4
  <2> QED BY <2>1 DEF OneRow, Exists, MsgOf
<1>5. \A id \in EmailID : LiveMove(id)' <=> LiveMove(id)
  BY <1>0 DEF LiveMove, MsgOf
(* A row that is right now was right before, or shows a message that is    *)
(* beyond every UID known so far.                                          *)
<1>6. ASSUME NEW id \in EmailID, Right(id)'
      PROVE  \/ Right(id)
             \/ \E u \in UID : ~(u <= cursor[f]) /\ server[f][u] = MsgOf(id)
  <2>0. rows'[id] # NoRow /\ rows'[id].uid <= cursor'[rows'[id].folder]
        /\ server[rows'[id].folder][rows'[id].uid] = MsgOf(id)
    BY <1>0, <1>6 DEF Right, Exists, MsgOf
  <2>1. CASE Gets(id, rows'[id].uid)
    BY <1>1, <2>1
  <2>2. CASE rows'[id] = rows[id] /\ rows[id].folder # f
    <3>1. Exists(id) /\ rows[id].folder \in Folder
      BY <1>0, <2>0, <2>2, GetEmailType DEF Exists, Row
    <3>2. cursor'[rows[id].folder] = cursor[rows[id].folder]
      BY <1>0, <2>2, <3>1 DEF Shape, TypeOK
    <3> QED BY <2>0, <2>2, <3>1, <3>2 DEF Right
  <2>3. CASE rows'[id] = rows[id] /\ rows[id].folder = f
    <3>1. Exists(id) /\ rows[id].uid \in UID
      BY <1>0, <2>0, <2>3, GetEmailType DEF Exists, Row
    <3> QED BY <2>0, <2>3, <3>1 DEF Right
  <2> QED BY <1>2, <2>1, <2>2, <2>3
<1>7. ASSUME NEW id \in EmailID, Right(id)', NEW g \in Folder, NEW v \in UID, v <= cursor[g],
             server[g][v] = MsgOf(id), MsgOf(id) # NoMsg
      PROVE  Right(id)
  BY <1>0, <1>6, <1>7 DEF ServerOK
<1>8. RightRows'
  <2>1. ASSUME NEW id \in EmailID, NEW d \in EmailID, Right(id)', LiveMove(d), MsgOf(d) = MsgOf(id)
        PROVE  d = id
    <3>1. Right(id)
      BY <1>0, <1>7, <2>1, LivePlace
    <3> QED BY <2>1, <3>1 DEF QueuedInv, RightRows
  <2> QED BY <1>5, <2>1 DEF RightRows, MsgOf
<1>9. MovesWished' /\ JobsQueued' /\ CurExecuted' /\ KeysFresh'
  <2>1. MovesWished'
    BY <1>0, <1>5 DEF QueuedInv, MovesWished, MsgOf, history
  <2>2. \A id \in EmailID : Awaited(id)' <=> Awaited(id)
    BY <1>0 DEF Awaited
  <2>3. JobsQueued' /\ CurExecuted'
    BY <1>0 DEF JobsQueued, CurExecuted
  <2>4. KeysFresh'
    BY <1>0, <2>2 DEF QueuedInv, KeysFresh, Awaited
  <2> QED BY <2>1, <2>3, <2>4
<1>10. RequestsCalm' /\ FilterCalm'
  <2>1. ASSUME request.pc \in Busy, NEW s \in request.todo, Named(s), NEW id \in EmailID,
               MsgOf(id) = MsgOf(s.id), Right(id)'
        PROVE  id = s.id
    <3>1. /\ SourceName(s.folder) \in Folder /\ s.uid \in UID /\ s.uid <= cursor[SourceName(s.folder)]
          /\ server[SourceName(s.folder)][s.uid] = MsgOf(id) /\ MsgOf(id) # NoMsg
      BY <1>0, <2>1, EmailIDs, ConstantsAssumption
         DEF OrderedInv, RequestNamed, Names, Named, ConstantsAssumption
    <3>2. Right(id)
      BY <1>7, <2>1, <3>1
    <3> QED BY <2>1, <3>2 DEF QueuedInv, RequestsCalm
  <2>2. \A s \in request.todo : Named(s)' <=> Named(s)
    BY <1>0 DEF Named, MsgOf, SourceName
  <2>3. RequestsCalm'
    BY <1>0, <1>5, <2>1, <2>2 DEF QueuedInv, RequestsCalm, MsgOf, history
  <2> QED BY <1>0, <2>3 DEF FilterCalm
<1>11. WishesQueued'
  <2>1. \A s \in request.todo : Named(s)' <=> Named(s)
    BY <1>0 DEF Named, MsgOf, SourceName
  <2>2. \A m \in Msg : Queued(m) => Queued(m)'
    BY <1>0, <1>5, <2>1 DEF Queued, MsgOf, history
  <2> QED BY <1>0, <2>2 DEF QueuedInv, WishesQueued, IsOn, history
<1> QED BY <1>4, <1>8, <1>9, <1>10, <1>11 DEF QueuedInv

LEMMA QueuedInit == Init => QueuedInv
<1> SUFFICES ASSUME Init PROVE QueuedInv
  OBVIOUS
<1>1. OrderedInv /\ Shape
  BY OrderedInit DEF OrderedInv
<1>2. /\ \A id \in EmailID : queue[id] = NoMove
      /\ \A m \in Msg : wish[m] = NoFolder
      /\ request.pc = "idle" /\ worker.todo = {} /\ worker.pc = "idle"
  BY RequestIdleShape, WorkerIdleShape DEF Init
<1>3. \A id \in EmailID : rows[id] # NoRow => id[2] = 1
  BY DEF Init
<1>4. OneRow
  <2>1. ASSUME NEW id \in EmailID, NEW d \in EmailID, id[2] = d[2], id[1] = d[1] PROVE id = d
    BY <2>1 DEF EmailID
  <2> QED BY <1>3, <2>1 DEF OneRow, Exists, MsgOf
<1>5. KeysFresh /\ MovesWished /\ JobsQueued /\ CurExecuted /\ RightRows
  BY <1>2 DEF KeysFresh, MovesWished, JobsQueued, CurExecuted, RightRows, LiveMove
<1>6. RequestsCalm /\ FilterCalm /\ WishesQueued
  BY <1>2 DEF RequestsCalm, FilterCalm, WishesQueued, Busy
<1> QED BY <1>1, <1>4, <1>5, <1>6 DEF QueuedInv

LEMMA QueuedNext == ASSUME CalmArrival PROVE QueuedInv /\ [Next]_vars => QueuedInv'
<1> SUFFICES ASSUME QueuedInv, [Next]_vars PROVE QueuedInv'
  OBVIOUS
<1>0. /\ Calm /\ "arrival" \notin Hazards /\ Shape /\ ServerOK /\ OrderedInv
  BY DEF CalmArrival, QueuedInv, OrderedInv
<1>1. OrderedInv' /\ Later
  BY <1>0, OrderedNext, LaterStep
<1>2. CASE RequestStep
  BY <1>1, <1>2, MoveQueued, EraseQuiet, BulkQueued, FilterQueued, EnqueueQueued DEF RequestStep
<1>3. CASE WorkerStep \/ Stop
  BY <1>1, <1>3, SelectQuiet, ExecuteQueued, CompleteQuiet, ReconcileQuiet DEF WorkerStep
<1>4. CASE SyncMoves \/ (\E f \in Folder : SyncFolder(f))
  BY <1>0, <1>1, <1>4, PassQueued, SyncQueued
<1>5. CASE \E f \in Folder, u \in UID : Remote(f, u)
  BY <1>1, <1>5, RemoteQuiet
<1>6. CASE Requested
  BY <1>0, <1>1, <1>6, RequestQuiet
<1>7. CASE UNCHANGED vars
  <2>1. /\ UNCHANGED <<server, cursor, rows, queue, history>> /\ UNCHANGED <<request, worker, spent>>
    BY <1>7 DEF vars
  <2>2. Quiet
    BY <1>0, <2>1, NothingMoved
  <2> QED BY <1>1, <2>1, <2>2, QuietStep, CurKept
<1> QED BY <1>2, <1>3, <1>4, <1>5, <1>6, <1>7 DEF Next, Requested

LEMMA QueuedIsEnough == QueuedInv => MovesQueued
<1> SUFFICES ASSUME QueuedInv, NEW m \in Msg \ dropped, wish[m] # NoFolder, ~IsOn(m, wish[m]),
                    NEW f \in Folder, IsOn(m, f)
             PROVE  \/ \E id \in EmailID : MsgOf(id) = m /\ queue[id] # NoMove
                                           /\ queue[id].target = wish[m]
                    \/ \E s \in request.todo : request.pc = "enqueue" /\ MsgOf(s.id) = m
  BY DEF MovesQueued
<1>1. Queued(m)
  BY DEF QueuedInv, WishesQueued
<1> QED BY <1>1 DEF Queued, LiveMove

(* Whatever other clients do, whatever fails and whenever the worker       *)
(* stops: while the server has a message elsewhere than where the user     *)
(* last moved it, its move is pending, as long as the user moves messages  *)
(* one after the other, in bulk only from INBOX, and none arrives between  *)
(* the two statements of a bulk move by filter (MoveEmailAndEnqueueIMAP,   *)
(* BulkMoveByFilter, syncMoves).                                           *)
THEOREM MovesAreKept == ASSUME CalmArrival PROVE Spec => []MovesQueued
<1>1. CalmArrival
  OBVIOUS
<1>2. QueuedInv /\ [Next]_vars => QueuedInv'
  BY <1>1, QueuedNext
<1> QED BY QueuedInit, <1>2, QueuedIsEnough, PTL DEF Spec

=============================================================================
