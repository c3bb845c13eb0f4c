------------------------------ MODULE SyncQueue ------------------------------
(***************************************************************************)
(* The email_sync_queue table of one IMAP folder and the goroutines around *)
(* it: the checkers that enqueue the UIDs they discover (EnqueueUIDs), the *)
(* sync workers that dequeue a batch, fetch it from the server and settle  *)
(* each task (consumerLoop, processTasks), the queue manager that gives    *)
(* failed tasks another attempt and deletes old rows (ProcessQueueRetries, *)
(* CleanQueueGarbage), and the UIDVALIDITY reset that empties the folder's *)
(* queue (ClearFolderQueue).                                               *)
(*                                                                         *)
(* Every SQL statement or transaction is one step.  Between two of them    *)
(* any other goroutine may run, the process may die, and a status update   *)
(* whose error the code ignores may be lost.  More than one worker models  *)
(* the overlap of a cancelled worker with the one that replaces it.        *)
(*                                                                         *)
(* Abstractions: the order in which a batch is picked (priority, creation  *)
(* time) is left open; `age' counts coarse units since a row's updated_at. *)
(***************************************************************************)
EXTENDS Naturals, FiniteSets

CONSTANTS
    UID,          \* the UIDs of the folder
    Worker,       \* sync workers of the account that may overlap
    NoRow,        \* the absence of a queue row
    BatchLimit,   \* rows one dequeue may take (50 in the code)
    MaxAttempts,  \* attempts after which a failure is permanent (5 in the code)
    RetryUnit,    \* age unit of the exponential retry backoff (30 s)
    ReclaimAge,   \* age at which a 'processing' row is taken over (5 min)
    DoneAge,      \* retention of completed rows (24 h)
    FailedAge,    \* retention of permanently failed rows (7 days)
    MaxAge,       \* bound: ages are not told apart beyond this one
    MaxEnqueues,  \* bound: number of EnqueueUIDs transactions
    FaultKinds,   \* which faults the environment injects
    MaxFaults     \* bound: number of injected faults

ASSUME ConstantsAssumption ==
    /\ NoRow \notin [gen : Nat, status : {"pending", "processing", "completed", "failed"},
                     attempts : Nat, age : Nat]
    /\ BatchLimit \in Nat \ {0}
    /\ MaxAttempts \in Nat \ {0}
    /\ {RetryUnit, ReclaimAge, DoneAge, FailedAge, MaxAge} \subseteq Nat
    /\ MaxEnqueues \in Nat
    /\ FaultKinds \subseteq {"stop", "write", "stream", "unattributed"}
    /\ MaxFaults \in Nat

VARIABLES
    queue,     \* UID -> row of email_sync_queue, or NoRow
    gen,       \* EnqueueUIDs transactions committed so far
    worker,    \* Worker -> what the goroutine is doing
    retry,     \* ids ProcessQueueRetries has read and not yet updated
    server,    \* UIDs present in the folder on the IMAP server
    stored,    \* UIDs with a local copy in the emails table
    promised,  \* UIDs enqueued since the last reset and not given up (history)
    faults     \* faults injected so far

vars == <<queue, gen, worker, retry, server, stored, promised, faults>>

------------------------------------------------------------------------------
(* Rows and tasks.                                                         *)

Status == {"pending", "processing", "completed", "failed"}

Row == [gen : Nat, status : Status, attempts : Nat, age : Nat]

(* The id of a row is AUTOINCREMENT and never reused: the UID together     *)
(* with the transaction that inserted the row stands for it.               *)
Task == [uid : UID, gen : Nat]

TaskOf(u) == [uid |-> u, gen |-> queue[u].gen]

HasRow(u) == queue[u] # NoRow

(* Mutant: statements address a row by its UID instead of its id.          *)
LiveByUID(t) == HasRow(t.uid)

(* A statement with WHERE id = ? finds the row only while it still exists. *)
Live(t) == HasRow(t.uid) /\ queue[t.uid].gen = t.gen

Exhausted(u) ==
    HasRow(u) /\ queue[u].status = "failed" /\ queue[u].attempts >= MaxAttempts

(* SET status = s, updated_at = CURRENT_TIMESTAMP.                         *)
Touch(row, s) == [row EXCEPT !.status = s, !.age = 0]

(* The same with attempts = attempts + 1.                                  *)
Claim(row) == [row EXCEPT !.status = "processing", !.age = 0, !.attempts = @ + 1]

(* UPDATE ... WHERE id IN T.                                               *)
SetStatus(T, s) ==
    [u \in UID |-> IF \E t \in T : t.uid = u /\ Live(t) THEN Touch(queue[u], s)
                   ELSE queue[u]]

Inject(kind) == kind \in FaultKinds /\ faults < MaxFaults /\ faults' = faults + 1

(* A status update whose error the caller ignores: it is applied, or it is *)
(* lost when the database refuses the write.                               *)
Write(T, s) ==
    \/ queue' = SetStatus(T, s) /\ UNCHANGED faults
    \/ Inject("write") /\ UNCHANGED queue

------------------------------------------------------------------------------
(* Worker states.                                                          *)

WorkerPC == {"stopped", "idle", "select", "failing", "fetching", "settling", "purging", "closing"}

(* tasks: the batch still to be settled; blind: tasks whose message came   *)
(* back but failed before its UID was known; doing, stored: the message in *)
(* hand and whether it was ingested.                                       *)
WorkerState == [pc : WorkerPC, tasks : SUBSET Task, blind : SUBSET Task,
                doing : SUBSET Task, ok : BOOLEAN]

AtRest(pc) == [pc |-> pc, tasks |-> {}, blind |-> {}, doing |-> {}, ok |-> FALSE]

Goto(w, pc, T) == worker' = [worker EXCEPT ![w] = [AtRest(pc) EXCEPT !.tasks = T]]

Init ==
    /\ queue = [u \in UID |-> NoRow]
    /\ gen = 0
    /\ worker = [w \in Worker |-> AtRest("stopped")]
    /\ retry = {}
    /\ server = UID
    /\ stored = {}
    /\ promised = {}
    /\ faults = 0

------------------------------------------------------------------------------
(* Enqueuers.                                                              *)

(* Mutant: a re-enqueued task gets an attempt back.                        *)
RequeuedRefund(row) ==
    IF row.status = "completed" THEN row
    ELSE [row EXCEPT !.status = "pending", !.age = 0, !.attempts = @ - 1]

(* ON CONFLICT DO UPDATE ... WHERE status != 'completed'.                  *)
Requeued(row) ==
    IF row.status = "completed" THEN row
    ELSE Touch(row, "pending")

(* EnqueueUIDs: insert the new UIDs, put the known ones back to pending    *)
(* unless they are completed; attempts are kept.                           *)
Enqueue(S) ==
    /\ S # {}
    /\ gen < MaxEnqueues
    /\ gen' = gen + 1
    /\ queue' = [u \in UID |->
          IF u \notin S THEN queue[u]
          ELSE IF ~HasRow(u)
               THEN [gen |-> gen + 1, status |-> "pending", attempts |-> 0, age |-> 0]
          ELSE Requeued(queue[u])]
    /\ promised' = promised \cup S
    /\ UNCHANGED <<worker, retry, server, stored, faults>>

(* ClearFolderQueue, on a UIDVALIDITY change: the old UIDs mean nothing.   *)
ClearFolder ==
    /\ \E u \in UID : HasRow(u)
    /\ queue' = [u \in UID |-> NoRow]
    /\ promised' = {}
    /\ UNCHANGED <<gen, worker, retry, server, stored, faults>>

------------------------------------------------------------------------------
(* Sync workers.                                                           *)

Start(w) ==
    /\ worker[w].pc = "stopped"
    /\ Goto(w, "idle", {})
    /\ UNCHANGED <<queue, gen, retry, server, stored, promised, faults>>

(* The worker is cancelled or the process dies: rows stay 'processing'.    *)
Stop(w) ==
    /\ worker[w].pc # "stopped"
    /\ Inject("stop")
    /\ Goto(w, "stopped", {})
    /\ UNCHANGED <<queue, gen, retry, server, stored, promised>>

(* Mutant: rows of a dead worker are not taken over.                       *)
EligiblePending(u) == HasRow(u) /\ queue[u].status = "pending"

Eligible(u) ==
    /\ HasRow(u)
    /\ \/ queue[u].status = "pending"
       \/ queue[u].status = "processing" /\ queue[u].age >= ReclaimAge

(* DequeueUIDs: one UPDATE ... WHERE id IN (SELECT ... LIMIT) RETURNING.   *)
Dequeue(w) ==
    /\ worker[w].pc = "idle"
    /\ \E S \in SUBSET {u \in UID : Eligible(u)} :
          /\ S # {}
          /\ Cardinality(S) <= BatchLimit
          /\ Cardinality(S) = BatchLimit \/ \A u \in UID : Eligible(u) => u \in S
          /\ queue' = [u \in UID |->
                IF u \in S THEN Claim(queue[u]) ELSE queue[u]]
          /\ Goto(w, "select", {TaskOf(u) : u \in S})
    /\ UNCHANGED <<gen, retry, server, stored, promised, faults>>

(* SELECT of the folder: when it fails every task of the batch is failed.  *)
Select(w) ==
    /\ worker[w].pc = "select"
    /\ \E pc \in {"fetching", "failing"} : Goto(w, pc, worker[w].tasks)
    /\ UNCHANGED <<queue, gen, retry, server, stored, promised, faults>>

FailNext(w) ==
    /\ worker[w].pc = "failing"
    /\ \E t \in worker[w].tasks :
          /\ Write({t}, "failed")
          /\ LET rest == worker[w].tasks \ {t}
             IN Goto(w, IF rest = {} THEN "idle" ELSE "failing", rest)
    /\ UNCHANGED <<gen, retry, server, stored, promised>>

(* The stream returns a message: ProcessMessageStreamToFolder saves it, or *)
(* fails and reports its UID.                                              *)
Ingest(w) ==
    /\ worker[w].pc = "fetching"
    /\ \E t \in worker[w].tasks, ok \in BOOLEAN :
          /\ t.uid \in server
          /\ stored' = IF ok THEN stored \cup {t.uid} ELSE stored
          /\ worker' = [worker EXCEPT ![w].pc = "settling", ![w].doing = {t},
                                      ![w].ok = ok, ![w].tasks = @ \ {t}]
    /\ UNCHANGED <<queue, gen, retry, server, promised, faults>>

(* ... or it fails with UID 0 (folder lookup, temporary file, directory):  *)
(* the task is not found in taskMap and stays there.                       *)
IngestUnattributed(w) ==
    /\ worker[w].pc = "fetching"
    /\ Inject("unattributed")
    /\ \E t \in worker[w].tasks :
          /\ t.uid \in server
          /\ worker' = [worker EXCEPT ![w].tasks = @ \ {t}, ![w].blind = @ \cup {t}]
    /\ UNCHANGED <<queue, gen, retry, server, stored, promised>>

(* Mutant: the error of the ingest is dropped.                             *)
OutcomeIgnored(ok) == "completed"

Outcome(ok) == IF ok THEN "completed" ELSE "failed"

(* CompleteSyncTask or FailSyncTask of the message in hand.                *)
Settle(w) ==
    /\ worker[w].pc = "settling"
    /\ Write(worker[w].doing, Outcome(worker[w].ok))
    /\ worker' = [worker EXCEPT ![w].pc = "fetching", ![w].doing = {}, ![w].ok = FALSE]
    /\ UNCHANGED <<gen, retry, server, stored, promised>>

(* cmd.Next() returned nil: the server has sent every message it has, or   *)
(* the connection broke.  What is left in taskMap is taken to be expunged. *)
EndOfStream(w) ==
    /\ worker[w].pc = "fetching"
    /\ \/ (\A t \in worker[w].tasks : t.uid \notin server) /\ UNCHANGED faults
       \/ Inject("stream")
    /\ LET missing == worker[w].tasks \cup worker[w].blind
       IN Goto(w, IF missing = {} THEN "idle" ELSE "purging", missing)
    /\ UNCHANGED <<queue, gen, retry, server, stored, promised>>

(* Delete the local copies of the missing UIDs; a failed lookup is skipped. *)
PurgeMissing(w) ==
    /\ worker[w].pc = "purging"
    /\ \E P \in SUBSET {t.uid : t \in worker[w].tasks} : stored' = stored \ P
    /\ Goto(w, "closing", worker[w].tasks)
    /\ UNCHANGED <<queue, gen, retry, server, promised, faults>>

(* CompleteSyncTasks of all of them.                                       *)
CompleteMissing(w) ==
    /\ worker[w].pc = "closing"
    /\ Write(worker[w].tasks, "completed")
    /\ Goto(w, "idle", {})
    /\ UNCHANGED <<gen, retry, server, stored, promised>>

------------------------------------------------------------------------------
(* Queue manager.                                                          *)

Backoff(n) == RetryUnit * 2 ^ (n - 1)

(* Mutant: a failed task is retried at once, whatever its attempts.        *)
RetryableForEver(u) == HasRow(u) /\ queue[u].status = "failed"

(* ProcessQueueRetries reads the failed rows whose backoff has passed ...  *)
Retryable(u) ==
    /\ HasRow(u)
    /\ queue[u].status = "failed"
    /\ queue[u].attempts < MaxAttempts
    /\ queue[u].age >= Backoff(queue[u].attempts)

(* 1 << (attempts - 1): a failed row that was never attempted ends the     *)
(* call before it has selected anything.                                   *)
Panics == \E u \in UID : HasRow(u) /\ queue[u].status = "failed" /\ queue[u].attempts = 0

RetrySelect ==
    /\ retry = {} /\ ~Panics
    /\ \E u \in UID : Retryable(u)
    /\ retry' = {TaskOf(u) : u \in {v \in UID : Retryable(v)}}
    /\ UNCHANGED <<queue, gen, worker, server, stored, promised, faults>>

(* ... and sets them to pending by id, whatever became of them meanwhile.  *)
RetryApply ==
    /\ retry # {}
    /\ Write(retry, "pending")
    /\ retry' = {}
    /\ UNCHANGED <<gen, worker, server, stored, promised>>

(* Mutant: every old failed row is deleted, also one that has attempts left. *)
GarbageAnyFailed(u) ==
    /\ HasRow(u)
    /\ \/ queue[u].status = "completed" /\ queue[u].age >= DoneAge
       \/ queue[u].status = "failed" /\ queue[u].age >= FailedAge

Garbage(u) ==
    /\ HasRow(u)
    /\ \/ queue[u].status = "completed" /\ queue[u].age >= DoneAge
       \/ Exhausted(u) /\ queue[u].age >= FailedAge

(* CleanQueueGarbage.  A permanently failed row is given up with it.       *)
CollectGarbage ==
    /\ \E u \in UID : Garbage(u)
    /\ queue' = [u \in UID |-> IF Garbage(u) THEN NoRow ELSE queue[u]]
    /\ promised' = promised \ {u \in UID : Garbage(u) /\ Exhausted(u)}
    /\ UNCHANGED <<gen, worker, retry, server, stored, faults>>

------------------------------------------------------------------------------
(* Environment.                                                            *)

(* Time passes.  The age of a pending row is never read and stays 0.       *)
Ageing(u) == HasRow(u) /\ queue[u].status # "pending" /\ queue[u].age < MaxAge

Tick ==
    /\ \E u \in UID : Ageing(u)
    /\ queue' = [u \in UID |-> IF Ageing(u) THEN [queue[u] EXCEPT !.age = @ + 1]
                               ELSE queue[u]]
    /\ UNCHANGED <<gen, worker, retry, server, stored, promised, faults>>

(* Another client deletes a message on the server.                         *)
Expunge(u) ==
    /\ u \in server
    /\ server' = server \ {u}
    /\ UNCHANGED <<queue, gen, worker, retry, stored, promised, faults>>

WorkerStep(w) ==
    \/ Dequeue(w) \/ Select(w) \/ FailNext(w)
    \/ Ingest(w) \/ Settle(w)
    \/ EndOfStream(w) \/ PurgeMissing(w) \/ CompleteMissing(w)

Next ==
    \/ \E S \in SUBSET UID : Enqueue(S)
    \/ ClearFolder
    \/ \E w \in Worker : Start(w) \/ Stop(w) \/ WorkerStep(w) \/ IngestUnattributed(w)
    \/ RetrySelect \/ RetryApply \/ CollectGarbage
    \/ Tick
    \/ \E u \in UID : Expunge(u)

Spec == Init /\ [][Next]_vars

(* The goroutines run when they can: the Go scheduler starves none of      *)
(* them, the tickers keep firing and time passes.  Nothing forces a fault, *)
(* an expunge, an enqueue or a reset to happen.                            *)
Fairness ==
    /\ \A w \in Worker : WF_vars(Start(w)) /\ WF_vars(WorkerStep(w))
    /\ WF_vars(RetrySelect) /\ WF_vars(RetryApply)
    /\ WF_vars(Tick)

FairSpec == Spec /\ Fairness

------------------------------------------------------------------------------
(* Properties.                                                             *)

(* The state has the shape the schema and the goroutines give it.          *)
TypeOK ==
    /\ queue \in [UID -> Row \cup {NoRow}]
    /\ gen \in Nat
    /\ worker \in [Worker -> WorkerState]
    /\ retry \subseteq Task
    /\ server \subseteq UID
    /\ stored \subseteq UID
    /\ promised \subseteq UID
    /\ faults \in Nat

(* ProcessQueueRetries computes 1 << (attempts - 1) for every failed row,  *)
(* which panics in Go when attempts is 0: no failed row may have attempts  *)
(* 0, although a stale worker may still fail rows after the queue of the   *)
(* folder was cleared and filled again.                                    *)
FailedWasAttempted ==
    \A u \in UID : HasRow(u) /\ queue[u].status = "failed" => queue[u].attempts >= 1

(* A message that was enqueued and is still on the server is stored        *)
(* locally, or its row is still in the queue and not completed: across     *)
(* crashes, lost status updates, late retries, takeovers and garbage       *)
(* collection no discovered message is dropped, except one that failed     *)
(* MaxAttempts times.                                                      *)
NoMessageLost ==
    \A u \in promised \cap server :
        u \in stored \/ (HasRow(u) /\ queue[u].status # "completed")

(* A poison message does not keep the workers busy for ever.  Below the    *)
(* limit, retries count up to MaxAttempts - 1; from there a final attempt, *)
(* a re-enqueue or a fault can each cost one attempt per overlapping       *)
(* worker (the takeover of a slow one), and nothing else costs any.        *)
AttemptsBounded ==
    \A u \in UID : HasRow(u) =>
        queue[u].attempts <= (MaxAttempts - 1)
            + Cardinality(Worker) * (1 + (gen - queue[u].gen) + faults)

(* Every task comes to an end: its row is completed, has permanently       *)
(* failed, or is gone.                                                     *)
EveryTaskEnds ==
    \A u \in UID :
        HasRow(u) ~> (~HasRow(u) \/ queue[u].status = "completed" \/ Exhausted(u))

=============================================================================
