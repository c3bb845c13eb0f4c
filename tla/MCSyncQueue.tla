----------------------------- MODULE MCSyncQueue -----------------------------
(***************************************************************************)
(* Small instances of SyncQueue for TLC.  SyncQueueScenarios explores two  *)
(* of them in one run, each on variables of its own: scenario never        *)
(* changes and selects the one that moves, the other stays empty.          *)
(***************************************************************************)
EXTENDS SyncQueueLedger

CONSTANTS BatchUID, BatchWorker, BatchFaults

VARIABLES scenario, rows, transactions, fetcher, selected, remote, local, assured, troubles

(* Messages that are fetched in one batch.                                 *)
Batch == INSTANCE SyncQueue WITH
    UID <- BatchUID, Worker <- BatchWorker, BatchLimit <- 2, MaxAttempts <- 2,
    ReclaimAge <- 1, DoneAge <- 1, FailedAge <- 1, MaxAge <- 1, MaxEnqueues <- 2,
    FaultKinds <- BatchFaults, MaxFaults <- 1,
    queue <- rows, gen <- transactions, worker <- fetcher, retry <- selected,
    server <- remote, stored <- local, promised <- assured, faults <- troubles

batch == <<rows, transactions, fetcher, selected, remote, local, assured, troubles>>
all == <<scenario, vars, batch>>

MCInit == scenario \in {"overlap", "batch"} /\ Init /\ Batch!Init

BatchMoves(A) == scenario = "batch" /\ A /\ UNCHANGED <<scenario, vars>>

MCNext ==
    \/ scenario = "overlap" /\ Next /\ UNCHANGED <<scenario, batch>>
    \/ BatchMoves(Batch!Next)

MCSpec ==
    /\ MCInit /\ [][MCNext]_all
    /\ \A w \in BatchWorker : /\ WF_all(BatchMoves(Batch!Start(w)))
                              /\ WF_all(BatchMoves(Batch!WorkerStep(w)))
    /\ WF_all(BatchMoves(Batch!RetrySelect))
    /\ WF_all(BatchMoves(Batch!RetryApply))
    /\ WF_all(BatchMoves(Batch!Tick))

(* Every task of a batch is completed, permanently failed or removed.      *)
EveryTaskEndsInBatch == scenario = "batch" => Batch!EveryTaskEnds
=============================================================================
