----------------------------- MODULE WriteQueue -----------------------------
(***************************************************************************)
(* The write worker of the SQLite store: one goroutine runs all writes     *)
(* that callers enqueue, one at a time; a caller waits for the result of   *)
(* its own.  Users write with high priority, the synchronisation with low. *)
(*                                                                         *)
(* A channel gives what it holds in the order of the sends, and a send on  *)
(* a full channel waits in the same order: a sequence stands for both, so  *)
(* that the capacities (64 and 512) make no difference.  A caller waits in *)
(* either case and has one write under way.                                *)
(***************************************************************************)
EXTENDS Naturals, Sequences

CONSTANTS
    Writer,      \* goroutines that write
    User,        \* those that write with high priority
    Nobody,
    MaxAttempts  \* runs of one write while the database is busy: 15

ASSUME WriteQueueAssumption ==
    /\ User \subseteq Writer /\ Nobody \notin Writer
    /\ MaxAttempts \in Nat \ {0}

VARIABLES
    highWrites, lowWrites,
    worker,     \* where startWriteWorker is: "poll", "select" or "run"
    job,        \* whose write it runs
    attempt,    \* runs of it so far
    caller,     \* "idle", "waiting" or "answered"
    result,     \* of the last write of a caller
    committed,  \* history: the statements of the write under way took effect
    overtaken   \* history: low writes begun while a high one was waiting

writeQueue == <<highWrites, lowWrites, worker, job, attempt, caller, result, committed, overtaken>>

------------------------------------------------------------------------------
Init ==
    /\ highWrites = <<>> /\ lowWrites = <<>>
    /\ worker = "poll" /\ job = Nobody /\ attempt = 0
    /\ caller = [w \in Writer |-> "idle"]
    /\ result = [w \in Writer |-> "none"]
    /\ committed = [w \in Writer |-> FALSE]
    /\ overtaken = [w \in Writer |-> 0]

(* enqueueWrite: the context of the caller no longer counts from here on.  *)
EnqueueWrite(w) ==
    /\ caller[w] = "idle"
    /\ caller' = [caller EXCEPT ![w] = "waiting"]
    /\ IF w \in User THEN highWrites' = Append(highWrites, w) /\ UNCHANGED lowWrites
                     ELSE lowWrites' = Append(lowWrites, w) /\ UNCHANGED highWrites
    /\ committed' = [committed EXCEPT ![w] = FALSE]
    /\ overtaken' = [overtaken EXCEPT ![w] = 0]
    /\ UNCHANGED <<worker, job, attempt, result>>

Run(w) == worker' = "run" /\ job' = w /\ attempt' = 0

TakeHigh ==
    /\ worker \in {"poll", "select"} /\ highWrites # <<>>
    /\ Run(Head(highWrites)) /\ highWrites' = Tail(highWrites)
    /\ UNCHANGED <<lowWrites, caller, result, committed, overtaken>>

(* The first select finds no high write and goes on to the second one.     *)
NoHigh ==
    /\ worker = "poll" /\ highWrites = <<>>
    /\ worker' = "select"
    /\ UNCHANGED <<highWrites, lowWrites, job, attempt, caller, result, committed, overtaken>>

(* Mutant: a single select over both channels.                             *)
LowTurnAlways == worker \in {"poll", "select"}

(* The second select takes either, also when a high write has come since.  *)
LowTurn == worker = "select"

TakeLow ==
    /\ LowTurn /\ lowWrites # <<>>
    /\ Run(Head(lowWrites)) /\ lowWrites' = Tail(lowWrites)
    /\ overtaken' = [w \in Writer |->
          overtaken[w] + IF \E i \in DOMAIN highWrites : highWrites[i] = w THEN 1 ELSE 0]
    /\ UNCHANGED <<highWrites, caller, result, committed>>

(* The result goes into a buffered channel: the worker never waits for a   *)
(* caller.                                                                 *)
Done(r) ==
    /\ worker' = "poll" /\ job' = Nobody /\ attempt' = 0
    /\ result' = [result EXCEPT ![job] = r]
    /\ caller' = [caller EXCEPT ![job] = "answered"]

(* Mutant: the write is repeated until the database is free.               *)
BusyForEver ==
    /\ worker = "run" /\ attempt' = (attempt + 1) % MaxAttempts
    /\ UNCHANGED <<highWrites, lowWrites, worker, job, caller, result, committed, overtaken>>

(* Mutant: one attempt too many.                                           *)
BusyOnceMore ==
    /\ worker = "run"
    /\ IF attempt = MaxAttempts THEN Done("busy")
       ELSE attempt' = attempt + 1 /\ UNCHANGED <<worker, job, caller, result>>
    /\ UNCHANGED <<highWrites, lowWrites, committed, overtaken>>

(* retryBusy: another connection holds the lock, the write is repeated     *)
(* after a pause, or given up after the last attempt.  A write is one      *)
(* statement or transaction: nothing has been written by then.             *)
Busy ==
    /\ worker = "run"
    /\ IF attempt + 1 = MaxAttempts THEN Done("busy")
       ELSE attempt' = attempt + 1 /\ UNCHANGED <<worker, job, caller, result>>
    /\ UNCHANGED <<highWrites, lowWrites, committed, overtaken>>

Commit ==
    /\ worker = "run" /\ Done("ok")
    /\ committed' = [committed EXCEPT ![job] = TRUE]
    /\ UNCHANGED <<highWrites, lowWrites, overtaken>>

(* Mutant: a commit that fails is answered as a success.                   *)
FailUnseen ==
    /\ worker = "run" /\ Done("ok")
    /\ UNCHANGED <<highWrites, lowWrites, committed, overtaken>>

(* Another error, or a panic, which is recovered.                          *)
Fail ==
    /\ worker = "run" /\ Done("error")
    /\ UNCHANGED <<highWrites, lowWrites, committed, overtaken>>

Return(w) ==
    /\ caller[w] = "answered" /\ caller' = [caller EXCEPT ![w] = "idle"]
    /\ UNCHANGED <<highWrites, lowWrites, worker, job, attempt, result, committed, overtaken>>

Work == TakeHigh \/ NoHigh \/ TakeLow \/ Busy \/ Commit \/ Fail

Next == Work \/ \E w \in Writer : EnqueueWrite(w) \/ Return(w)

Spec == Init /\ [][Next]_writeQueue

(* The worker goes on while there is something to do; the database may     *)
(* stay busy for ever.                                                     *)
FairSpec == Spec /\ WF_writeQueue(Work)

------------------------------------------------------------------------------
Waiting(w) ==
    \/ \E i \in DOMAIN highWrites : highWrites[i] = w
    \/ \E i \in DOMAIN lowWrites : lowWrites[i] = w

(* The state has the declared shape.                                       *)
TypeOK ==
    /\ highWrites \in Seq(User) /\ lowWrites \in Seq(Writer \ User)
    /\ worker \in {"poll", "select", "run"} /\ job \in Writer \cup {Nobody}
    /\ attempt \in 0 .. MaxAttempts - 1
    /\ caller \in [Writer -> {"idle", "waiting", "answered"}]

(* A caller is waiting exactly when its write is in a channel or running,  *)
(* and is told of a success exactly when its write was committed.          *)
AnswersMatch ==
    \A w \in Writer :
        /\ (caller[w] = "waiting") <=> (Waiting(w) \/ job = w)
        /\ caller[w] = "answered" => (result[w] = "ok" <=> committed[w])

(* At most one write of the synchronisation starts while a user's write is *)
(* waiting: the one the second select may take.                            *)
LowYields == \A w \in User : overtaken[w] <= 1

(* A user's write is answered in the end, however long the database stays  *)
(* busy and however much the synchronisation writes.                       *)
UsersAnswered == \A w \in User : caller[w] = "waiting" ~> caller[w] = "answered"

(* What the write worker promises its callers.                             *)
WritesServed == AnswersMatch /\ LowYields

=============================================================================
