--------------------------- MODULE SyncQueueProofs ---------------------------
(***************************************************************************)
(* Theorems about SyncQueue, for every folder, number of workers, limit    *)
(* and retention.                                                          *)
(***************************************************************************)
EXTENDS SyncQueueLedger, FiniteSetTheorems, TLAPS

Rows == [UID -> Row \cup {NoRow}]

LEMMA TouchRow ==
    ASSUME NEW r \in Row, NEW s \in Status
    PROVE  /\ Touch(r, s) \in Row
           /\ Touch(r, s).status = s
           /\ Touch(r, s).gen = r.gen
           /\ Touch(r, s).attempts = r.attempts
BY DEF Row, Touch

LEMMA ClaimRow ==
    ASSUME NEW r \in Row
    PROVE  /\ Claim(r) \in Row
           /\ Claim(r).status = "processing"
           /\ Claim(r).gen = r.gen
           /\ Claim(r).attempts = r.attempts + 1
<1>1. r.attempts + 1 \in Nat
  BY DEF Row
<1>2. /\ Claim(r).status = "processing"
      /\ Claim(r).gen = r.gen
      /\ Claim(r).attempts = r.attempts + 1
  BY DEF Row, Claim
<1>3. Claim(r) \in Row
  BY <1>1 DEF Row, Claim, Status
<1> QED BY <1>2, <1>3

(* What a status update does to each row.                                  *)
LEMMA WriteEffect ==
    ASSUME TypeOK, NEW T \in SUBSET Task, NEW s \in Status, Write(T, s)
    PROVE  /\ queue' \in Rows
           /\ faults' \in Nat
           /\ \A u \in UID :
                 \/ queue'[u] = queue[u]
                 \/ /\ HasRow(u)
                    /\ \E t \in T : t.uid = u /\ t.gen = queue[u].gen
                    /\ queue'[u] \in Row
                    /\ queue'[u].status = s
                    /\ queue'[u].gen = queue[u].gen
                    /\ queue'[u].attempts = queue[u].attempts
<1>1. CASE queue' = SetStatus(T, s) /\ UNCHANGED faults
  <2>1. ASSUME NEW u \in UID
        PROVE  /\ queue'[u] \in Row \cup {NoRow}
               /\ \/ queue'[u] = queue[u]
                  \/ /\ HasRow(u)
                     /\ \E t \in T : t.uid = u /\ t.gen = queue[u].gen
                     /\ queue'[u] \in Row
                     /\ queue'[u].status = s
                     /\ queue'[u].gen = queue[u].gen
                     /\ queue'[u].attempts = queue[u].attempts
    <3>1. CASE \E t \in T : t.uid = u /\ Live(t)
      <4>1. HasRow(u) /\ queue[u] \in Row
        BY <3>1 DEF TypeOK, Live, HasRow
      <4>2. queue'[u] = Touch(queue[u], s)
        BY <1>1, <3>1 DEF SetStatus
      <4>3. \E t \in T : t.uid = u /\ t.gen = queue[u].gen
        BY <3>1 DEF Live
      <4>4. /\ queue'[u] \in Row
            /\ queue'[u].status = s
            /\ queue'[u].gen = queue[u].gen
            /\ queue'[u].attempts = queue[u].attempts
        BY <4>1, <4>2, TouchRow
      <4> QED BY <4>1, <4>3, <4>4
    <3>2. CASE ~ \E t \in T : t.uid = u /\ Live(t)
      BY <1>1, <3>2 DEF SetStatus, TypeOK
    <3> QED BY <3>1, <3>2
  <2>2. queue' = [u \in UID |-> queue'[u]]
    BY <1>1 DEF SetStatus
  <2> QED BY <1>1, <2>1, <2>2 DEF TypeOK, Rows
<1>2. CASE Inject("write") /\ UNCHANGED queue
  BY <1>2 DEF Inject, TypeOK, Rows
<1> QED BY <1>1, <1>2 DEF Write

(* Putting a worker into a control state with a batch keeps its type.      *)
LEMMA GotoType ==
    ASSUME TypeOK, NEW w \in Worker, NEW pc \in WorkerPC, NEW T \in SUBSET Task,
           Goto(w, pc, T)
    PROVE  worker' \in [Worker -> WorkerState]
BY DEF Goto, AtRest, TypeOK, WorkerState

LEMMA TypeInit == Init => TypeOK
BY DEF Init, TypeOK, AtRest, WorkerState, WorkerPC

LEMMA TypeNext == TypeOK /\ [Next]_vars => TypeOK'
<1> SUFFICES ASSUME TypeOK, [Next]_vars PROVE TypeOK'
  OBVIOUS
<1> USE ConstantsAssumption
<1>1. ASSUME NEW S \in SUBSET UID, Enqueue(S) PROVE TypeOK'
  <2>1. queue' \in Rows
    <3>1. ASSUME NEW u \in UID, HasRow(u) PROVE Requeued(queue[u]) \in Row
      BY <3>1, TouchRow DEF TypeOK, HasRow, Requeued, Status
    <3>2. [gen |-> gen + 1, status |-> "pending", attempts |-> 0, age |-> 0] \in Row
      BY DEF TypeOK, Row, Status
    <3> QED BY <1>1, <3>1, <3>2 DEF Enqueue, TypeOK, Rows
  <2> QED BY <1>1, <2>1 DEF Enqueue, TypeOK, Rows
<1>2. CASE ClearFolder
  BY <1>2 DEF ClearFolder, TypeOK
<1>3. ASSUME NEW w \in Worker, Start(w) \/ Stop(w) PROVE TypeOK'
  <2>1. worker' \in [Worker -> WorkerState]
    BY <1>3, GotoType DEF Start, Stop, WorkerPC
  <2> QED BY <1>3, <2>1 DEF Start, Stop, Inject, TypeOK
<1>4. ASSUME NEW w \in Worker, Dequeue(w) PROVE TypeOK'
  <2>1. PICK S \in SUBSET {u \in UID : Eligible(u)} :
           /\ queue' = [u \in UID |-> IF u \in S THEN Claim(queue[u]) ELSE queue[u]]
           /\ Goto(w, "select", {TaskOf(u) : u \in S})
    BY <1>4 DEF Dequeue
  <2>2. \A u \in S : queue[u] \in Row
    BY DEF Eligible, HasRow, TypeOK
  <2>3. \A u \in S : Claim(queue[u]) \in Row
    BY <2>2, ClaimRow
  <2>4. {TaskOf(u) : u \in S} \in SUBSET Task
    BY <2>2 DEF TaskOf, Task, Row
  <2>5. worker' \in [Worker -> WorkerState]
    BY <2>1, <2>4, GotoType DEF WorkerPC
  <2> QED BY <1>4, <2>1, <2>3, <2>5 DEF Dequeue, TypeOK
<1>5. ASSUME NEW w \in Worker, Select(w) PROVE TypeOK'
  <2>1. worker[w].tasks \in SUBSET Task
    BY DEF TypeOK, WorkerState
  <2>2. worker' \in [Worker -> WorkerState]
    BY <1>5, <2>1, GotoType DEF Select, WorkerPC
  <2> QED BY <1>5, <2>2 DEF Select, TypeOK
<1>6. ASSUME NEW w \in Worker, FailNext(w) PROVE TypeOK'
  <2>1. PICK t \in worker[w].tasks :
           /\ Write({t}, "failed")
           /\ Goto(w, IF worker[w].tasks \ {t} = {} THEN "idle" ELSE "failing",
                   worker[w].tasks \ {t})
    BY <1>6 DEF FailNext
  <2>2. worker[w].tasks \in SUBSET Task
    BY DEF TypeOK, WorkerState
  <2>3. queue' \in Rows /\ faults' \in Nat
    BY <2>1, <2>2, WriteEffect DEF Status
  <2>4. worker' \in [Worker -> WorkerState]
    BY <2>1, <2>2, GotoType DEF WorkerPC
  <2> QED BY <1>6, <2>3, <2>4 DEF FailNext, TypeOK, Rows
<1>7. ASSUME NEW w \in Worker, Ingest(w) \/ IngestUnattributed(w) PROVE TypeOK'
  <2>1. worker[w] \in WorkerState
    BY DEF TypeOK
  <2>2. ASSUME Ingest(w) PROVE worker' \in [Worker -> WorkerState]
    <3>1. PICK t \in worker[w].tasks, ok \in BOOLEAN :
             worker' = [worker EXCEPT ![w].pc = "settling", ![w].doing = {t},
                                      ![w].ok = ok, ![w].tasks = @ \ {t}]
      BY <2>2 DEF Ingest
    <3>2. [worker[w] EXCEPT !.pc = "settling", !.doing = {t}, !.ok = ok,
                            !.tasks = @ \ {t}] \in WorkerState
      BY <2>1 DEF WorkerState, WorkerPC
    <3> QED BY <3>1, <3>2 DEF TypeOK
  <2>3. ASSUME IngestUnattributed(w) PROVE worker' \in [Worker -> WorkerState]
    <3>1. PICK t \in worker[w].tasks :
             worker' = [worker EXCEPT ![w].tasks = @ \ {t}, ![w].blind = @ \cup {t}]
      BY <2>3 DEF IngestUnattributed
    <3>2. [worker[w] EXCEPT !.tasks = @ \ {t}, !.blind = @ \cup {t}] \in WorkerState
      BY <2>1 DEF WorkerState
    <3> QED BY <3>1, <3>2 DEF TypeOK
  <2>4. stored' \subseteq UID
    <3>1. \A t \in worker[w].tasks : t.uid \in UID
      BY <2>1 DEF WorkerState, Task
    <3>2. CASE Ingest(w)
      <4>1. PICK t \in worker[w].tasks : stored' = stored \cup {t.uid} \/ stored' = stored
        BY <3>2 DEF Ingest
      <4> QED BY <3>1, <4>1 DEF TypeOK
    <3>3. CASE IngestUnattributed(w)
      BY <3>3 DEF IngestUnattributed, TypeOK
    <3> QED BY <1>7, <3>2, <3>3
  <2>5. faults' \in Nat
    <3>1. faults' = faults \/ faults' = faults + 1
      BY <1>7, Zenon DEF Ingest, IngestUnattributed, Inject
    <3> QED BY <3>1 DEF TypeOK
  <2>6. UNCHANGED <<queue, gen, retry, server, promised>>
    BY <1>7 DEF Ingest, IngestUnattributed
  <2> QED BY <1>7, <2>2, <2>3, <2>4, <2>5, <2>6 DEF TypeOK
<1>8. ASSUME NEW w \in Worker, Settle(w) PROVE TypeOK'
  <2>1. worker[w].doing \in SUBSET Task /\ Outcome(worker[w].ok) \in Status
    BY DEF TypeOK, WorkerState, Outcome, Status
  <2>2. queue' \in Rows /\ faults' \in Nat
    BY <1>8, <2>1, WriteEffect DEF Settle
  <2>3. worker' \in [Worker -> WorkerState]
    <3>1. [worker[w] EXCEPT !.pc = "fetching", !.doing = {}, !.ok = FALSE] \in WorkerState
      BY DEF TypeOK, WorkerState, WorkerPC
    <3> QED BY <1>8, <3>1 DEF Settle, TypeOK
  <2> QED BY <1>8, <2>2, <2>3 DEF Settle, TypeOK, Rows
<1>9. ASSUME NEW w \in Worker, EndOfStream(w) PROVE TypeOK'
  <2>1. worker[w].tasks \cup worker[w].blind \in SUBSET Task
    BY DEF TypeOK, WorkerState
  <2>2. worker' \in [Worker -> WorkerState]
    BY <1>9, <2>1, GotoType DEF EndOfStream, WorkerPC
  <2> QED BY <1>9, <2>2 DEF EndOfStream, Inject, TypeOK
<1>10. ASSUME NEW w \in Worker, PurgeMissing(w) PROVE TypeOK'
  <2>1. worker[w].tasks \in SUBSET Task
    BY DEF TypeOK, WorkerState
  <2>2. worker' \in [Worker -> WorkerState]
    BY <1>10, <2>1, GotoType DEF PurgeMissing, WorkerPC
  <2> QED BY <1>10, <2>2 DEF PurgeMissing, TypeOK
<1>11. ASSUME NEW w \in Worker, CompleteMissing(w) PROVE TypeOK'
  <2>1. worker[w].tasks \in SUBSET Task
    BY DEF TypeOK, WorkerState
  <2>2. queue' \in Rows /\ faults' \in Nat
    BY <1>11, <2>1, WriteEffect DEF CompleteMissing, Status
  <2>3. worker' \in [Worker -> WorkerState]
    BY <1>11, GotoType DEF CompleteMissing, WorkerPC
  <2> QED BY <1>11, <2>2, <2>3 DEF CompleteMissing, TypeOK, Rows
<1>12. CASE RetrySelect
  BY <1>12 DEF RetrySelect, Retryable, HasRow, TaskOf, Task, Row, TypeOK
<1>13. CASE RetryApply
  <2>1. retry \in SUBSET Task
    BY DEF TypeOK
  <2>2. queue' \in Rows /\ faults' \in Nat
    BY <1>13, <2>1, WriteEffect DEF RetryApply, Status
  <2> QED BY <1>13, <2>2 DEF RetryApply, TypeOK, Rows
<1>14. CASE CollectGarbage
  BY <1>14 DEF CollectGarbage, TypeOK
<1>15. CASE Tick
  <2>1. ASSUME NEW u \in UID, Ageing(u) PROVE [queue[u] EXCEPT !.age = @ + 1] \in Row
    BY <2>1 DEF Ageing, HasRow, Row, TypeOK
  <2> QED BY <1>15, <2>1 DEF Tick, TypeOK
<1>16. ASSUME NEW u \in UID, Expunge(u) PROVE TypeOK'
  BY <1>16 DEF Expunge, TypeOK
<1>17. CASE UNCHANGED vars
  BY <1>17 DEF vars, TypeOK
<1> QED
  BY <1>1, <1>2, <1>3, <1>4, <1>5, <1>6, <1>7, <1>8, <1>9, <1>10, <1>11, <1>12, <1>13,
     <1>14, <1>15, <1>16, <1>17 DEF Next, WorkerStep

(* Every reachable state has the shape of the schema and the goroutines.   *)
THEOREM TypeCorrect == Spec => []TypeOK
BY TypeInit, TypeNext, PTL DEF Spec

------------------------------------------------------------------------------
(* No failed row without an attempt.  The invariant is not inductive: a    *)
(* worker may fail any task it holds, however stale, so the claim must be  *)
(* part of it: a task in a worker's hands was dequeued, and if its row     *)
(* still exists (ids are not reused) the row still counts that dequeue.    *)

Held(w) == worker[w].tasks \cup worker[w].blind \cup worker[w].doing

ClaimInv ==
    /\ \A u \in UID : HasRow(u) => queue[u].gen <= gen
    /\ \A w \in Worker : \A t \in Held(w) :
          t.gen <= gen /\ (Live(t) => queue[t.uid].attempts >= 1)
    /\ FailedWasAttempted

(* A step inserts rows with a fresh generation or keeps a row's identity   *)
(* and never lowers its attempts.                                          *)
RowStep ==
    /\ gen' \in Nat /\ gen <= gen'
    /\ \A u \in UID : HasRow(u)' =>
          \/ queue'[u].gen = gen' /\ gen < gen'
          \/ /\ HasRow(u) /\ queue'[u].gen = queue[u].gen
             /\ queue'[u].attempts >= queue[u].attempts

(* A worker's tasks were in some worker's hands before or are just dequeued. *)
HeldStep ==
    \A w \in Worker : \A t \in Held(w)' :
        \/ \E v \in Worker : t \in Held(v)
        \/ t.gen <= gen' /\ (Live(t)' => queue'[t.uid].attempts >= 1)

LEMMA HeldTasks == ASSUME TypeOK, NEW w \in Worker PROVE Held(w) \in SUBSET Task
BY DEF TypeOK, WorkerState, Held

LEMMA ClaimStep ==
    ASSUME TypeOK, TypeOK', ClaimInv, RowStep, HeldStep, FailedWasAttempted'
    PROVE  ClaimInv'
<1>1. ASSUME NEW u \in UID, HasRow(u)' PROVE queue'[u].gen <= gen'
  <2>1. CASE queue'[u].gen = gen'
    BY <2>1 DEF RowStep
  <2>2. CASE HasRow(u) /\ queue'[u].gen = queue[u].gen
    <3>1. queue[u].gen <= gen /\ queue[u] \in Row
      BY <2>2 DEF ClaimInv, TypeOK, HasRow
    <3> QED BY <2>2, <3>1 DEF RowStep, TypeOK, Row
  <2> QED BY <1>1, <2>1, <2>2 DEF RowStep
<1>2. ASSUME NEW w \in Worker, NEW t \in Held(w)'
      PROVE  t.gen <= gen' /\ (Live(t)' => queue'[t.uid].attempts >= 1)
  <2>1. CASE \E v \in Worker : t \in Held(v)
    <3>1. t \in Task /\ t.gen <= gen /\ (Live(t) => queue[t.uid].attempts >= 1)
      BY <2>1, HeldTasks DEF ClaimInv
    <3>2. t.uid \in UID /\ t.gen \in Nat
      BY <3>1 DEF Task
    <3>3. t.gen <= gen'
      BY <3>1, <3>2 DEF RowStep, TypeOK
    <3>4. ASSUME Live(t)' PROVE queue'[t.uid].attempts >= 1
      <4>1. HasRow(t.uid)' /\ queue'[t.uid].gen = t.gen
        BY <3>4 DEF Live
      <4>2. /\ HasRow(t.uid) /\ queue'[t.uid].gen = queue[t.uid].gen
            /\ queue'[t.uid].attempts >= queue[t.uid].attempts
        BY <3>1, <3>2, <4>1 DEF RowStep, TypeOK
      <4>3. queue[t.uid].attempts >= 1
        BY <3>1, <4>1, <4>2 DEF Live
      <4>4. queue[t.uid].attempts \in Nat /\ queue'[t.uid].attempts \in Nat
        BY <3>2, <4>1, <4>2 DEF TypeOK, HasRow, Row
      <4> QED BY <4>2, <4>3, <4>4
    <3> QED BY <3>3, <3>4
  <2> QED BY <2>1 DEF HeldStep
<1> QED BY <1>1, <1>2 DEF ClaimInv

(* A status update is a row step, and fails no row without attempts.       *)
LEMMA WriteClaims ==
    ASSUME TypeOK, ClaimInv, UNCHANGED gen,
           NEW T \in SUBSET Task, NEW s \in Status, Write(T, s),
           s = "failed" => \A t \in T : \E w \in Worker : t \in Held(w)
    PROVE  RowStep /\ FailedWasAttempted'
<1>1. RowStep
  <2>1. ASSUME NEW u \in UID, HasRow(u)'
        PROVE  /\ HasRow(u) /\ queue'[u].gen = queue[u].gen
               /\ queue'[u].attempts >= queue[u].attempts
    <3>1. HasRow(u) /\ queue'[u].gen = queue[u].gen /\ queue'[u].attempts = queue[u].attempts
      BY <2>1, WriteEffect DEF HasRow
    <3>2. queue[u].attempts \in Nat
      BY <3>1 DEF HasRow, TypeOK, Row
    <3> QED BY <3>1, <3>2
  <2> QED BY <2>1 DEF RowStep, TypeOK
<1>2. ASSUME NEW u \in UID, HasRow(u)', queue'[u].status = "failed"
      PROVE  queue'[u].attempts >= 1
  <2>1. CASE queue'[u] = queue[u]
    BY <1>2, <2>1 DEF ClaimInv, FailedWasAttempted, HasRow
  <2>2. CASE queue'[u] # queue[u]
    <3>1. PICK t \in T : HasRow(u) /\ t.uid = u /\ t.gen = queue[u].gen
      BY <2>2, WriteEffect
    <3>2. queue'[u].status = s /\ queue'[u].attempts = queue[u].attempts
      BY <2>2, WriteEffect
    <3>3. Live(t) /\ \E w \in Worker : t \in Held(w)
      BY <1>2, <3>1, <3>2 DEF Live
    <3> QED BY <3>1, <3>2, <3>3 DEF ClaimInv
  <2> QED BY <2>1, <2>2
<1> QED BY <1>1, <1>2 DEF FailedWasAttempted

(* Steps that leave the table and the generation alone.                    *)
LEMMA QuietClaims ==
    ASSUME TypeOK, ClaimInv, UNCHANGED <<queue, gen>>
    PROVE  RowStep /\ FailedWasAttempted'
<1>1. \A u \in UID : HasRow(u) => queue[u].attempts \in Nat
  BY DEF TypeOK, HasRow, Row
<1> QED BY <1>1 DEF RowStep, ClaimInv, FailedWasAttempted, HasRow, TypeOK

LEMMA GotoEffect ==
    ASSUME TypeOK, NEW w \in Worker, NEW pc, NEW T, Goto(w, pc, T)
    PROVE  /\ \A v \in Worker \ {w} : worker'[v] = worker[v]
           /\ worker'[w].pc = pc /\ worker'[w].tasks = T
           /\ worker'[w].blind = {} /\ worker'[w].doing = {} /\ worker'[w].ok = FALSE
BY DEF TypeOK, Goto, AtRest

(* A worker that keeps some of its tasks and takes no others.              *)
LEMMA GotoHeld ==
    ASSUME TypeOK, NEW w \in Worker, NEW pc, NEW T, Goto(w, pc, T), T \subseteq Held(w)
    PROVE  HeldStep
<1>0. worker'[w].tasks = T /\ worker'[w].blind = {} /\ worker'[w].doing = {}
  BY GotoEffect
<1>1. Held(w)' \subseteq Held(w)
  <2>1. Held(w)' = T
    BY <1>0 DEF Held
  <2> QED BY <2>1
<1>2. \A v \in Worker \ {w} : Held(v)' = Held(v)
  BY GotoEffect DEF Held
<1> QED BY <1>1, <1>2 DEF HeldStep

LEMMA ClaimInit == Init => ClaimInv
BY DEF Init, ClaimInv, HasRow, Held, AtRest, FailedWasAttempted

LEMMA ClaimNext == TypeOK /\ TypeOK' /\ ClaimInv /\ [Next]_vars => ClaimInv'
<1> SUFFICES ASSUME TypeOK, TypeOK', ClaimInv, [Next]_vars
             PROVE  RowStep /\ HeldStep /\ FailedWasAttempted'
  BY ClaimStep
<1> USE ConstantsAssumption
<1>a. UNCHANGED worker => HeldStep
  BY DEF HeldStep, Held
<1>1. ASSUME NEW S \in SUBSET UID, Enqueue(S)
      PROVE  RowStep /\ HeldStep /\ FailedWasAttempted'
  <2> DEFINE fresh == [gen |-> gen + 1, status |-> "pending", attempts |-> 0, age |-> 0]
  <2>1. ASSUME NEW u \in UID, HasRow(u)'
        PROVE  \/ queue'[u] = fresh
               \/ /\ HasRow(u) /\ queue'[u].gen = queue[u].gen
                  /\ queue'[u].attempts = queue[u].attempts
                  /\ queue'[u] = queue[u] \/ queue'[u].status = "pending"
    <3>1. CASE HasRow(u)
      <4>1. queue[u] \in Row
        BY <3>1 DEF HasRow, TypeOK
      <4>2. queue'[u] = queue[u] \/ queue'[u] = Touch(queue[u], "pending")
        BY <1>1, <3>1 DEF Enqueue, Requeued, TypeOK
      <4> QED BY <3>1, <4>1, <4>2, TouchRow DEF Status
    <3>2. CASE ~HasRow(u)
      BY <1>1, <2>1, <3>2 DEF Enqueue, HasRow
    <3> QED BY <3>1, <3>2
  <2>2. gen' = gen + 1 /\ gen \in Nat
    BY <1>1 DEF Enqueue, TypeOK
  <2>3. RowStep
    <3>1. \A u \in UID : HasRow(u) => queue[u].attempts \in Nat
      BY DEF TypeOK, HasRow, Row
    <3> QED BY <2>1, <2>2, <3>1 DEF RowStep
  <2>4. FailedWasAttempted'
    BY <2>1 DEF ClaimInv, FailedWasAttempted
  <2> QED BY <1>a, <1>1, <2>3, <2>4 DEF Enqueue
<1>2. CASE ClearFolder
  <2>1. \A u \in UID : ~HasRow(u)'
    BY <1>2 DEF ClearFolder, HasRow
  <2> QED BY <1>a, <1>2, <2>1 DEF ClearFolder, RowStep, FailedWasAttempted, TypeOK
<1>3. ASSUME NEW w \in Worker, Start(w) \/ Stop(w)
      PROVE  RowStep /\ HeldStep /\ FailedWasAttempted'
  BY <1>3, QuietClaims, GotoHeld DEF Start, Stop
<1>4. ASSUME NEW w \in Worker, Dequeue(w)
      PROVE  RowStep /\ HeldStep /\ FailedWasAttempted'
  <2>1. PICK S \in SUBSET {u \in UID : Eligible(u)} :
           /\ queue' = [u \in UID |-> IF u \in S THEN Claim(queue[u]) ELSE queue[u]]
           /\ Goto(w, "select", {TaskOf(u) : u \in S})
    BY <1>4 DEF Dequeue
  <2>2. \A u \in UID : HasRow(u) => queue[u] \in Row
    BY DEF TypeOK, HasRow
  <2>3. \A u \in S : HasRow(u) /\ queue'[u] = Claim(queue[u])
    BY <2>1 DEF Eligible
  <2>4. \A u \in S : /\ queue'[u].gen = queue[u].gen
                      /\ queue'[u].attempts = queue[u].attempts + 1
                      /\ queue'[u].status = "processing"
    BY <2>2, <2>3, ClaimRow
  <2>5. \A u \in UID \ S : queue'[u] = queue[u]
    BY <2>1
  <2>6. \A u \in UID : HasRow(u) => queue[u].attempts \in Nat /\ queue[u].gen \in Nat
    BY <2>2 DEF Row
  <2>7. UNCHANGED gen /\ gen \in Nat
    BY <1>4 DEF Dequeue, TypeOK
  <2>8. RowStep
    <3>1. ASSUME NEW u \in UID, HasRow(u)'
          PROVE  /\ HasRow(u) /\ queue'[u].gen = queue[u].gen
                 /\ queue'[u].attempts >= queue[u].attempts
      <4>1. CASE u \in S
        BY <2>3, <2>4, <2>6, <4>1
      <4>2. CASE u \notin S
        BY <2>5, <2>6, <3>1, <4>2 DEF HasRow
      <4> QED BY <4>1, <4>2
    <3> QED BY <2>7, <3>1 DEF RowStep
  <2>9. HeldStep
    <3>1. ASSUME NEW t \in Held(w)'
          PROVE  t.gen <= gen' /\ queue'[t.uid].attempts >= 1
      <4>1. Held(w)' = {TaskOf(u) : u \in S}
        <5>1. /\ worker'[w].tasks = {TaskOf(u) : u \in S}
              /\ worker'[w].blind = {} /\ worker'[w].doing = {}
          BY <2>1, GotoEffect
        <5> QED BY <5>1 DEF Held
      <4>2. PICK u \in S : t = TaskOf(u)
        BY <3>1, <4>1
      <4>3. t.uid = u /\ t.gen = queue[u].gen
        BY <4>2 DEF TaskOf
      <4>4. queue[u].gen <= gen /\ queue[u].attempts \in Nat
        BY <2>3, <2>6 DEF ClaimInv
      <4> QED BY <2>4, <2>7, <4>3, <4>4
    <3>2. \A v \in Worker \ {w} : Held(v)' = Held(v)
      BY <2>1, GotoEffect DEF Held
    <3> QED BY <3>1, <3>2 DEF HeldStep
  <2>10. FailedWasAttempted'
    BY <2>4, <2>5 DEF FailedWasAttempted, ClaimInv, HasRow
  <2> QED BY <2>8, <2>9, <2>10
<1>5. ASSUME NEW w \in Worker, Select(w)
      PROVE  RowStep /\ HeldStep /\ FailedWasAttempted'
  <2>1. worker[w].tasks \subseteq Held(w)
    BY DEF Held
  <2> QED BY <1>5, <2>1, QuietClaims, GotoHeld DEF Select
<1>6. ASSUME NEW w \in Worker, FailNext(w)
      PROVE  RowStep /\ HeldStep /\ FailedWasAttempted'
  <2>1. PICK t \in worker[w].tasks :
           /\ Write({t}, "failed")
           /\ Goto(w, IF worker[w].tasks \ {t} = {} THEN "idle" ELSE "failing",
                   worker[w].tasks \ {t})
    BY <1>6 DEF FailNext
  <2>2. t \in Held(w) /\ worker[w].tasks \ {t} \subseteq Held(w) /\ t \in Task
    BY <2>1, HeldTasks DEF Held
  <2>3. RowStep /\ FailedWasAttempted'
    BY <1>6, <2>1, <2>2, WriteClaims DEF FailNext, Status
  <2> QED BY <2>1, <2>2, <2>3, GotoHeld
<1>7. ASSUME NEW w \in Worker, Ingest(w) \/ IngestUnattributed(w)
      PROVE  RowStep /\ HeldStep /\ FailedWasAttempted'
  <2>1. RowStep /\ FailedWasAttempted'
    BY <1>7, QuietClaims DEF Ingest, IngestUnattributed
  <2>2. Held(w)' \subseteq Held(w)
    <3>1. CASE Ingest(w)
      <4>1. PICK t \in worker[w].tasks, ok \in BOOLEAN :
               worker' = [worker EXCEPT ![w].pc = "settling", ![w].doing = {t},
                                        ![w].ok = ok, ![w].tasks = @ \ {t}]
        BY <3>1 DEF Ingest
      <4>2. /\ worker'[w].tasks = worker[w].tasks \ {t}
            /\ worker'[w].blind = worker[w].blind /\ worker'[w].doing = {t}
        BY <4>1 DEF TypeOK, WorkerState
      <4> QED BY <4>1, <4>2 DEF Held
    <3>2. CASE IngestUnattributed(w)
      <4>1. PICK t \in worker[w].tasks :
               worker' = [worker EXCEPT ![w].tasks = @ \ {t}, ![w].blind = @ \cup {t}]
        BY <3>2 DEF IngestUnattributed
      <4>2. /\ worker'[w].tasks = worker[w].tasks \ {t}
            /\ worker'[w].blind = worker[w].blind \cup {t}
            /\ worker'[w].doing = worker[w].doing
        BY <4>1 DEF TypeOK, WorkerState
      <4> QED BY <4>1, <4>2 DEF Held
    <3> QED BY <1>7, <3>1, <3>2
  <2>3. \A v \in Worker \ {w} : worker'[v] = worker[v]
    BY <1>7 DEF Ingest, IngestUnattributed, TypeOK
  <2> QED BY <2>1, <2>2, <2>3 DEF HeldStep, Held
<1>8. ASSUME NEW w \in Worker, Settle(w)
      PROVE  RowStep /\ HeldStep /\ FailedWasAttempted'
  <2>1. /\ worker[w].doing \in SUBSET Task /\ Outcome(worker[w].ok) \in Status
        /\ \A t \in worker[w].doing : t \in Held(w)
    BY DEF TypeOK, WorkerState, Outcome, Status, Held
  <2>2. RowStep /\ FailedWasAttempted'
    BY <1>8, <2>1, WriteClaims DEF Settle
  <2>3. /\ worker'[w].tasks = worker[w].tasks /\ worker'[w].blind = worker[w].blind
        /\ worker'[w].doing = {}
        /\ \A v \in Worker \ {w} : worker'[v] = worker[v]
    BY <1>8 DEF Settle, TypeOK, WorkerState
  <2> QED BY <2>2, <2>3 DEF HeldStep, Held
<1>9. ASSUME NEW w \in Worker, EndOfStream(w)
      PROVE  RowStep /\ HeldStep /\ FailedWasAttempted'
  <2>1. worker[w].tasks \cup worker[w].blind \subseteq Held(w)
    BY DEF Held
  <2> QED BY <1>9, <2>1, QuietClaims, GotoHeld DEF EndOfStream
<1>10. ASSUME NEW w \in Worker, PurgeMissing(w)
      PROVE  RowStep /\ HeldStep /\ FailedWasAttempted'
  <2>1. worker[w].tasks \subseteq Held(w)
    BY DEF Held
  <2> QED BY <1>10, <2>1, QuietClaims, GotoHeld DEF PurgeMissing
<1>11. ASSUME NEW w \in Worker, CompleteMissing(w)
      PROVE  RowStep /\ HeldStep /\ FailedWasAttempted'
  <2>1. worker[w].tasks \in SUBSET Task
    BY DEF TypeOK, WorkerState
  <2>2. RowStep /\ FailedWasAttempted'
    BY <1>11, <2>1, WriteClaims DEF CompleteMissing, Status
  <2> QED BY <1>11, <2>2, GotoHeld DEF CompleteMissing
<1>12. CASE RetrySelect
  BY <1>a, <1>12, QuietClaims DEF RetrySelect
<1>13. CASE RetryApply
  <2>1. retry \in SUBSET Task
    BY DEF TypeOK
  <2> QED BY <1>a, <1>13, <2>1, WriteClaims DEF RetryApply, Status
<1>14. CASE CollectGarbage
  <2>1. \A u \in UID : HasRow(u)' => queue'[u] = queue[u]
    BY <1>14 DEF CollectGarbage, HasRow
  <2>2. \A u \in UID : HasRow(u) => queue[u].attempts \in Nat
    BY DEF TypeOK, HasRow, Row
  <2> QED BY <1>a, <1>14, <2>1, <2>2
       DEF CollectGarbage, RowStep, FailedWasAttempted, ClaimInv, HasRow, TypeOK
<1>15. CASE Tick
  <2>1. ASSUME NEW u \in UID, HasRow(u)'
        PROVE  /\ HasRow(u) /\ queue'[u].gen = queue[u].gen
               /\ queue'[u].attempts = queue[u].attempts
               /\ queue'[u].status = queue[u].status
    <3>1. CASE Ageing(u)
      BY <1>15, <3>1 DEF Tick, Ageing, HasRow, TypeOK, Row
    <3>2. CASE ~Ageing(u)
      BY <1>15, <2>1, <3>2 DEF Tick, HasRow
    <3> QED BY <3>1, <3>2
  <2>2. \A u \in UID : HasRow(u) => queue[u].attempts \in Nat
    BY DEF TypeOK, HasRow, Row
  <2>3. RowStep
    BY <1>15, <2>1, <2>2 DEF Tick, RowStep, TypeOK
  <2>4. FailedWasAttempted'
    BY <2>1 DEF FailedWasAttempted, ClaimInv
  <2> QED BY <1>a, <1>15, <2>3, <2>4 DEF Tick
<1>16. ASSUME NEW u \in UID, Expunge(u)
       PROVE  RowStep /\ HeldStep /\ FailedWasAttempted'
  BY <1>a, <1>16, QuietClaims DEF Expunge
<1>17. CASE UNCHANGED vars
  BY <1>a, <1>17, QuietClaims DEF vars
<1> QED
  BY <1>1, <1>2, <1>3, <1>4, <1>5, <1>6, <1>7, <1>8, <1>9, <1>10, <1>11, <1>12, <1>13,
     <1>14, <1>15, <1>16, <1>17 DEF Next, WorkerStep

(* No row ever fails without an attempt, so the backoff shift of           *)
(* ProcessQueueRetries is never negative.                                  *)
THEOREM FailedOnlyAfterAttempt == Spec => []FailedWasAttempted
<1>1. ClaimInv => FailedWasAttempted
  BY DEF ClaimInv
<1> QED BY <1>1, TypeInit, TypeNext, ClaimInit, ClaimNext, PTL DEF Spec

------------------------------------------------------------------------------
(* No discovered message is lost, as long as neither a broken FETCH stream *)
(* nor an ingest error without a UID occurs.  What makes it inductive:     *)
(* each place that will complete a row already knows that its message is   *)
(* stored or gone, and such knowledge does not expire, because a message   *)
(* gone from the server does not come back under its UID and only copies   *)
(* of gone messages are deleted.                                           *)

LossFree == FaultKinds \subseteq {"stop", "write"}

Safe(u) == u \in stored \/ u \notin server

LossInv ==
    /\ \A w \in Worker :
          /\ worker[w].blind = {}
          /\ worker[w].pc = "settling" /\ worker[w].ok =>
                \A t \in worker[w].doing : Safe(t.uid)
          /\ worker[w].pc \in {"purging", "closing"} =>
                \A t \in worker[w].tasks : t.uid \notin server
    /\ \A u \in UID : HasRow(u) /\ queue[u].status = "completed" => Safe(u)
    /\ \A u \in promised : HasRow(u) \/ Safe(u)

(* What a step must show for each part of LossInv.                         *)
SafeStep == \A u \in UID : (Safe(u) => Safe(u)') /\ (u \notin server => u \notin server')

KnowStep ==
    \A w \in Worker :
        \/ worker'[w] = worker[w]
        \/ /\ worker'[w].blind = {}
           /\ worker'[w].pc = "settling" /\ worker'[w].ok =>
                 \A t \in worker'[w].doing : Safe(t.uid)'
           /\ worker'[w].pc \in {"purging", "closing"} =>
                 \A t \in worker'[w].tasks : t.uid \notin server'

DoneStep ==
    /\ \A u \in UID : HasRow(u)' /\ queue'[u].status = "completed" =>
          Safe(u) \/ (HasRow(u) /\ queue[u].status = "completed")
    /\ \A u \in promised' : HasRow(u)' \/ Safe(u) \/ (u \in promised /\ ~HasRow(u))

LEMMA LossStep ==
    ASSUME TypeOK, TypeOK', LossInv, SafeStep, KnowStep, DoneStep
    PROVE  LossInv'
<1>1. ASSUME NEW w \in Worker
      PROVE  /\ worker'[w].blind = {}
             /\ worker'[w].pc = "settling" /\ worker'[w].ok =>
                   \A t \in worker'[w].doing : Safe(t.uid)'
             /\ worker'[w].pc \in {"purging", "closing"} =>
                   \A t \in worker'[w].tasks : t.uid \notin server'
  <2>1. CASE worker'[w] = worker[w]
    <3>1. \A t \in worker[w].doing \cup worker[w].tasks : t.uid \in UID
      BY DEF TypeOK, WorkerState, Task
    <3> QED BY <2>1, <3>1 DEF LossInv, SafeStep
  <2> QED BY <2>1 DEF KnowStep
<1>2. ASSUME NEW u \in UID, HasRow(u)', queue'[u].status = "completed" PROVE Safe(u)'
  BY <1>2 DEF DoneStep, SafeStep, LossInv
<1>3. ASSUME NEW u \in promised' PROVE HasRow(u)' \/ Safe(u)'
  <2>1. u \in UID
    BY <1>3 DEF TypeOK
  <2> QED BY <1>3, <2>1 DEF DoneStep, SafeStep, LossInv
<1> QED BY <1>1, <1>2, <1>3 DEF LossInv

LEMMA WriteLoss ==
    ASSUME TypeOK, LossInv, UNCHANGED promised,
           NEW T \in SUBSET Task, NEW s \in Status, Write(T, s),
           s = "completed" => \A t \in T : Safe(t.uid)
    PROVE  DoneStep
<1>1. ASSUME NEW u \in UID, HasRow(u)', queue'[u].status = "completed"
      PROVE  Safe(u) \/ (HasRow(u) /\ queue[u].status = "completed")
  BY <1>1, WriteEffect DEF HasRow
<1>2. ASSUME NEW u \in UID PROVE HasRow(u) => HasRow(u)'
  <2>1. NoRow \notin Row
    BY ConstantsAssumption DEF Row, Status
  <2> QED BY <2>1, WriteEffect DEF HasRow
<1>3. ASSUME NEW u \in promised' PROVE HasRow(u)' \/ Safe(u) \/ (u \in promised /\ ~HasRow(u))
  BY <1>2, <1>3 DEF TypeOK
<1> QED BY <1>1, <1>3 DEF DoneStep

LEMMA QuietLoss == ASSUME LossInv, UNCHANGED <<queue, promised>> PROVE DoneStep
BY DEF DoneStep, LossInv, HasRow

LEMMA LossInit == Init => LossInv
BY DEF Init, LossInv, HasRow, AtRest

LEMMA LossNext ==
    ASSUME LossFree
    PROVE  TypeOK /\ TypeOK' /\ LossInv /\ [Next]_vars => LossInv'
<1> SUFFICES ASSUME TypeOK, TypeOK', LossInv, [Next]_vars
             PROVE  SafeStep /\ KnowStep /\ DoneStep
  BY LossStep
<1>a. UNCHANGED worker => KnowStep
  BY DEF KnowStep
<1>b. UNCHANGED <<stored, server>> => SafeStep
  BY DEF SafeStep, Safe
<1>c. ASSUME NEW w \in Worker, NEW pc, NEW T, Goto(w, pc, T),
             pc \in {"purging", "closing"} => \A t \in T : t.uid \notin server',
             pc # "settling"
      PROVE  KnowStep
  <2>1. /\ worker'[w].pc = pc /\ worker'[w].tasks = T /\ worker'[w].blind = {}
        /\ \A v \in Worker \ {w} : worker'[v] = worker[v]
    BY <1>c, GotoEffect
  <2> QED BY <1>c, <2>1 DEF KnowStep
<1>1. ASSUME NEW S \in SUBSET UID, Enqueue(S) PROVE SafeStep /\ KnowStep /\ DoneStep
  <2>1. ASSUME NEW u \in UID
        PROVE  /\ u \in S \/ HasRow(u) => HasRow(u)'
               /\ HasRow(u)' /\ queue'[u].status = "completed" =>
                     HasRow(u) /\ queue[u].status = "completed"
    <3>0. NoRow \notin Row
      BY ConstantsAssumption DEF Row, Status
    <3>1. CASE HasRow(u)
      <4>1. queue[u] \in Row
        BY <3>1 DEF HasRow, TypeOK
      <4>2. queue'[u] = queue[u] \/ queue'[u] = Touch(queue[u], "pending")
        BY <1>1, <3>1 DEF Enqueue, Requeued, TypeOK
      <4>3. Touch(queue[u], "pending") \in Row /\ Touch(queue[u], "pending").status = "pending"
        BY <4>1, TouchRow DEF Status
      <4> QED BY <3>0, <3>1, <4>2, <4>3 DEF HasRow
    <3>2. CASE ~HasRow(u) /\ u \in S
      <4>1. queue'[u] = [gen |-> gen + 1, status |-> "pending", attempts |-> 0, age |-> 0]
        BY <1>1, <3>2 DEF Enqueue
      <4>2. queue'[u] \in Row /\ queue'[u].status = "pending"
        BY <4>1 DEF Row, Status, TypeOK
      <4> QED BY <3>0, <3>2, <4>2 DEF HasRow
    <3>3. CASE ~HasRow(u) /\ u \notin S
      BY <1>1, <3>3 DEF Enqueue, HasRow
    <3> QED BY <3>1, <3>2, <3>3
  <2>2. promised' = promised \cup S /\ promised \subseteq UID
    BY <1>1 DEF Enqueue, TypeOK
  <2>3. DoneStep
    BY <2>1, <2>2 DEF DoneStep
  <2> QED BY <1>a, <1>b, <1>1, <2>3 DEF Enqueue
<1>2. CASE ClearFolder
  <2>1. DoneStep
    BY <1>2 DEF ClearFolder, DoneStep, HasRow
  <2> QED BY <1>a, <1>b, <1>2, <2>1 DEF ClearFolder
<1>3. ASSUME NEW w \in Worker, Start(w) \/ Stop(w) PROVE SafeStep /\ KnowStep /\ DoneStep
  BY <1>b, <1>c, <1>3, QuietLoss DEF Start, Stop
<1>4. ASSUME NEW w \in Worker, Dequeue(w) PROVE SafeStep /\ KnowStep /\ DoneStep
  <2>1. PICK S \in SUBSET {u \in UID : Eligible(u)} :
           /\ queue' = [u \in UID |-> IF u \in S THEN Claim(queue[u]) ELSE queue[u]]
           /\ Goto(w, "select", {TaskOf(u) : u \in S})
    BY <1>4 DEF Dequeue
  <2>2. \A u \in S : queue'[u] \in Row /\ queue'[u].status = "processing"
    BY <2>1, ClaimRow DEF Eligible, HasRow, TypeOK
  <2>3. NoRow \notin Row
    BY ConstantsAssumption DEF Row, Status
  <2>4. DoneStep
    <3>1. \A u \in UID \ S : queue'[u] = queue[u]
      BY <2>1
    <3>2. UNCHANGED promised /\ promised \subseteq UID
      BY <1>4 DEF Dequeue, TypeOK
    <3> QED BY <2>2, <2>3, <3>1, <3>2 DEF DoneStep, HasRow
  <2> QED BY <1>b, <1>c, <1>4, <2>1, <2>4 DEF Dequeue
<1>5. ASSUME NEW w \in Worker, Select(w) PROVE SafeStep /\ KnowStep /\ DoneStep
  <2>1. PICK pc \in {"fetching", "failing"} : Goto(w, pc, worker[w].tasks)
    BY <1>5 DEF Select
  <2> QED BY <1>b, <1>c, <1>5, <2>1, QuietLoss DEF Select
<1>6. ASSUME NEW w \in Worker, FailNext(w) PROVE SafeStep /\ KnowStep /\ DoneStep
  <2>1. PICK t \in worker[w].tasks :
           /\ Write({t}, "failed")
           /\ Goto(w, IF worker[w].tasks \ {t} = {} THEN "idle" ELSE "failing",
                   worker[w].tasks \ {t})
    BY <1>6 DEF FailNext
  <2>2. {t} \in SUBSET Task
    BY <2>1 DEF TypeOK, WorkerState
  <2>3. DoneStep
    BY <1>6, <2>1, <2>2, WriteLoss DEF FailNext, Status
  <2>4. KnowStep
    BY <1>c, <2>1
  <2> QED BY <1>b, <1>6, <2>3, <2>4 DEF FailNext
<1>7. ASSUME NEW w \in Worker, Ingest(w) PROVE SafeStep /\ KnowStep /\ DoneStep
  <2>1. PICK t \in worker[w].tasks, ok \in BOOLEAN :
           /\ stored' = IF ok THEN stored \cup {t.uid} ELSE stored
           /\ worker' = [worker EXCEPT ![w].pc = "settling", ![w].doing = {t},
                                       ![w].ok = ok, ![w].tasks = @ \ {t}]
    BY <1>7 DEF Ingest
  <2>2. UNCHANGED <<queue, server, promised>>
    BY <1>7 DEF Ingest
  <2>3. SafeStep
    BY <2>1, <2>2 DEF SafeStep, Safe
  <2>4. /\ worker'[w].pc = "settling" /\ worker'[w].doing = {t} /\ worker'[w].ok = ok
        /\ worker'[w].blind = worker[w].blind
        /\ \A v \in Worker \ {w} : worker'[v] = worker[v]
    BY <2>1 DEF TypeOK, WorkerState
  <2>5. KnowStep
    BY <2>1, <2>4 DEF KnowStep, LossInv, Safe
  <2> QED BY <2>2, <2>3, <2>5, QuietLoss
<1>8. ASSUME NEW w \in Worker, IngestUnattributed(w) PROVE FALSE
  BY <1>8 DEF IngestUnattributed, Inject, LossFree
<1>9. ASSUME NEW w \in Worker, Settle(w) PROVE SafeStep /\ KnowStep /\ DoneStep
  <2>1. /\ worker[w].doing \in SUBSET Task /\ Outcome(worker[w].ok) \in Status
        /\ worker[w].pc = "settling"
    BY <1>9 DEF Settle, TypeOK, WorkerState, Outcome, Status
  <2>2. Outcome(worker[w].ok) = "completed" => \A t \in worker[w].doing : Safe(t.uid)
    BY <2>1 DEF LossInv, Outcome, TypeOK, WorkerState
  <2>3. DoneStep
    BY <1>9, <2>1, <2>2, WriteLoss DEF Settle
  <2>4. /\ worker'[w].pc = "fetching" /\ worker'[w].blind = worker[w].blind
        /\ \A v \in Worker \ {w} : worker'[v] = worker[v]
    BY <1>9 DEF Settle, TypeOK, WorkerState
  <2>5. KnowStep
    BY <2>4 DEF KnowStep, LossInv
  <2> QED BY <1>b, <1>9, <2>3, <2>5 DEF Settle
<1>10. ASSUME NEW w \in Worker, EndOfStream(w) PROVE SafeStep /\ KnowStep /\ DoneStep
  <2>1. \A t \in worker[w].tasks \cup worker[w].blind : t.uid \notin server
    BY <1>10 DEF EndOfStream, Inject, LossFree, LossInv
  <2>2. PICK pc \in {"idle", "purging"} : Goto(w, pc, worker[w].tasks \cup worker[w].blind)
    BY <1>10 DEF EndOfStream
  <2>3. UNCHANGED <<queue, server, stored, promised>>
    BY <1>10 DEF EndOfStream
  <2>4. KnowStep
    BY <1>c, <2>1, <2>2, <2>3
  <2> QED BY <1>b, <2>3, <2>4, QuietLoss
<1>11. ASSUME NEW w \in Worker, PurgeMissing(w) PROVE SafeStep /\ KnowStep /\ DoneStep
  <2>1. \A t \in worker[w].tasks : t.uid \notin server
    BY <1>11 DEF PurgeMissing, LossInv
  <2>2. UNCHANGED <<queue, server, promised>>
    BY <1>11 DEF PurgeMissing
  <2>3. SafeStep
    <3>1. PICK P \in SUBSET {t.uid : t \in worker[w].tasks} : stored' = stored \ P
      BY <1>11 DEF PurgeMissing
    <3>2. \A u \in P : u \notin server
      BY <2>1
    <3> QED BY <2>2, <3>1, <3>2 DEF SafeStep, Safe
  <2>4. KnowStep
    BY <1>c, <1>11, <2>1, <2>2 DEF PurgeMissing
  <2> QED BY <2>2, <2>3, <2>4, QuietLoss
<1>12. ASSUME NEW w \in Worker, CompleteMissing(w) PROVE SafeStep /\ KnowStep /\ DoneStep
  <2>1. worker[w].tasks \in SUBSET Task /\ \A t \in worker[w].tasks : Safe(t.uid)
    BY <1>12 DEF CompleteMissing, LossInv, TypeOK, WorkerState, Safe
  <2>2. DoneStep
    BY <1>12, <2>1, WriteLoss DEF CompleteMissing, Status
  <2>3. KnowStep
    BY <1>c, <1>12 DEF CompleteMissing
  <2> QED BY <1>b, <1>12, <2>2, <2>3 DEF CompleteMissing
<1>13. CASE RetrySelect
  BY <1>a, <1>b, <1>13, QuietLoss DEF RetrySelect
<1>14. CASE RetryApply
  <2>1. DoneStep
    BY <1>14, WriteLoss DEF RetryApply, Status, TypeOK
  <2> QED BY <1>a, <1>b, <1>14, <2>1 DEF RetryApply
<1>15. CASE CollectGarbage
  <2>1. ASSUME NEW u \in UID, HasRow(u)'
        PROVE  HasRow(u) /\ queue'[u] = queue[u]
    BY <1>15, <2>1 DEF CollectGarbage, HasRow
  <2>2. ASSUME NEW u \in promised' PROVE HasRow(u)' \/ Safe(u) \/ (u \in promised /\ ~HasRow(u))
    <3>1. u \in promised /\ u \in UID /\ ~(Garbage(u) /\ Exhausted(u))
      BY <1>15, <2>2 DEF CollectGarbage, TypeOK
    <3>2. CASE Garbage(u)
      BY <3>1, <3>2 DEF Garbage, LossInv
    <3>3. CASE ~Garbage(u)
      BY <1>15, <3>1, <3>3 DEF CollectGarbage, HasRow
    <3> QED BY <3>2, <3>3
  <2>3. DoneStep
    BY <2>1, <2>2 DEF DoneStep
  <2> QED BY <1>a, <1>b, <1>15, <2>3 DEF CollectGarbage
<1>16. CASE Tick
  <2>1. ASSUME NEW u \in UID
        PROVE  (HasRow(u)' <=> HasRow(u)) /\ (HasRow(u) => queue'[u].status = queue[u].status)
    <3>1. CASE Ageing(u)
      <4>1. queue'[u] = [queue[u] EXCEPT !.age = @ + 1] /\ HasRow(u) /\ queue[u] \in Row
        BY <1>16, <3>1 DEF Tick, Ageing, HasRow, TypeOK
      <4>2. queue'[u] \in Row /\ queue'[u].status = queue[u].status
        BY <4>1 DEF Row
      <4> QED BY <4>1, <4>2, ConstantsAssumption DEF HasRow, Row, Status
    <3>2. CASE ~Ageing(u)
      BY <1>16, <3>2 DEF Tick, HasRow
    <3> QED BY <3>1, <3>2
  <2>2. UNCHANGED <<worker, server, stored, promised>>
    BY <1>16 DEF Tick
  <2>3. DoneStep
    BY <2>1, <2>2 DEF DoneStep, TypeOK
  <2> QED BY <1>a, <1>b, <2>2, <2>3
<1>17. ASSUME NEW u \in UID, Expunge(u) PROVE SafeStep /\ KnowStep /\ DoneStep
  <2>1. SafeStep
    BY <1>17 DEF Expunge, SafeStep, Safe
  <2> QED BY <1>a, <1>17, <2>1, QuietLoss DEF Expunge
<1>18. CASE UNCHANGED vars
  BY <1>a, <1>b, <1>18, QuietLoss DEF vars
<1> QED
  BY <1>1, <1>2, <1>3, <1>4, <1>5, <1>6, <1>7, <1>8, <1>9, <1>10, <1>11, <1>12, <1>13,
     <1>14, <1>15, <1>16, <1>17, <1>18 DEF Next, WorkerStep

(* Whatever the interleaving, the stops, the takeovers and the lost status *)
(* updates, a message that was enqueued and is still on the server is      *)
(* stored, or its row is still there and not completed.                    *)
THEOREM NothingLost ==
    ASSUME LossFree
    PROVE  Spec => []NoMessageLost
<1>1. TypeOK /\ LossInv => NoMessageLost
  BY DEF TypeOK, LossInv, NoMessageLost, Safe
<1>2. TypeOK /\ TypeOK' /\ LossInv /\ [Next]_vars => LossInv'
  BY LossNext
<1> QED BY <1>1, <1>2, TypeInit, TypeNext, LossInit, PTL DEF Spec

------------------------------------------------------------------------------
(* The queue implements the ledger: every step of Next is a step of        *)
(* WorkLedger's next-state relation under the mapping, or leaves the       *)
(* ledger alone.                                                           *)

LedgerStep == [Ledger!Next]_(Ledger!vars)

LEMMA LedgerStutter ==
    ASSUME Owed' = Owed, Tries' = Tries, UNCHANGED <<server, stored>>
    PROVE  LedgerStep
BY DEF LedgerStep, Ledger!vars

LEMMA QuietLedger ==
    ASSUME UNCHANGED <<queue, server, stored>>
    PROVE  LedgerStep
<1>1. Owed' = Owed /\ Tries' = Tries
  BY DEF Owed, Tries, HasRow
<1> QED BY <1>1, LedgerStutter

LEMMA LedgerOwe ==
    ASSUME NEW S \in SUBSET UID, Owed' = Owed \cup S, Tries' = Tries, UNCHANGED <<server, stored>>
    PROVE  LedgerStep
BY DEF LedgerStep, Ledger!Next, Ledger!Owe

LEMMA LedgerSettle ==
    ASSUME NEW S \in SUBSET UID, S \cap server \subseteq stored, Owed' = Owed \ S,
           Tries' = Tries, UNCHANGED <<server, stored>>
    PROVE  LedgerStep
BY DEF LedgerStep, Ledger!Next, Ledger!Settle

(* A status update is an Owe or, of messages stored or gone, a Settle.     *)
LEMMA WriteLedger ==
    ASSUME TypeOK, UNCHANGED <<server, stored>>,
           NEW T \in SUBSET Task, NEW s \in Status, Write(T, s),
           s = "completed" => \A t \in T : Safe(t.uid)
    PROVE  LedgerStep
<1>1. ASSUME NEW u \in UID
      PROVE  /\ HasRow(u)' <=> HasRow(u)
             /\ HasRow(u) => queue'[u].attempts = queue[u].attempts
  <2>1. NoRow \notin Row
    BY ConstantsAssumption DEF Row, Status
  <2> QED BY <2>1, WriteEffect DEF HasRow
<1>2. Tries' = Tries
  BY <1>1 DEF Tries
<1>3. CASE s = "completed"
  <2>1. ASSUME NEW u \in UID, u \in Owed' PROVE u \in Owed
    BY <1>1, <1>3, <2>1, WriteEffect DEF Owed
  <2>2. ASSUME NEW u \in Owed \ Owed' PROVE Safe(u)
    <3>1. u \in UID /\ queue'[u] # queue[u]
      BY <1>1, <2>2 DEF Owed
    <3>2. \E t \in T : t.uid = u
      BY <3>1, WriteEffect
    <3> QED BY <1>3, <3>2
  <2>3. Owed' = Owed \ (Owed \ Owed') /\ Owed \ Owed' \in SUBSET UID
    BY <2>1 DEF Owed
  <2>4. (Owed \ Owed') \cap server \subseteq stored
    BY <2>2 DEF Safe
  <2> QED BY <1>2, <2>3, <2>4, LedgerSettle
<1>4. CASE s # "completed"
  <2>1. ASSUME NEW u \in Owed PROVE u \in Owed'
    BY <1>1, <1>4, <2>1, WriteEffect DEF Owed
  <2>2. Owed' = Owed \cup Owed' /\ Owed' \in SUBSET UID
    BY <2>1 DEF Owed
  <2> QED BY <1>2, <2>2, LedgerOwe
<1> QED BY <1>3, <1>4

LEMMA LedgerInit == Init => Ledger!Init
BY DEF Init, Ledger!Init, Owed, Tries, HasRow

LEMMA LedgerNext ==
    ASSUME LossFree, TypeOK, TypeOK', LossInv, [Next]_vars
    PROVE  LedgerStep
<1>0. NoRow \notin Row
  BY ConstantsAssumption DEF Row, Status
<1>1. ASSUME NEW S \in SUBSET UID, Enqueue(S) PROVE LedgerStep
  <2> DEFINE fresh == [gen |-> gen + 1, status |-> "pending", attempts |-> 0, age |-> 0]
  <2> DEFINE N == {u \in S : ~(HasRow(u) /\ queue[u].status = "completed")}
  <2>0. fresh \in Row
    BY DEF TypeOK, Row, Status
  <2>1. ASSUME NEW u \in UID
        PROVE  /\ u \in Owed' <=> u \in Owed \cup N
               /\ Tries'[u] = Tries[u]
    <3>1. CASE HasRow(u) /\ queue'[u] # queue[u]
      <4>1. queue[u] \in Row /\ queue'[u] = Touch(queue[u], "pending") /\ u \in S
            /\ queue[u].status # "completed"
        BY <1>1, <3>1 DEF Enqueue, Requeued, TypeOK, HasRow
      <4>2. queue'[u] \in Row /\ queue'[u].status = "pending"
            /\ queue'[u].attempts = queue[u].attempts
        BY <4>1, TouchRow DEF Status
      <4> QED BY <1>0, <3>1, <4>1, <4>2 DEF Owed, Tries, HasRow
    <3>2. CASE HasRow(u) /\ queue'[u] = queue[u]
      <4>1. u \in S => u \notin N \/ u \in Owed
        BY <3>2 DEF Owed
      <4> QED BY <3>2, <4>1 DEF Owed, Tries, HasRow
    <3>3. CASE ~HasRow(u) /\ u \in S
      <4>1. queue'[u] = fresh
        BY <1>1, <3>3 DEF Enqueue
      <4>2. HasRow(u)' /\ queue'[u].status # "completed" /\ queue'[u].attempts = 0
        BY <1>0, <2>0, <4>1 DEF HasRow
      <4> QED BY <3>3, <4>2 DEF Owed, Tries
    <3>4. CASE ~HasRow(u) /\ u \notin S
      <4>1. queue'[u] = queue[u]
        BY <1>1, <3>4 DEF Enqueue
      <4> QED BY <3>4, <4>1 DEF Owed, Tries, HasRow
    <3> QED BY <3>1, <3>2, <3>3, <3>4
  <2>2. Owed' = Owed \cup N
    BY <2>1 DEF Owed
  <2>3. Tries' = Tries
    BY <2>1 DEF Tries
  <2> QED BY <1>1, <2>2, <2>3, LedgerOwe DEF Enqueue
<1>2. CASE ClearFolder
  <2>1. \A u \in UID : ~HasRow(u)'
    BY <1>2 DEF ClearFolder, HasRow
  <2>2. Owed' = {} /\ Tries' = [u \in UID |-> 0]
    BY <2>1 DEF Owed, Tries
  <2> QED BY <1>2, <2>2 DEF ClearFolder, LedgerStep, Ledger!Next, Ledger!Reset
<1>3. ASSUME NEW w \in Worker,
             \/ Start(w) \/ Stop(w) \/ Select(w) \/ EndOfStream(w)
      PROVE  LedgerStep
  BY <1>3, QuietLedger DEF Start, Stop, Select, EndOfStream
<1>4. ASSUME NEW w \in Worker, Dequeue(w) PROVE LedgerStep
  <2>1. PICK S \in SUBSET {u \in UID : Eligible(u)} :
           queue' = [u \in UID |-> IF u \in S THEN Claim(queue[u]) ELSE queue[u]]
    BY <1>4 DEF Dequeue
  <2>2. ASSUME NEW u \in S
        PROVE  /\ u \in Owed /\ u \in Owed'
               /\ Tries'[u] = Tries[u] + 1
    <3>1. HasRow(u) /\ queue[u] \in Row /\ queue[u].status # "completed"
      BY DEF Eligible, HasRow, TypeOK
    <3>2. queue'[u] \in Row /\ queue'[u].status = "processing"
          /\ queue'[u].attempts = queue[u].attempts + 1
      BY <2>1, <3>1, ClaimRow
    <3> QED BY <1>0, <3>1, <3>2 DEF Owed, Tries, HasRow
  <2>3. ASSUME NEW u \in UID \ S
        PROVE  (u \in Owed' <=> u \in Owed) /\ Tries'[u] = Tries[u]
    <3>1. queue'[u] = queue[u]
      BY <2>1
    <3> QED BY <3>1 DEF Owed, Tries, HasRow
  <2>4. Owed' = Owed /\ S \subseteq Owed /\ S \in SUBSET UID
    BY <2>2, <2>3 DEF Owed
  <2>5. Tries' = [u \in UID |-> IF u \in S THEN Tries[u] + 1 ELSE Tries[u]]
    BY <2>2, <2>3 DEF Tries
  <2> QED BY <1>4, <2>4, <2>5 DEF Dequeue, LedgerStep, Ledger!Next, Ledger!Try
<1>5. ASSUME NEW w \in Worker, FailNext(w) PROVE LedgerStep
  <2>1. PICK t \in worker[w].tasks : Write({t}, "failed")
    BY <1>5 DEF FailNext
  <2>2. {t} \in SUBSET Task
    BY <2>1 DEF TypeOK, WorkerState
  <2> QED BY <1>5, <2>1, <2>2, WriteLedger DEF FailNext, Status
<1>6. ASSUME NEW w \in Worker, Ingest(w) PROVE LedgerStep
  <2>1. PICK t \in worker[w].tasks, ok \in BOOLEAN :
           t.uid \in server /\ stored' = IF ok THEN stored \cup {t.uid} ELSE stored
    BY <1>6 DEF Ingest
  <2>2. Owed' = Owed /\ Tries' = Tries /\ UNCHANGED server
    BY <1>6 DEF Ingest, Owed, Tries, HasRow
  <2>3. t.uid \in UID
    BY <2>1 DEF TypeOK
  <2>4. CASE ok
    BY <2>1, <2>2, <2>3, <2>4 DEF LedgerStep, Ledger!Next, Ledger!Store
  <2>5. CASE ~ok
    BY <2>1, <2>2, <2>5, LedgerStutter
  <2> QED BY <2>4, <2>5
<1>7. ASSUME NEW w \in Worker, IngestUnattributed(w) PROVE LedgerStep
  BY <1>7 DEF IngestUnattributed, Inject, LossFree
<1>8. ASSUME NEW w \in Worker, Settle(w) PROVE LedgerStep
  <2>1. /\ worker[w].doing \in SUBSET Task /\ Outcome(worker[w].ok) \in Status
        /\ worker[w].pc = "settling"
    BY <1>8 DEF Settle, TypeOK, WorkerState, Outcome, Status
  <2>2. Outcome(worker[w].ok) = "completed" => \A t \in worker[w].doing : Safe(t.uid)
    BY <2>1 DEF LossInv, Outcome, TypeOK, WorkerState
  <2> QED BY <1>8, <2>1, <2>2, WriteLedger DEF Settle
<1>9. ASSUME NEW w \in Worker, PurgeMissing(w) PROVE LedgerStep
  <2>1. \A t \in worker[w].tasks : t.uid \notin server /\ t.uid \in UID
    BY <1>9 DEF PurgeMissing, LossInv, TypeOK, WorkerState, Task
  <2>2. PICK P \in SUBSET {t.uid : t \in worker[w].tasks} : stored' = stored \ P
    BY <1>9 DEF PurgeMissing
  <2>3. P \cap server = {} /\ P \in SUBSET UID
    BY <2>1
  <2>4. Owed' = Owed /\ Tries' = Tries /\ UNCHANGED server
    BY <1>9 DEF PurgeMissing, Owed, Tries, HasRow
  <2> QED BY <2>2, <2>3, <2>4 DEF LedgerStep, Ledger!Next, Ledger!Purge
<1>10. ASSUME NEW w \in Worker, CompleteMissing(w) PROVE LedgerStep
  <2>1. worker[w].tasks \in SUBSET Task /\ \A t \in worker[w].tasks : Safe(t.uid)
    BY <1>10 DEF CompleteMissing, LossInv, TypeOK, WorkerState, Safe
  <2> QED BY <1>10, <2>1, WriteLedger DEF CompleteMissing, Status
<1>11. CASE RetrySelect
  BY <1>11, QuietLedger DEF RetrySelect
<1>12. CASE RetryApply
  BY <1>12, WriteLedger DEF RetryApply, Status, TypeOK
<1>13. CASE CollectGarbage
  <2> DEFINE A == {u \in UID : Garbage(u) /\ Exhausted(u)}
  <2> DEFINE F == {u \in UID : Garbage(u) /\ ~Exhausted(u)}
  <2>1. ASSUME NEW u \in UID
        PROVE  /\ HasRow(u)' <=> (HasRow(u) /\ ~Garbage(u))
               /\ ~Garbage(u) => queue'[u] = queue[u]
               /\ Garbage(u) => HasRow(u)
    BY <1>13 DEF CollectGarbage, HasRow, Garbage
  <2>2. \A u \in A : Tries[u] >= MaxAttempts
    BY DEF Exhausted, Tries
  <2>3. F \cap Owed = {}
    BY DEF Garbage, Owed
  <2>4. Owed' = Owed \ A
    BY <2>1, <2>3 DEF Owed
  <2>5. Tries' = [u \in UID |-> IF u \in A \cup F THEN 0 ELSE Tries[u]]
    BY <2>1 DEF Tries
  <2>6. Ledger!CloseAccount(A, F)
    BY <1>13, <2>2, <2>3, <2>4, <2>5 DEF CollectGarbage, Ledger!CloseAccount
  <2>7. A \in SUBSET UID /\ F \in SUBSET UID
    OBVIOUS
  <2> HIDE DEF A, F
  <2> QED BY <2>6, <2>7 DEF LedgerStep, Ledger!Next
<1>14. CASE Tick
  <2>1. ASSUME NEW u \in UID
        PROVE  /\ HasRow(u)' <=> HasRow(u)
               /\ HasRow(u) => /\ queue'[u].status = queue[u].status
                               /\ queue'[u].attempts = queue[u].attempts
    <3>1. CASE Ageing(u)
      <4>1. queue'[u] = [queue[u] EXCEPT !.age = @ + 1] /\ HasRow(u) /\ queue[u] \in Row
        BY <1>14, <3>1 DEF Tick, Ageing, HasRow, TypeOK
      <4>2. queue'[u] \in Row /\ queue'[u].status = queue[u].status
            /\ queue'[u].attempts = queue[u].attempts
        BY <4>1 DEF Row
      <4> QED BY <1>0, <4>1, <4>2 DEF HasRow
    <3>2. CASE ~Ageing(u)
      BY <1>14, <3>2 DEF Tick, HasRow
    <3> QED BY <3>1, <3>2
  <2>2. Owed' = Owed /\ Tries' = Tries
    BY <2>1 DEF Owed, Tries
  <2> QED BY <1>14, <2>2, LedgerStutter DEF Tick
<1>15. ASSUME NEW u \in UID, Expunge(u) PROVE LedgerStep
  <2>1. Owed' = Owed /\ Tries' = Tries
    BY <1>15 DEF Expunge, Owed, Tries, HasRow
  <2> QED BY <1>15, <2>1 DEF Expunge, LedgerStep, Ledger!Next, Ledger!Expunge
<1>16. CASE UNCHANGED vars
  BY <1>16, QuietLedger DEF vars
<1> QED
  BY <1>1, <1>2, <1>3, <1>4, <1>5, <1>6, <1>7, <1>8, <1>9, <1>10, <1>11, <1>12, <1>13,
     <1>14, <1>15, <1>16 DEF Next, WorkerStep

(* Every behaviour of the queue, its workers and its manager is a          *)
(* behaviour of the ledger.                                                *)
THEOREM QueueImplementsLedger ==
    ASSUME LossFree
    PROVE  Spec => ImplementsLedger
<1>1. TypeOK /\ TypeOK' /\ LossInv /\ [Next]_vars => LossInv'
  BY LossNext
<1>2. TypeOK /\ TypeOK' /\ LossInv /\ [Next]_vars => [Ledger!Next]_(Ledger!vars)
  BY LedgerNext DEF LedgerStep
<1> QED
  BY <1>1, <1>2, TypeInit, TypeNext, LossInit, LedgerInit, PTL
  DEF Spec, ImplementsLedger, Ledger!Spec

------------------------------------------------------------------------------
(* Attempts are bounded.  What a row may still cost is part of the         *)
(* invariant: while it can be claimed, each worker that does not hold its  *)
(* task may claim it once; a worker gives the task up by ending the row's  *)
(* claimable state or with a fault.  A row the queue manager has selected  *)
(* for a retry keeps the attempts of one more round in reserve, because    *)
(* the retry is applied whatever became of the row meanwhile.              *)

WorkersFinite == IsFiniteSet(Worker)

Claimable(u) == queue[u].status \in {"pending", "processing"}

FreeFor(u) == {w \in Worker : TaskOf(u) \notin Held(w)}

Claims(u) == IF Claimable(u) THEN Cardinality(FreeFor(u)) ELSE 0

(* Re-enqueues of the row, and faults.                                     *)
Renewals(u) == (gen - queue[u].gen) + faults

Allowance(u) == (MaxAttempts - 1) + Cardinality(Worker) * Renewals(u)

HandsInv ==
    /\ \A t \in retry : t.gen <= gen
    /\ \A w \in Worker :
         /\ worker[w].pc \in {"stopped", "idle"} => worker[w].tasks = {}
         /\ worker[w].pc \in {"fetching", "settling"} \/ worker[w].blind = {}
         /\ worker[w].pc = "settling" \/ worker[w].doing = {}

RoomInv ==
    \A u \in UID : HasRow(u) =>
        /\ queue[u].attempts + Claims(u) <= Allowance(u) + Cardinality(Worker)
        /\ TaskOf(u) \in retry => queue[u].attempts + Claims(u) <= Allowance(u)

Kept(u) ==
    /\ Claimable(u)' => Claimable(u) /\ FreeFor(u)' \subseteq FreeFor(u)
    /\ TaskOf(u)' \in retry' =>
          TaskOf(u) \in retry \/ (queue[u].attempts < MaxAttempts /\ ~Claimable(u)')

Renewed(u) == gen' + faults' >= gen + faults + 1 /\ retry' \subseteq retry

Retried(u) == TaskOf(u) \in retry /\ retry' = {}

Claimed(u) ==
    /\ Claimable(u)
    /\ \E w \in FreeFor(u) : FreeFor(u)' \subseteq FreeFor(u) \ {w}
    /\ retry' = retry

(* What a step may do to a row.                                            *)
RowOutcome(u) ==
    \/ ~HasRow(u)'
    \/ queue'[u].gen = gen' /\ gen' > gen /\ queue'[u].attempts = 0 /\ retry' \subseteq retry
    \/ /\ HasRow(u) /\ queue'[u].gen = queue[u].gen
       /\ queue'[u].attempts = queue[u].attempts
       /\ Kept(u) \/ Renewed(u) \/ Retried(u)
    \/ /\ HasRow(u) /\ queue'[u].gen = queue[u].gen
       /\ queue'[u].attempts = queue[u].attempts + 1
       /\ Claimed(u)

(* More renewals make room for at least as many claims as there are workers. *)
LEMMA Room ==
    ASSUME NEW k \in Nat, NEW d \in Nat, NEW e \in Nat, d <= e
    PROVE  /\ k * d \in Nat /\ k * e \in Nat
           /\ k * d <= k * e
           /\ d < e => k * d + k <= k * e
<1>1. PICK x \in Nat : e = d + x
  BY e - d \in Nat
<1>2. k * e = k * d + k * x /\ k * d \in Nat /\ k * x \in Nat
  BY <1>1
<1>3. ASSUME d < e PROVE k <= k * x
  <2>1. PICK y \in Nat : x = y + 1
    BY <1>1, <1>3, x - 1 \in Nat
  <2>2. k * x = k * y + k /\ k * y \in Nat
    BY <2>1
  <2> QED BY <2>2
<1> QED BY <1>2, <1>3

LEMMA ClaimsBounded ==
    ASSUME WorkersFinite, NEW u \in UID
    PROVE  /\ Cardinality(Worker) \in Nat
           /\ Claims(u) \in Nat /\ Claims(u) <= Cardinality(Worker)
           /\ IsFiniteSet(FreeFor(u)) /\ Cardinality(FreeFor(u)) \in Nat
           /\ Cardinality(FreeFor(u)) <= Cardinality(Worker)
<1>1. IsFiniteSet(FreeFor(u)) /\ Cardinality(FreeFor(u)) <= Cardinality(Worker)
  BY FS_Subset DEF WorkersFinite, FreeFor
<1>2. Cardinality(FreeFor(u)) \in Nat /\ Cardinality(Worker) \in Nat
  BY <1>1, FS_CardinalityType DEF WorkersFinite
<1> QED BY <1>1, <1>2 DEF Claims

LEMMA ClaimsBoundedAfter ==
    ASSUME WorkersFinite, NEW u \in UID
    PROVE  /\ Claims(u)' \in Nat /\ Claims(u)' <= Cardinality(Worker)
           /\ IsFiniteSet(FreeFor(u)') /\ Cardinality(FreeFor(u)') \in Nat
<1>1. IsFiniteSet(FreeFor(u)') /\ Cardinality(FreeFor(u)') <= Cardinality(Worker)
  <2>1. FreeFor(u)' \subseteq Worker
    BY DEF FreeFor
  <2> QED BY <2>1, FS_Subset DEF WorkersFinite
<1>2. Cardinality(FreeFor(u)') \in Nat /\ Cardinality(Worker) \in Nat
  BY <1>1, FS_CardinalityType DEF WorkersFinite
<1> QED BY <1>1, <1>2 DEF Claims

LEMMA RoomStep ==
    ASSUME WorkersFinite, TypeOK, TypeOK', ClaimInv, HandsInv, RoomInv, gen <= gen', faults <= faults',
           \A u \in UID : RowOutcome(u)
    PROVE  RoomInv'
<1> SUFFICES ASSUME NEW u \in UID, HasRow(u)'
             PROVE  /\ queue'[u].attempts + Claims(u)' <= Allowance(u)' + Cardinality(Worker)
                    /\ TaskOf(u)' \in retry' => queue'[u].attempts + Claims(u)' <= Allowance(u)'
  BY DEF RoomInv
<1> DEFINE k == Cardinality(Worker)
<1>1. /\ k \in Nat /\ Claims(u) \in Nat /\ Claims(u)' \in Nat
      /\ Claims(u) <= k /\ Claims(u)' <= k
  BY ClaimsBounded, ClaimsBoundedAfter
<1>2. /\ queue'[u] \in Row /\ queue'[u].attempts \in Nat /\ queue'[u].gen \in Nat
      /\ gen \in Nat /\ gen' \in Nat /\ faults \in Nat /\ faults' \in Nat
  BY DEF HasRow, TypeOK, Row
<1>3. MaxAttempts - 1 \in Nat
  BY ConstantsAssumption DEF ConstantsAssumption
<1>4. CASE queue'[u].gen = gen' /\ gen' > gen /\ queue'[u].attempts = 0 /\ retry' \subseteq retry
  <2>1. TaskOf(u)' \notin retry'
    BY <1>2, <1>4 DEF HandsInv, TaskOf, TypeOK
  <2>2. Renewals(u)' \in Nat
    <3>1. Renewals(u)' = (gen' - gen') + faults'
      BY <1>4 DEF Renewals
    <3>2. \A g, f \in Nat : (g - g) + f = f
      OBVIOUS
    <3> QED BY <1>2, <3>1, <3>2
  <2>3. Allowance(u)' \in Nat
    BY <1>1, <1>3, <2>2, Room DEF Allowance
  <2> QED BY <1>1, <1>4, <2>1, <2>3
<1>5. ASSUME HasRow(u), queue'[u].gen = queue[u].gen
      PROVE  /\ queue[u].attempts \in Nat
             /\ Renewals(u) \in Nat /\ Renewals(u)' \in Nat
             /\ Renewals(u)' - Renewals(u) = (gen' + faults') - (gen + faults)
             /\ Allowance(u) \in Nat /\ Allowance(u)' \in Nat
             /\ Allowance(u) <= Allowance(u)'
             /\ gen' + faults' >= gen + faults + 1 => Allowance(u) + k <= Allowance(u)'
             /\ queue[u].attempts + Claims(u) <= Allowance(u) + k
             /\ TaskOf(u) \in retry => queue[u].attempts + Claims(u) <= Allowance(u)
             /\ TaskOf(u)' = TaskOf(u)
  <2>1. queue[u].gen \in Nat /\ queue[u].attempts \in Nat /\ queue[u].gen <= gen
    BY <1>5 DEF HasRow, TypeOK, Row, ClaimInv
  <2>2. /\ Renewals(u) = (gen - queue[u].gen) + faults
        /\ Renewals(u)' = (gen' - queue[u].gen) + faults'
    BY <1>5 DEF Renewals
  <2>3. /\ Renewals(u) \in Nat /\ Renewals(u)' \in Nat /\ Renewals(u) <= Renewals(u)'
        /\ Renewals(u)' - Renewals(u) = (gen' + faults') - (gen + faults)
    BY <1>2, <2>1, <2>2
  <2>4. /\ k * Renewals(u) \in Nat /\ k * Renewals(u)' \in Nat
        /\ k * Renewals(u) <= k * Renewals(u)'
        /\ Renewals(u) < Renewals(u)' => k * Renewals(u) + k <= k * Renewals(u)'
    BY <1>1, <2>3, Room
  <2>5. /\ Allowance(u) = (MaxAttempts - 1) + k * Renewals(u)
        /\ Allowance(u)' = (MaxAttempts - 1) + k * Renewals(u)'
    BY DEF Allowance
  <2>6. /\ Allowance(u) \in Nat /\ Allowance(u)' \in Nat
        /\ Allowance(u) <= Allowance(u)'
        /\ gen' + faults' >= gen + faults + 1 => Allowance(u) + k <= Allowance(u)'
    <3>1. gen' + faults' >= gen + faults + 1 => Renewals(u) < Renewals(u)'
      <4>1. \A a, b, c, d, r, s \in Nat :
               s - r = (c + d) - (a + b) /\ c + d >= a + b + 1 => r < s
        OBVIOUS
      <4> QED BY <1>2, <2>3, <4>1
    <3> HIDE DEF k
    <3> QED BY <1>1, <1>3, <2>4, <2>5, <3>1
  <2>7. TaskOf(u)' = TaskOf(u)
    BY <1>5 DEF TaskOf
  <2> QED BY <1>5, <2>1, <2>3, <2>6, <2>7 DEF RoomInv
<1>6. CASE /\ HasRow(u) /\ queue'[u].gen = queue[u].gen
           /\ queue'[u].attempts = queue[u].attempts
           /\ Kept(u)
  <2>1. Claims(u)' <= Claims(u)
    <3>1. CASE Claimable(u)'
      <4>1. Cardinality(FreeFor(u)') <= Cardinality(FreeFor(u))
        BY <1>6, <3>1, ClaimsBounded, FS_Subset DEF Kept
      <4> QED BY <1>6, <3>1, <4>1 DEF Claims, Kept
    <3>2. CASE ~Claimable(u)'
      BY <1>1, <3>2 DEF Claims
    <3> QED BY <3>1, <3>2
  <2>2. ASSUME TaskOf(u)' \in retry' PROVE queue'[u].attempts + Claims(u)' <= Allowance(u)'
    <3>1. CASE TaskOf(u) \in retry
      BY <1>1, <1>2, <1>5, <1>6, <2>1, <3>1
    <3>2. CASE queue[u].attempts < MaxAttempts /\ ~Claimable(u)'
      <4>1. Claims(u)' = 0
        BY <3>2 DEF Claims
      <4>2. Allowance(u)' >= MaxAttempts - 1
        <5>1. k * Renewals(u)' \in Nat
          BY <1>1, <1>5, <1>6, Room
        <5> QED BY <1>3, <5>1 DEF Allowance
      <4> QED BY ConstantsAssumption, <1>2, <1>3, <1>5, <1>6, <3>2, <4>1, <4>2
              DEF ConstantsAssumption
    <3> QED BY <1>6, <2>2, <3>1, <3>2 DEF Kept
  <2>3. queue'[u].attempts + Claims(u)' <= Allowance(u)' + k
    <3> HIDE DEF k
    <3> QED BY <1>1, <1>2, <1>5, <1>6, <2>1
  <2> QED BY <2>2, <2>3
<1>7. CASE /\ HasRow(u) /\ queue'[u].gen = queue[u].gen
           /\ queue'[u].attempts = queue[u].attempts
           /\ Renewed(u)
  <2>1. Allowance(u) + k <= Allowance(u)' /\ retry' \subseteq retry
    BY <1>5, <1>7 DEF Renewed
  <2>2. queue'[u].attempts + Claims(u)' <= Allowance(u)' + k
    <3> HIDE DEF k
    <3> QED BY <1>1, <1>2, <1>5, <1>7, <2>1
  <2>3. ASSUME TaskOf(u)' \in retry' PROVE queue'[u].attempts + Claims(u)' <= Allowance(u)'
    <3>1. queue[u].attempts + Claims(u) <= Allowance(u)
      BY <1>5, <1>7, <2>1, <2>3
    <3> HIDE DEF k
    <3> QED BY <1>1, <1>2, <1>5, <1>7, <2>1, <3>1
  <2> QED BY <2>2, <2>3
<1>8. CASE /\ HasRow(u) /\ queue'[u].gen = queue[u].gen
           /\ queue'[u].attempts = queue[u].attempts
           /\ Retried(u)
  <2>1. queue[u].attempts + Claims(u) <= Allowance(u) /\ retry' = {}
    BY <1>5, <1>8 DEF Retried
  <2>2. queue'[u].attempts + Claims(u)' <= Allowance(u)' + k
    <3> HIDE DEF k
    <3> QED BY <1>1, <1>2, <1>5, <1>8, <2>1
  <2> QED BY <2>1, <2>2
<1>9. CASE /\ HasRow(u) /\ queue'[u].gen = queue[u].gen
           /\ queue'[u].attempts = queue[u].attempts + 1
           /\ Claimed(u)
  <2>1. PICK w \in FreeFor(u) : FreeFor(u)' \subseteq FreeFor(u) \ {w}
    BY <1>9 DEF Claimed
  <2>2. /\ IsFiniteSet(FreeFor(u) \ {w})
        /\ Cardinality(FreeFor(u) \ {w}) = Cardinality(FreeFor(u)) - 1
    BY <2>1, ClaimsBounded, FS_RemoveElement
  <2>3. Cardinality(FreeFor(u)') <= Cardinality(FreeFor(u)) - 1
    BY <2>1, <2>2, FS_Subset
  <2>4. Cardinality(FreeFor(u)) \in Nat /\ Cardinality(FreeFor(u)') \in Nat
    BY ClaimsBounded, ClaimsBoundedAfter
  <2>5. Claims(u) = Cardinality(FreeFor(u))
    BY <1>9 DEF Claims, Claimed
  <2>6. Claims(u) >= 1
    <3>1. FreeFor(u) # {}
      BY <2>1
    <3> QED BY <2>3, <2>4, <2>5
  <2>7. Claims(u)' + 1 <= Claims(u)
    BY <2>3, <2>4, <2>5, <2>6 DEF Claims
  <2>8. queue'[u].attempts + Claims(u)' <= queue[u].attempts + Claims(u)
    BY <1>1, <1>5, <1>9, <2>7
  <2>9. TaskOf(u)' \in retry' => TaskOf(u) \in retry
    BY <1>5, <1>9 DEF Claimed
  <2>10. queue'[u].attempts + Claims(u)' <= Allowance(u)' + k
    <3> HIDE DEF k
    <3> QED BY <1>1, <1>2, <1>5, <1>9, <2>8
  <2>11. TaskOf(u)' \in retry' => queue'[u].attempts + Claims(u)' <= Allowance(u)'
    BY <1>1, <1>2, <1>5, <1>9, <2>8, <2>9
  <2> QED BY <2>10, <2>11
<1> HIDE DEF k
<1>10. RowOutcome(u)
  OBVIOUS
<1> QED BY <1>4, <1>6, <1>7, <1>8, <1>9, <1>10 DEF RowOutcome, k
(* Rows keep their identity and attempts, and no worker lets go of a task. *)
LEMMA KeptOutcome ==
    ASSUME TypeOK, gen' = gen, retry' \subseteq retry, NEW u \in UID,
           HasRow(u)' => /\ HasRow(u) /\ queue'[u].gen = queue[u].gen
                         /\ queue'[u].attempts = queue[u].attempts
                         /\ \/ queue'[u].status \notin {"pending", "processing"}
                            \/ /\ queue'[u].status = queue[u].status
                               /\ \A w \in Worker : TaskOf(u) \in Held(w) => TaskOf(u) \in Held(w)'
    PROVE  RowOutcome(u)
<1>1. CASE ~HasRow(u)'
  BY <1>1 DEF RowOutcome
<1>2. CASE HasRow(u)'
  <2>1. TaskOf(u)' = TaskOf(u)
    BY <1>2 DEF TaskOf
  <2>2. Claimable(u)' => Claimable(u) /\ FreeFor(u)' \subseteq FreeFor(u)
    BY <1>2, <2>1 DEF Claimable, FreeFor
  <2>3. TaskOf(u)' \in retry' => TaskOf(u) \in retry
    BY <2>1
  <2> QED BY <1>2, <2>2, <2>3 DEF RowOutcome, Kept
<1> QED BY <1>1, <1>2

LEMMA QuietOutcome ==
    ASSUME TypeOK, UNCHANGED <<queue, gen>>, retry' \subseteq retry,
           \A w \in Worker : Held(w) \subseteq Held(w)'
    PROVE  \A u \in UID : RowOutcome(u)
<1> SUFFICES ASSUME NEW u \in UID PROVE RowOutcome(u)
  OBVIOUS
<1>1. HasRow(u)' => HasRow(u)
  BY DEF HasRow
<1> QED BY <1>1, KeptOutcome

LEMMA FaultOutcome ==
    ASSUME TypeOK, UNCHANGED <<queue, gen>>, retry' \subseteq retry, faults' = faults + 1
    PROVE  \A u \in UID : RowOutcome(u)
<1> SUFFICES ASSUME NEW u \in UID PROVE RowOutcome(u)
  OBVIOUS
<1>1. HasRow(u)' => HasRow(u)
  BY DEF HasRow
<1>2. Renewed(u)
  BY DEF Renewed, TypeOK
<1> QED BY <1>1, <1>2 DEF RowOutcome

(* A worker that gives up tasks settles them, or meets a fault.            *)
LEMMA WriteOutcome ==
    ASSUME TypeOK, NEW w \in Worker, NEW T \in SUBSET Task, NEW s \in {"completed", "failed"},
           Write(T, s), UNCHANGED <<gen, retry>>,
           Held(w) \subseteq Held(w)' \cup T,
           \A v \in Worker \ {w} : Held(v)' = Held(v)
    PROVE  faults <= faults' /\ \A u \in UID : RowOutcome(u)
<1>1. CASE Inject("write") /\ UNCHANGED queue
  <2>1. faults' = faults + 1
    BY <1>1 DEF Inject
  <2> QED BY <1>1, <2>1, FaultOutcome DEF TypeOK
<1>2. CASE queue' = SetStatus(T, s) /\ UNCHANGED faults
  <2>1. ASSUME NEW u \in UID PROVE RowOutcome(u)
    <3>1. CASE ~HasRow(u)
      <4>1. queue'[u] = queue[u]
        BY <1>2, <3>1 DEF SetStatus, Live
      <4> QED BY <3>1, <4>1, KeptOutcome DEF HasRow
    <3>2. CASE HasRow(u) /\ TaskOf(u) \in T
      <4>1. queue[u] \in Row
        BY <3>2 DEF HasRow, TypeOK
      <4>2. \E t \in T : t.uid = u /\ Live(t)
        BY <3>2 DEF Live, TaskOf, HasRow
      <4>3. queue'[u] = Touch(queue[u], s)
        BY <1>2, <4>2 DEF SetStatus
      <4>4. /\ queue'[u].gen = queue[u].gen /\ queue'[u].attempts = queue[u].attempts
            /\ queue'[u].status \notin {"pending", "processing"}
        BY <4>1, <4>3, TouchRow DEF Status
      <4> QED BY <3>2, <4>4, KeptOutcome
    <3>3. CASE HasRow(u) /\ TaskOf(u) \notin T
      <4>1. \A t \in T : ~(t.uid = u /\ Live(t))
        BY <3>3 DEF Live, TaskOf, Task
      <4>2. queue'[u] = queue[u]
        BY <1>2, <4>1 DEF SetStatus
      <4>3. \A v \in Worker : TaskOf(u) \in Held(v) => TaskOf(u) \in Held(v)'
        BY <3>3
      <4> QED BY <3>3, <4>2, <4>3, KeptOutcome
    <3> QED BY <3>1, <3>2, <3>3
  <2> QED BY <1>2, <2>1 DEF TypeOK
<1> QED BY <1>1, <1>2 DEF Write

LEMMA GotoHands ==
    ASSUME TypeOK, NEW w \in Worker, NEW pc, NEW T, Goto(w, pc, T)
    PROVE  /\ Held(w)' = T
           /\ \A v \in Worker \ {w} : Held(v)' = Held(v)
           /\ HandsInv /\ (pc \in {"stopped", "idle"} => T = {}) /\ retry' \subseteq retry
                /\ gen' = gen /\ gen \in Nat => HandsInv'
<1>1. /\ \A v \in Worker \ {w} : worker'[v] = worker[v]
      /\ worker'[w].pc = pc /\ worker'[w].tasks = T
      /\ worker'[w].blind = {} /\ worker'[w].doing = {}
  BY GotoEffect
<1>2. Held(w)' = T /\ \A v \in Worker \ {w} : Held(v)' = Held(v)
  BY <1>1 DEF Held
<1> QED BY <1>1, <1>2 DEF HandsInv

(* What a step must show: tasks in hand keep to their states, rows to      *)
(* their outcomes.                                                         *)
BoundStep ==
    /\ gen <= gen' /\ faults <= faults'
    /\ HandsInv'
    /\ \A u \in UID : RowOutcome(u)

LEMMA BoundInit == ASSUME WorkersFinite PROVE Init => HandsInv /\ RoomInv
BY DEF Init, HandsInv, RoomInv, AtRest, HasRow

LEMMA BoundNext == TypeOK /\ ClaimInv /\ HandsInv /\ [Next]_vars => BoundStep
<1> SUFFICES ASSUME TypeOK, ClaimInv, HandsInv, [Next]_vars PROVE BoundStep
  OBVIOUS
<1>0. gen \in Nat /\ faults \in Nat
  BY DEF TypeOK
<1>1. ASSUME UNCHANGED <<worker, retry>>, gen <= gen', gen' \in Nat PROVE HandsInv'
  <2>1. \A t \in retry : t.gen \in Nat
    BY DEF TypeOK, Task
  <2> QED BY <1>0, <1>1, <2>1 DEF HandsInv
<1>a. UNCHANGED worker => \A w \in Worker : Held(w)' = Held(w)
  BY DEF Held
<1>2. ASSUME NEW S \in SUBSET UID, Enqueue(S) PROVE BoundStep
  <2>1. gen' = gen + 1 /\ UNCHANGED <<worker, retry, faults>>
    BY <1>2 DEF Enqueue
  <2>2. ASSUME NEW u \in UID PROVE RowOutcome(u)
    <3>1. CASE ~HasRow(u) /\ u \in S
      <4>1. queue'[u] = [gen |-> gen + 1, status |-> "pending", attempts |-> 0, age |-> 0]
        BY <1>2, <3>1 DEF Enqueue
      <4> QED BY <1>0, <2>1, <4>1 DEF RowOutcome
    <3>2. CASE ~HasRow(u) /\ u \notin S
      <4>1. queue'[u] = queue[u]
        BY <1>2, <3>2 DEF Enqueue
      <4> QED BY <3>2, <4>1 DEF RowOutcome, HasRow
    <3>3. CASE HasRow(u)
      <4>1. queue[u] \in Row
        BY <3>3 DEF HasRow, TypeOK
      <4>2. queue'[u] = queue[u] \/ queue'[u] = Touch(queue[u], "pending")
        BY <1>2, <3>3 DEF Enqueue, Requeued
      <4>3. queue'[u].gen = queue[u].gen /\ queue'[u].attempts = queue[u].attempts
        BY <4>1, <4>2, TouchRow DEF Status
      <4>4. Renewed(u)
        BY <1>0, <2>1 DEF Renewed
      <4> QED BY <3>3, <4>3, <4>4 DEF RowOutcome
    <3> QED BY <3>1, <3>2, <3>3
  <2> QED BY <1>0, <1>1, <2>1, <2>2 DEF BoundStep
<1>3. CASE ClearFolder
  <2>1. \A u \in UID : ~HasRow(u)'
    BY <1>3 DEF ClearFolder, HasRow
  <2>2. \A u \in UID : RowOutcome(u)
    BY <2>1 DEF RowOutcome
  <2> QED BY <1>0, <1>1, <1>3, <2>2 DEF BoundStep, ClearFolder
<1>4. ASSUME NEW w \in Worker, Start(w) PROVE BoundStep
  <2>1. worker[w].tasks = {} /\ worker[w].blind = {} /\ worker[w].doing = {}
    BY <1>4 DEF Start, HandsInv
  <2>2. Goto(w, "idle", {}) /\ UNCHANGED <<queue, gen, retry, faults>>
    BY <1>4 DEF Start
  <2>3. \A v \in Worker : Held(v) \subseteq Held(v)'
    <3>1. Held(w) = {}
      BY <2>1 DEF Held
    <3> QED BY <2>2, <3>1, GotoHands
  <2>4. HandsInv'
    BY <1>0, <2>2, GotoHands
  <2> QED BY <1>0, <2>2, <2>3, <2>4, QuietOutcome DEF BoundStep
<1>5. ASSUME NEW w \in Worker, Stop(w) PROVE BoundStep
  <2>1. Goto(w, "stopped", {}) /\ UNCHANGED <<queue, gen, retry>> /\ faults' = faults + 1
    BY <1>5 DEF Stop, Inject
  <2>2. HandsInv'
    BY <1>0, <2>1, GotoHands
  <2> QED BY <1>0, <2>1, <2>2, FaultOutcome DEF BoundStep
<1>6. ASSUME NEW w \in Worker, Dequeue(w) PROVE BoundStep
  <2>1. PICK S \in SUBSET {u \in UID : Eligible(u)} :
           /\ queue' = [u \in UID |-> IF u \in S THEN Claim(queue[u]) ELSE queue[u]]
           /\ Goto(w, "select", {TaskOf(u) : u \in S})
    BY <1>6 DEF Dequeue
  <2>2. UNCHANGED <<gen, retry, faults>>
    BY <1>6 DEF Dequeue
  <2>3. Held(w) = {}
    <3>1. worker[w].tasks = {} /\ worker[w].blind = {} /\ worker[w].doing = {}
      BY <1>6 DEF Dequeue, HandsInv
    <3> QED BY <3>1 DEF Held
  <2>4. Held(w)' = {TaskOf(u) : u \in S} /\ \A v \in Worker \ {w} : Held(v)' = Held(v)
    BY <2>1, GotoHands
  <2>5. ASSUME NEW u \in UID PROVE RowOutcome(u)
    <3>1. CASE u \in S
      <4>1. HasRow(u) /\ queue[u] \in Row /\ Claimable(u)
        BY <2>1, <3>1 DEF Eligible, HasRow, TypeOK, Claimable
      <4>2. queue'[u] = Claim(queue[u])
        BY <2>1, <3>1
      <4>3. queue'[u].gen = queue[u].gen /\ queue'[u].attempts = queue[u].attempts + 1
        BY <4>1, <4>2, ClaimRow
      <4>4. TaskOf(u)' = TaskOf(u)
        BY <4>3 DEF TaskOf
      <4>5. w \in FreeFor(u)
        BY <2>3 DEF FreeFor
      <4>6. FreeFor(u)' \subseteq FreeFor(u) \ {w}
        BY <2>4, <3>1, <4>4 DEF FreeFor
      <4>7. Claimed(u)
        BY <2>2, <4>1, <4>5, <4>6 DEF Claimed
      <4> QED BY <4>1, <4>3, <4>7 DEF RowOutcome
    <3>2. CASE u \notin S
      <4>1. queue'[u] = queue[u]
        BY <2>1, <3>2
      <4>2. \A v \in Worker : TaskOf(u) \in Held(v) => TaskOf(u) \in Held(v)'
        BY <2>3, <2>4
      <4> QED BY <2>2, <4>1, <4>2, KeptOutcome DEF HasRow
    <3> QED BY <3>1, <3>2
  <2>6. HandsInv'
    BY <1>0, <2>1, <2>2, GotoHands
  <2> QED BY <1>0, <2>2, <2>5, <2>6 DEF BoundStep
<1>7. ASSUME NEW w \in Worker, Select(w) PROVE BoundStep
  <2>1. PICK pc \in {"fetching", "failing"} : Goto(w, pc, worker[w].tasks)
    BY <1>7 DEF Select
  <2>2. UNCHANGED <<queue, gen, retry, faults>>
    BY <1>7 DEF Select
  <2>3. Held(w) = worker[w].tasks
    <3>1. worker[w].blind = {} /\ worker[w].doing = {}
      BY <1>7 DEF Select, HandsInv
    <3> QED BY <3>1 DEF Held
  <2>4. \A v \in Worker : Held(v) \subseteq Held(v)'
    BY <2>1, <2>3, GotoHands
  <2>5. HandsInv'
    BY <1>0, <2>1, <2>2, GotoHands
  <2> QED BY <1>0, <2>2, <2>4, <2>5, QuietOutcome DEF BoundStep
<1>8. ASSUME NEW w \in Worker, FailNext(w) PROVE BoundStep
  <2>1. PICK t \in worker[w].tasks :
           /\ Write({t}, "failed")
           /\ Goto(w, IF worker[w].tasks \ {t} = {} THEN "idle" ELSE "failing",
                   worker[w].tasks \ {t})
    BY <1>8 DEF FailNext
  <2>2. UNCHANGED <<gen, retry>>
    BY <1>8 DEF FailNext
  <2>3. Held(w) = worker[w].tasks
    <3>1. worker[w].blind = {} /\ worker[w].doing = {}
      BY <1>8 DEF FailNext, HandsInv
    <3> QED BY <3>1 DEF Held
  <2>4. {t} \in SUBSET Task
    BY <2>1 DEF TypeOK, WorkerState
  <2>5. Held(w) \subseteq Held(w)' \cup {t} /\ \A v \in Worker \ {w} : Held(v)' = Held(v)
    BY <2>1, <2>3, GotoHands
  <2>6. HandsInv'
    BY <1>0, <2>1, <2>2, GotoHands
  <2> QED BY <1>0, <2>1, <2>2, <2>4, <2>5, <2>6, WriteOutcome DEF BoundStep
<1>9. ASSUME NEW w \in Worker, Ingest(w) PROVE BoundStep
  <2>1. PICK t \in worker[w].tasks, ok \in BOOLEAN :
           worker' = [worker EXCEPT ![w].pc = "settling", ![w].doing = {t},
                                    ![w].ok = ok, ![w].tasks = @ \ {t}]
    BY <1>9 DEF Ingest
  <2>2. /\ worker'[w].tasks = worker[w].tasks \ {t} /\ worker'[w].pc = "settling"
        /\ worker'[w].blind = worker[w].blind /\ worker'[w].doing = {t}
        /\ \A v \in Worker \ {w} : worker'[v] = worker[v]
    BY <2>1 DEF TypeOK, WorkerState
  <2>3. worker[w].doing = {} /\ UNCHANGED <<queue, gen, retry, faults>>
    BY <1>9 DEF Ingest, HandsInv
  <2>4. \A v \in Worker : Held(v) \subseteq Held(v)'
    BY <2>1, <2>2, <2>3 DEF Held
  <2>5. HandsInv'
    BY <1>0, <2>2, <2>3 DEF HandsInv
  <2> QED BY <1>0, <2>3, <2>4, <2>5, QuietOutcome DEF BoundStep
<1>10. ASSUME NEW w \in Worker, IngestUnattributed(w) PROVE BoundStep
  <2>1. PICK t \in worker[w].tasks :
           worker' = [worker EXCEPT ![w].tasks = @ \ {t}, ![w].blind = @ \cup {t}]
    BY <1>10 DEF IngestUnattributed
  <2>2. /\ worker'[w].pc = "fetching" /\ worker'[w].doing = worker[w].doing
        /\ \A v \in Worker \ {w} : worker'[v] = worker[v]
    BY <1>10, <2>1 DEF IngestUnattributed, TypeOK, WorkerState
  <2>3. UNCHANGED <<queue, gen, retry>> /\ faults' = faults + 1 /\ worker[w].pc = "fetching"
    BY <1>10 DEF IngestUnattributed, Inject
  <2>4. HandsInv'
    BY <1>0, <2>2, <2>3 DEF HandsInv
  <2> QED BY <1>0, <2>3, <2>4, FaultOutcome DEF BoundStep
<1>11. ASSUME NEW w \in Worker, Settle(w) PROVE BoundStep
  <2>1. /\ worker'[w].tasks = worker[w].tasks /\ worker'[w].blind = worker[w].blind
        /\ worker'[w].doing = {} /\ worker'[w].pc = "fetching"
        /\ \A v \in Worker \ {w} : worker'[v] = worker[v]
    BY <1>11 DEF Settle, TypeOK, WorkerState
  <2>2. /\ worker[w].doing \in SUBSET Task /\ Outcome(worker[w].ok) \in {"completed", "failed"}
        /\ Write(worker[w].doing, Outcome(worker[w].ok)) /\ UNCHANGED <<gen, retry>>
    BY <1>11 DEF Settle, TypeOK, WorkerState, Outcome
  <2>3. Held(w) \subseteq Held(w)' \cup worker[w].doing /\ \A v \in Worker \ {w} : Held(v)' = Held(v)
    BY <2>1 DEF Held
  <2>4. HandsInv'
    BY <1>0, <2>1, <2>2 DEF HandsInv
  <2> QED BY <1>0, <2>2, <2>3, <2>4, WriteOutcome DEF BoundStep
<1>12. ASSUME NEW w \in Worker, EndOfStream(w) PROVE BoundStep
  <2> DEFINE missing == worker[w].tasks \cup worker[w].blind
  <2>1. /\ Goto(w, IF missing = {} THEN "idle" ELSE "purging", missing)
        /\ UNCHANGED <<queue, gen, retry>>
        /\ faults' = faults \/ faults' = faults + 1
    BY <1>12 DEF EndOfStream, Inject
  <2>2. Held(w) = missing
    <3>1. worker[w].doing = {}
      BY <1>12 DEF EndOfStream, HandsInv
    <3> QED BY <3>1 DEF Held
  <2>3. \A v \in Worker : Held(v) \subseteq Held(v)'
    BY <2>1, <2>2, GotoHands
  <2>4. HandsInv'
    BY <1>0, <2>1, GotoHands
  <2> QED BY <1>0, <2>1, <2>3, <2>4, QuietOutcome DEF BoundStep
<1>13. ASSUME NEW w \in Worker, PurgeMissing(w) PROVE BoundStep
  <2>1. Goto(w, "closing", worker[w].tasks) /\ UNCHANGED <<queue, gen, retry, faults>>
    BY <1>13 DEF PurgeMissing
  <2>2. Held(w) = worker[w].tasks
    <3>1. worker[w].blind = {} /\ worker[w].doing = {}
      BY <1>13 DEF PurgeMissing, HandsInv
    <3> QED BY <3>1 DEF Held
  <2>3. \A v \in Worker : Held(v) \subseteq Held(v)'
    BY <2>1, <2>2, GotoHands
  <2>4. HandsInv'
    BY <1>0, <2>1, GotoHands
  <2> QED BY <1>0, <2>1, <2>3, <2>4, QuietOutcome DEF BoundStep
<1>14. ASSUME NEW w \in Worker, CompleteMissing(w) PROVE BoundStep
  <2>1. /\ Write(worker[w].tasks, "completed") /\ Goto(w, "idle", {})
        /\ UNCHANGED <<gen, retry>> /\ worker[w].tasks \in SUBSET Task
    BY <1>14 DEF CompleteMissing, TypeOK, WorkerState
  <2>2. Held(w) = worker[w].tasks
    <3>1. worker[w].blind = {} /\ worker[w].doing = {}
      BY <1>14 DEF CompleteMissing, HandsInv
    <3> QED BY <3>1 DEF Held
  <2>3. Held(w) \subseteq Held(w)' \cup worker[w].tasks /\ \A v \in Worker \ {w} : Held(v)' = Held(v)
    BY <2>1, <2>2, GotoHands
  <2>4. HandsInv'
    BY <1>0, <2>1, GotoHands
  <2> QED BY <1>0, <2>1, <2>3, <2>4, WriteOutcome DEF BoundStep
<1>15. CASE RetrySelect
  <2>1. /\ retry' = {TaskOf(u) : u \in {v \in UID : Retryable(v)}}
        /\ UNCHANGED <<queue, gen, worker, faults>>
    BY <1>15 DEF RetrySelect
  <2>2. \A t \in retry' : t.gen <= gen
    BY <2>1 DEF TaskOf, Retryable, ClaimInv
  <2>3. HandsInv'
    BY <2>1, <2>2 DEF HandsInv
  <2>4. ASSUME NEW u \in UID PROVE RowOutcome(u)
    <3>1. CASE ~HasRow(u)
      BY <2>1, <3>1 DEF RowOutcome, HasRow
    <3>2. CASE HasRow(u)
      <4>1. TaskOf(u)' = TaskOf(u) /\ FreeFor(u)' = FreeFor(u) /\ Claimable(u)' = Claimable(u)
        BY <1>a, <2>1 DEF TaskOf, FreeFor, Claimable
      <4>2. ASSUME TaskOf(u) \in retry' PROVE queue[u].attempts < MaxAttempts /\ ~Claimable(u)
        <5>1. PICK v \in UID : Retryable(v) /\ TaskOf(u) = TaskOf(v)
          BY <2>1, <4>2
        <5>2. u = v
          BY <5>1 DEF TaskOf
        <5> QED BY <5>1, <5>2 DEF Retryable, Claimable
      <4>3. Kept(u)
        BY <4>1, <4>2 DEF Kept
      <4> QED BY <2>1, <3>2, <4>3 DEF RowOutcome, HasRow
    <3> QED BY <3>1, <3>2
  <2> QED BY <1>0, <2>1, <2>3, <2>4 DEF BoundStep
<1>16. CASE RetryApply
  <2>1. Write(retry, "pending") /\ retry' = {} /\ UNCHANGED <<gen, worker>>
    BY <1>16 DEF RetryApply
  <2>2. HandsInv'
    BY <2>1 DEF HandsInv
  <2>3. CASE Inject("write") /\ UNCHANGED queue
    <3>1. faults' = faults + 1 /\ retry' \subseteq retry
      BY <2>1, <2>3 DEF Inject
    <3> QED BY <1>0, <2>1, <2>2, <2>3, <3>1, FaultOutcome DEF BoundStep
  <2>4. CASE queue' = SetStatus(retry, "pending") /\ UNCHANGED faults
    <3>1. ASSUME NEW u \in UID PROVE RowOutcome(u)
      <4>1. CASE \E t \in retry : t.uid = u /\ Live(t)
        <5>1. HasRow(u) /\ queue[u] \in Row
          BY <4>1 DEF Live, HasRow, TypeOK
        <5>2. TaskOf(u) \in retry
          BY <4>1 DEF Live, TaskOf, Task, TypeOK
        <5>3. queue'[u] = Touch(queue[u], "pending")
          BY <2>4, <4>1 DEF SetStatus
        <5>4. queue'[u].gen = queue[u].gen /\ queue'[u].attempts = queue[u].attempts
          BY <5>1, <5>3, TouchRow DEF Status
        <5> QED BY <2>1, <5>1, <5>2, <5>4 DEF RowOutcome, Retried
      <4>2. CASE ~ \E t \in retry : t.uid = u /\ Live(t)
        <5>1. queue'[u] = queue[u]
          BY <2>4, <4>2 DEF SetStatus
        <5>2. retry' \subseteq retry
          BY <2>1
        <5> QED BY <1>a, <2>1, <5>1, <5>2, KeptOutcome DEF HasRow
      <4> QED BY <4>1, <4>2
    <3> QED BY <1>0, <2>1, <2>2, <2>4, <3>1 DEF BoundStep
  <2> QED BY <2>1, <2>3, <2>4 DEF Write
<1>17. CASE CollectGarbage
  <2>1. UNCHANGED <<gen, worker, retry, faults>>
    BY <1>17 DEF CollectGarbage
  <2>2. ASSUME NEW u \in UID PROVE RowOutcome(u)
    <3>1. queue'[u] = queue[u] \/ ~HasRow(u)'
      BY <1>17 DEF CollectGarbage, HasRow
    <3> QED BY <1>a, <2>1, <3>1, KeptOutcome DEF HasRow
  <2> QED BY <1>0, <1>1, <2>1, <2>2 DEF BoundStep
<1>18. CASE Tick
  <2>1. UNCHANGED <<gen, worker, retry, faults>>
    BY <1>18 DEF Tick
  <2>2. ASSUME NEW u \in UID PROVE RowOutcome(u)
    <3>1. CASE Ageing(u)
      <4>1. /\ HasRow(u) /\ queue'[u].gen = queue[u].gen
            /\ queue'[u].attempts = queue[u].attempts
            /\ queue'[u].status = queue[u].status
        BY <1>18, <3>1 DEF Tick, Ageing, HasRow, TypeOK, Row
      <4> QED BY <1>a, <2>1, <4>1, KeptOutcome
    <3>2. CASE ~Ageing(u)
      <4>1. queue'[u] = queue[u]
        BY <1>18, <3>2 DEF Tick
      <4> QED BY <1>a, <2>1, <4>1, KeptOutcome DEF HasRow
    <3> QED BY <3>1, <3>2
  <2> QED BY <1>0, <1>1, <2>1, <2>2 DEF BoundStep
<1>19. CASE UNCHANGED <<queue, gen, worker, retry, faults>>
  <2>1. \A u \in UID : RowOutcome(u)
    BY <1>a, <1>19, QuietOutcome
  <2> QED BY <1>0, <1>1, <1>19, <2>1 DEF BoundStep
<1> QED
  BY <1>2, <1>3, <1>4, <1>5, <1>6, <1>7, <1>8, <1>9, <1>10, <1>11, <1>12, <1>13,
     <1>14, <1>15, <1>16, <1>17, <1>18, <1>19 DEF Next, WorkerStep, vars, Expunge

LEMMA BoundInTime ==
    ASSUME WorkersFinite, TypeOK, ClaimInv, RoomInv
    PROVE  AttemptsBounded
<1> SUFFICES ASSUME NEW u \in UID, HasRow(u)
             PROVE  queue[u].attempts <= (MaxAttempts - 1)
                        + Cardinality(Worker) * (1 + (gen - queue[u].gen) + faults)
  BY DEF AttemptsBounded
<1> DEFINE k == Cardinality(Worker)
<1>1. /\ queue[u].attempts \in Nat /\ queue[u].gen \in Nat /\ gen \in Nat /\ faults \in Nat
      /\ queue[u].gen <= gen
  BY DEF HasRow, TypeOK, Row, ClaimInv
<1>2. PICK r \in Nat : r = (gen - queue[u].gen) + faults
  BY <1>1
<1>3. k \in Nat /\ Claims(u) \in Nat
  BY ClaimsBounded
<1>4. queue[u].attempts + Claims(u) <= ((MaxAttempts - 1) + k * r) + k
  BY <1>2 DEF RoomInv, Allowance, Renewals
<1>5. 1 + (gen - queue[u].gen) + faults = 1 + r
  BY <1>1, <1>2
<1> HIDE DEF k
<1>6. k * (1 + r) = k * r + k /\ k * r \in Nat
  BY <1>2, <1>3
<1>7. queue[u].attempts <= (MaxAttempts - 1) + k * (1 + r)
  BY ConstantsAssumption, <1>1, <1>3, <1>4, <1>6 DEF ConstantsAssumption
<1> QED BY <1>5, <1>7 DEF k

(* With finitely many workers the attempts of a row are bounded, whatever  *)
(* takeovers, stops, lost updates and stale retries come together.         *)
THEOREM AttemptsAreBounded ==
    ASSUME WorkersFinite
    PROVE  Spec => []AttemptsBounded
<1>1. Init => TypeOK /\ ClaimInv /\ HandsInv /\ RoomInv
  BY TypeInit, ClaimInit, BoundInit
<1>2. TypeOK /\ ClaimInv /\ HandsInv /\ RoomInv /\ [Next]_vars
        => (TypeOK /\ ClaimInv /\ HandsInv /\ RoomInv)'
  <2> SUFFICES ASSUME TypeOK, ClaimInv, HandsInv, RoomInv, [Next]_vars
               PROVE  TypeOK' /\ ClaimInv' /\ HandsInv' /\ RoomInv'
    OBVIOUS
  <2>1. TypeOK' /\ ClaimInv'
    BY TypeNext, ClaimNext
  <2>2. BoundStep
    BY BoundNext
  <2> QED BY <2>1, <2>2, RoomStep DEF BoundStep
<1>3. TypeOK /\ ClaimInv /\ RoomInv => AttemptsBounded
  BY BoundInTime
<1> QED BY <1>1, <1>2, <1>3, PTL DEF Spec

=============================================================================
