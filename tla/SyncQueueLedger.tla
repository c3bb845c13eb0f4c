--------------------------- MODULE SyncQueueLedger ---------------------------
(***************************************************************************)
(* The sync queue implements WorkLedger: a message is owed while its row   *)
(* exists and is not completed, and its tries are the attempts of the row. *)
(***************************************************************************)
EXTENDS SyncQueue

Owed == {u \in UID : HasRow(u) /\ queue[u].status # "completed"}

Tries == [u \in UID |-> IF HasRow(u) THEN queue[u].attempts ELSE 0]

Ledger == INSTANCE WorkLedger WITH owed <- Owed, tries <- Tries

(* The workers, the queue manager and the enqueuers together keep the      *)
(* promise of the ledger, whatever their interleaving, stops, takeovers    *)
(* and lost status updates: no task is settled before its message is       *)
(* stored or gone, none is given up before MaxAttempts tries, and no copy  *)
(* of a message that is still on the server is deleted.                    *)
ImplementsLedger == Ledger!Spec
=============================================================================
