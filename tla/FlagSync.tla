------------------------------ MODULE FlagSync ------------------------------
(***************************************************************************)
(* Two-way synchronisation of message flags between the emails table and   *)
(* one IMAP folder.  A user edit sets is_dirty_locally; the sync worker    *)
(* alternates syncInboundFlags (server flags into clean rows, rows of      *)
(* expunged messages deleted) and syncFlags (flags of dirty rows to the    *)
(* server by STORE, then ClearDirtyFlag); a fetcher may save a message     *)
(* again whose row exists (SaveEmailToFolder); other clients change and    *)
(* expunge messages on the server.                                         *)
(*                                                                         *)
(* Each SQL transaction and each IMAP exchange is one step.  \Answered is  *)
(* treated by the code exactly as \Flagged and is left out.                *)
(*                                                                         *)
(* A row the user muted or snoozed, and one with a smart category in the   *)
(* inbox, is hidden: RefreshUnreadCounts does not count it, all the other  *)
(* writers of the counter do.                                              *)
(***************************************************************************)
EXTENDS Integers, FiniteSets

CONSTANTS
    Msg,         \* messages of the folder
    NoRow,       \* a message without a row, or gone from the server
    Gmail,       \* whether the account is a Gmail account
    Hazards,     \* what the environment does beyond edits and remote changes
    MaxEdits,    \* bound: user edits
    MaxRemote,   \* bound: changes by other clients; snoozes and their ends
    MaxFaults    \* bound: failed statements and STOREs, stops, broken streams

Flags == [seen : BOOLEAN, flagged : BOOLEAN]

Row == [seen : BOOLEAN, flagged : BOOLEAN, dirty : BOOLEAN, hidden : BOOLEAN]

ASSUME ConstantsAssumption ==
    /\ IsFiniteSet(Msg)
    /\ NoRow \notin Row \cup Flags
    /\ Gmail \in BOOLEAN
    /\ Hazards \subseteq {"edit_in_push", "refetch", "beside", "expunge", "stream",
                       "fail", "torn", "hide"}
    /\ MaxEdits \in Nat /\ MaxRemote \in Nat /\ MaxFaults \in Nat

VARIABLES
    local,    \* Msg -> row of emails, or NoRow
    server,   \* Msg -> flags on the server, or NoRow when expunged
    unread,   \* folders.unread_count
    skewed,   \* whether a hidden row made the counter wrong (history)
    worker,   \* the sync worker between two of its steps
    ingest,   \* the fetcher between two of its steps
    intent,   \* Msg -> flags the row had after the last user edit (history)
    owed,     \* Msg -> flags edited and not yet on the server (history)
    spent     \* edits, remote changes and faults so far

vars == <<local, server, unread, skewed, worker, ingest, intent, owed, spent>>

------------------------------------------------------------------------------
HasRow(m) == local[m] # NoRow

OnServer(m) == server[m] # NoRow

FlagsOf(r) == [seen |-> r.seen, flagged |-> r.flagged]

WithFlags(r, f) == [r EXCEPT !.seen = f.seen, !.flagged = f.flagged]

Dirty(r) == [r EXCEPT !.dirty = TRUE]

(* What RefreshUnreadCounts counts, and the list view shows as unread.     *)
Counted(r) == r # NoRow /\ ~r.seen /\ ~r.hidden

UnreadRows == Cardinality({m \in Msg : Counted(local[m])})

Merge(f, g) == [seen |-> f.seen \/ g.seen, flagged |-> f.flagged \/ g.flagged]

AllUnset == [m \in Msg |-> [seen |-> FALSE, flagged |-> FALSE]]

(* Mutant: the decrement is not clamped.                                   *)
DecrementedBelowZero(n) == n - 1

(* MAX(unread_count - 1, 0).                                               *)
Decremented(n) == IF n > 0 THEN n - 1 ELSE 0

(* The counter after a row went from flags f to flags g.                   *)
Recount(f, g) ==
    IF f.seen = g.seen THEN unread
    ELSE IF g.seen THEN Decremented(unread) ELSE unread + 1

(* Row r takes the flags g and the counter follows, whether or not the row *)
(* is hidden.                                                              *)
Follow(r, g) ==
    /\ unread' = Recount(r, g)
    /\ skewed' = (skewed \/ (r.hidden /\ r.seen # g.seen))

Spend(kind, bound) == spent[kind] < bound /\ spent' = [spent EXCEPT ![kind] = @ + 1]

Fault(hazard) == hazard \in Hazards /\ Spend("faults", MaxFaults)

WorkerPC == {"inbound", "fetch", "apply", "purge", "outbound", "store", "clear"}

(* todo: messages of the batch not dealt with; snap: their flags as read;  *)
(* cur: the message being applied; step, ok: progress and success of the   *)
(* STOREs.                                                                 *)
WorkerState == [pc : WorkerPC, todo : SUBSET Msg, snap : [Msg -> Flags],
                cur : SUBSET Msg, step : 0 .. 4, ok : BOOLEAN]

AtRest(pc) == [pc |-> pc, todo |-> {}, snap |-> AllUnset, cur |-> {}, step |-> 0, ok |-> TRUE]

(* The rows of T, read together, at the start of a pass.                   *)
Batch(pc, T, step) ==
    [pc |-> pc, todo |-> T, cur |-> {}, step |-> step, ok |-> TRUE,
     snap |-> [m \in Msg |-> IF m \in T THEN FlagsOf(local[m]) ELSE AllUnset[m]]]

IngestState == [pc : {"idle", "fetched", "merged"}, cur : SUBSET Msg, flags : Flags]

IngestIdle == [pc |-> "idle", cur |-> {}, flags |-> [seen |-> FALSE, flagged |-> FALSE]]

Init ==
    /\ server \in [Msg -> Flags]
    /\ \E H \in IF "hide" \in Hazards THEN SUBSET Msg ELSE {{}} :
          local = [m \in Msg |-> [seen |-> server[m].seen, flagged |-> server[m].flagged,
                                  dirty |-> FALSE, hidden |-> m \in H]]
    /\ unread = UnreadRows
    /\ skewed = FALSE
    /\ worker = AtRest("outbound")
    /\ ingest = IngestIdle
    /\ intent = [m \in Msg |-> FlagsOf(local[m])]
    /\ owed = [m \in Msg |-> {}]
    /\ spent = [edits |-> 0, remote |-> 0, faults |-> 0]

------------------------------------------------------------------------------
(* User edits.                                                             *)

(* A row of m becomes r by the user's hand; F are the flags it changes.    *)
Edit(m, r, F) ==
    /\ "edit_in_push" \in Hazards \/ worker.pc \notin {"store", "clear"}
    /\ Spend("edits", MaxEdits)
    /\ local' = [local EXCEPT ![m] = r]
    /\ intent' = [intent EXCEPT ![m] = FlagsOf(r)]
    /\ owed' = [owed EXCEPT ![m] = @ \cup F]
    /\ UNCHANGED <<server, worker, ingest>>

MarkEmailRead(m) ==
    /\ HasRow(m) /\ ~local[m].seen
    /\ Edit(m, Dirty([local[m] EXCEPT !.seen = TRUE]), {"seen"})
    /\ Follow(local[m], local'[m])

(* bulkMarkEmailsRead, bulkMarkEmailsUnread: the statement makes every     *)
(* listed row dirty, changed or not.  Rows and counter are not one         *)
(* transaction: when the process dies in between, or the write worker      *)
(* starts the function over after SQLITE_BUSY, the counter is not adjusted. *)
BulkMarkEmails(m, read) ==
    /\ HasRow(m)
    /\ Edit(m, Dirty([local[m] EXCEPT !.seen = read]),
            IF local[m].seen = read THEN {} ELSE {"seen"})
    /\ \/ Follow(local[m], local'[m])
       \/ "torn" \in Hazards /\ UNCHANGED <<unread, skewed>>

ToggleFlagEmail(m) ==
    /\ HasRow(m)
    /\ Edit(m, Dirty([local[m] EXCEPT !.flagged = ~@]), {"flagged"})
    /\ UNCHANGED <<unread, skewed>>

(* A row is hidden or shown; the counter is not told.                      *)
Unheeded(m, h) ==
    /\ skewed' = (skewed \/ (~local[m].seen /\ local[m].hidden # h))
    /\ UNCHANGED unread

(* A muted row that is also snoozed stays hidden when it is unmuted.       *)
ToggleMuteEmail(m) ==
    /\ "hide" \in Hazards
    /\ HasRow(m)
    /\ \E h \in BOOLEAN :
          Edit(m, Dirty([local[m] EXCEPT !.hidden = h]), {}) /\ Unheeded(m, h)

(* SnoozeEmail, the end of a snooze, and a row with a smart category that  *)
(* is moved into or out of the inbox: none of them marks the row.          *)
Hide(m) ==
    /\ "hide" \in Hazards
    /\ HasRow(m)
    /\ Spend("remote", MaxRemote)
    /\ local' = [local EXCEPT ![m].hidden = ~@]
    /\ Unheeded(m, ~local[m].hidden)
    /\ UNCHANGED <<server, worker, ingest, intent, owed>>

(* At start-up and when an account is reset, never on a timer.  The rows   *)
(* it gives a smart category first are those of folders that no inbox is.  *)
RefreshUnreadCounts ==
    /\ unread' = UnreadRows
    /\ skewed' = FALSE
    /\ UNCHANGED <<local, server, worker, ingest, intent, owed, spent>>

------------------------------------------------------------------------------
(* ApplyServerEmailFlags: only a clean row takes the server's flags.       *)

(* Mutant: the row is not asked whether it is dirty.                       *)
ApplyServerEmailFlagsToAny(m, f) ==
    IF HasRow(m)
    THEN /\ local' = [local EXCEPT ![m] = WithFlags(@, f)]
         /\ Follow(local[m], f)
    ELSE UNCHANGED <<local, unread, skewed>>

(* Mutant: the counter of the folder is forgotten.                         *)
ApplyServerEmailFlagsUncounted(m, f) ==
    IF HasRow(m) /\ ~local[m].dirty
    THEN local' = [local EXCEPT ![m] = WithFlags(@, f)] /\ UNCHANGED <<unread, skewed>>
    ELSE UNCHANGED <<local, unread, skewed>>


ApplyServerEmailFlags(m, f) ==
    IF HasRow(m) /\ ~local[m].dirty
    THEN /\ local' = [local EXCEPT ![m] = WithFlags(@, f)]
         /\ Follow(local[m], f)
    ELSE UNCHANGED <<local, unread, skewed>>

------------------------------------------------------------------------------
(* syncInboundFlags.                                                       *)

(* consumerLoop ingests and synchronises flags in turn; the fetcher of     *)
(* another goroutine of the account runs beside it.                        *)
Turn == ingest.pc = "idle" \/ "beside" \in Hazards

(* The candidates are read and the folder is selected; a failure of either *)
(* ends the pass.                                                          *)
InboundRead ==
    /\ worker.pc = "inbound" /\ Turn
    /\ LET clean == {m \in Msg : HasRow(m) /\ ~local[m].dirty}
       IN \/ /\ worker' = IF clean = {} THEN AtRest("outbound") ELSE Batch("fetch", clean, 0)
             /\ UNCHANGED spent
          \/ Fault("fail") /\ worker' = AtRest("outbound")
    /\ UNCHANGED <<local, server, unread, skewed, ingest, intent, owed>>

(* Mutant: Gmail flags are taken as fetched.                               *)
InboundFlagsUnmerged(m) == FlagsOf(server[m])

(* Gmail: MAX(local, server) of the flags as read with the candidates.     *)
InboundFlags(m) ==
    IF Gmail THEN Merge(server[m], worker.snap[m]) ELSE FlagsOf(server[m])

(* FETCH returns a message: equal flags are skipped.                       *)
InboundFetch ==
    /\ worker.pc = "fetch"
    /\ \E m \in worker.todo :
          /\ OnServer(m)
          /\ worker' = IF InboundFlags(m) = worker.snap[m]
                       THEN [worker EXCEPT !.todo = @ \ {m}]
                       ELSE [worker EXCEPT !.pc = "apply", !.todo = @ \ {m}, !.cur = {m},
                                           !.snap[m] = InboundFlags(m)]
    /\ UNCHANGED <<local, server, unread, skewed, ingest, intent, owed, spent>>

InboundApply ==
    /\ worker.pc = "apply"
    /\ \/ (\E m \in worker.cur : ApplyServerEmailFlags(m, worker.snap[m])) /\ UNCHANGED spent
       \/ Fault("fail") /\ UNCHANGED <<local, unread, skewed>>
    /\ worker' = [worker EXCEPT !.pc = "fetch", !.cur = {}]
    /\ UNCHANGED <<server, ingest, intent, owed>>

(* Mutant: a FETCH that ends early is taken for a complete one.            *)
InboundEndEarly ==
    /\ worker.pc = "fetch"
    /\ worker' = IF Gmail \/ worker.todo = {} THEN AtRest("outbound")
                 ELSE [worker EXCEPT !.pc = "purge"]
    /\ UNCHANGED <<local, server, unread, skewed, ingest, intent, owed, spent>>

(* cmd.Next() returned nil.  What FETCH did not return is taken for        *)
(* expunged, except on Gmail; a broken stream looks the same.              *)
InboundEnd ==
    /\ worker.pc = "fetch"
    /\ \/ (\A m \in worker.todo : ~OnServer(m)) /\ UNCHANGED spent
       \/ Fault("stream")
    /\ worker' = IF Gmail \/ worker.todo = {} THEN AtRest("outbound")
                 ELSE [worker EXCEPT !.pc = "purge"]
    /\ UNCHANGED <<local, server, unread, skewed, ingest, intent, owed>>

(* deleteLocalEmailCopy: the row goes, the folder's counter is not told.   *)
InboundPurge ==
    /\ worker.pc = "purge"
    /\ \E m \in worker.todo :
          /\ \/ local' = [local EXCEPT ![m] = NoRow] /\ UNCHANGED spent
             \/ Fault("fail") /\ UNCHANGED local
          /\ worker' = IF worker.todo = {m} THEN AtRest("outbound")
                       ELSE [worker EXCEPT !.todo = @ \ {m}]
    /\ UNCHANGED <<server, unread, skewed, ingest, intent, owed>>

------------------------------------------------------------------------------
(* syncFlags.                                                              *)

OutboundRead ==
    /\ worker.pc = "outbound" /\ Turn
    /\ LET dirty == {m \in Msg : HasRow(m) /\ local[m].dirty}
       IN \/ /\ worker' = IF dirty = {} THEN AtRest("inbound") ELSE Batch("store", dirty, 1)
             /\ UNCHANGED spent
          \/ Fault("fail") /\ worker' = AtRest("inbound")
    /\ UNCHANGED <<local, server, unread, skewed, ingest, intent, owed>>

(* The STOREs in their order: +Seen, -Seen, +Flagged, -Flagged.            *)
StoreFlag(step) == IF step \in {1, 2} THEN "seen" ELSE "flagged"

StoreValue(step) == step \in {1, 3}

StoreSet(step) == {m \in worker.todo : worker.snap[m][StoreFlag(step)] = StoreValue(step)}

(* Mutant: the dirty flags are cleared although a STORE failed.            *)
AfterStoreRegardless(ok) ==
    IF worker.step < 4 THEN [worker EXCEPT !.step = @ + 1, !.ok = ok]
    ELSE [worker EXCEPT !.pc = "clear"]

(* A failed STORE ends a Gmail pass; elsewhere the others still go out,    *)
(* and the dirty flags are cleared only if all of them succeeded.          *)
AfterStore(ok) ==
    IF Gmail /\ ~ok THEN AtRest("inbound")
    ELSE IF worker.step < 4 THEN [worker EXCEPT !.step = @ + 1, !.ok = ok]
    ELSE IF ok THEN [worker EXCEPT !.pc = "clear"]
    ELSE AtRest("inbound")

OutboundStore ==
    /\ worker.pc = "store"
    /\ LET f == StoreFlag(worker.step)
           v == StoreValue(worker.step)
           S == StoreSet(worker.step)
       IN \/ /\ server' = [m \in Msg |-> IF m \in S /\ OnServer(m)
                                         THEN [server[m] EXCEPT ![f] = v] ELSE server[m]]
             /\ owed' = [m \in Msg |-> IF m \in S /\ intent[m][f] = v
                                       THEN owed[m] \ {f} ELSE owed[m]]
             /\ worker' = AfterStore(worker.ok)
             /\ UNCHANGED spent
          \/ /\ S # {} /\ Fault("fail")
             /\ worker' = AfterStore(FALSE)
             /\ UNCHANGED <<server, owed>>
    /\ UNCHANGED <<local, unread, skewed, ingest, intent>>

(* ClearDirtyFlag of one message of the batch; its error is ignored.       *)
OutboundClear ==
    /\ worker.pc = "clear"
    /\ \E m \in worker.todo :
          /\ \/ /\ local' = IF HasRow(m) THEN [local EXCEPT ![m].dirty = FALSE] ELSE local
                /\ UNCHANGED spent
             \/ Fault("fail") /\ UNCHANGED local
          /\ worker' = IF worker.todo = {m} THEN AtRest("inbound")
                       ELSE [worker EXCEPT !.todo = @ \ {m}]
    /\ UNCHANGED <<server, unread, skewed, ingest, intent, owed>>

(* The worker is cancelled or the process restarts: a sync cycle begins    *)
(* with syncFlags.                                                         *)
Stop ==
    /\ Fault("fail")
    /\ worker' = AtRest("outbound")
    /\ ingest' = IngestIdle
    /\ UNCHANGED <<local, server, unread, skewed, intent, owed>>

------------------------------------------------------------------------------
(* ProcessMessageStreamToFolder for a message that may have a row already. *)

IngestFetch ==
    /\ "refetch" \in Hazards
    /\ "beside" \in Hazards \/ worker.pc \in {"inbound", "outbound"}
    /\ ingest.pc = "idle"
    /\ \E m \in Msg :
          /\ OnServer(m)
          /\ ingest' = [pc |-> "fetched", cur |-> {m}, flags |-> FlagsOf(server[m])]
    /\ UNCHANGED <<local, server, unread, skewed, worker, intent, owed, spent>>

(* Gmail: the row found by GetEmailByMsgIDAccount is merged with the       *)
(* flags fetched, and written if that changes it.                          *)
IngestMerge ==
    /\ Gmail
    /\ ingest.pc = "fetched"
    /\ \E m \in ingest.cur :
          /\ HasRow(m)
          /\ ingest' = LET merged == Merge(local[m], ingest.flags)
                       IN IF merged = FlagsOf(local[m]) THEN IngestIdle
                          ELSE [ingest EXCEPT !.pc = "merged", !.flags = merged]
    /\ UNCHANGED <<local, server, unread, skewed, worker, intent, owed, spent>>

IngestApply ==
    /\ ingest.pc = "merged"
    /\ \/ (\E m \in ingest.cur : ApplyServerEmailFlags(m, ingest.flags)) /\ UNCHANGED spent
       \/ Fault("fail") /\ UNCHANGED <<local, unread, skewed>>
    /\ ingest' = IngestIdle
    /\ UNCHANGED <<server, worker, intent, owed>>

(* ON CONFLICT DO UPDATE: a dirty row keeps is_read but loses its dirty    *)
(* flag; is_flagged is not touched.                                        *)
Upsert(r, f) == [r EXCEPT !.seen = IF r.dirty THEN @ ELSE f.seen, !.dirty = FALSE]

(* SaveEmailToFolder: a new row starts without \Flagged and counts as      *)
(* unread; an updated one leaves the counter alone.                        *)
IngestSave ==
    /\ ingest.pc = "fetched"
    /\ \E m \in ingest.cur :
          IF HasRow(m)
          THEN /\ ~Gmail
               /\ local' = [local EXCEPT ![m] = Upsert(@, ingest.flags)]
               /\ UNCHANGED <<unread, skewed, intent, owed>>
          ELSE /\ local' = [local EXCEPT ![m] = [seen |-> ingest.flags.seen,
                                                 flagged |-> FALSE, dirty |-> FALSE,
                                                 hidden |-> FALSE]]
               /\ unread' = IF ingest.flags.seen THEN unread ELSE unread + 1
               /\ UNCHANGED skewed
               /\ intent' = [intent EXCEPT ![m] = [seen |-> ingest.flags.seen,
                                                   flagged |-> FALSE]]
               /\ owed' = [owed EXCEPT ![m] = {}]
    /\ ingest' = IngestIdle
    /\ UNCHANGED <<server, worker, spent>>

------------------------------------------------------------------------------
(* Other clients.                                                          *)

RemoteChange(m) ==
    /\ OnServer(m)
    /\ Spend("remote", MaxRemote)
    /\ \E f \in Flags \ {server[m]} : server' = [server EXCEPT ![m] = f]
    /\ UNCHANGED <<local, unread, skewed, worker, ingest, intent, owed>>

Expunge(m) ==
    /\ "expunge" \in Hazards
    /\ OnServer(m)
    /\ Spend("remote", MaxRemote)
    /\ server' = [server EXCEPT ![m] = NoRow]
    /\ UNCHANGED <<local, unread, skewed, worker, ingest, intent, owed>>

WorkerStep ==
    \/ InboundRead \/ InboundFetch \/ InboundApply \/ InboundEnd \/ InboundPurge
    \/ OutboundRead \/ OutboundStore \/ OutboundClear

IngestStep == IngestMerge \/ IngestApply \/ IngestSave

Next ==
    \/ \E m \in Msg : MarkEmailRead(m) \/ ToggleFlagEmail(m) \/ ToggleMuteEmail(m) \/ Hide(m)
    \/ \E m \in Msg, read \in BOOLEAN : BulkMarkEmails(m, read)
    \/ RefreshUnreadCounts
    \/ WorkerStep \/ Stop
    \/ IngestFetch \/ IngestStep
    \/ \E m \in Msg : RemoteChange(m) \/ Expunge(m)

Spec == Init /\ [][Next]_vars

(* The worker's loop and a fetch in progress go on; nobody has to edit,    *)
(* change, expunge or fetch anything.                                      *)
FairSpec == Spec /\ WF_vars(WorkerStep) /\ WF_vars(IngestStep)

------------------------------------------------------------------------------
(* Properties.                                                             *)

(* The state has the shape the schema and the code give it; the unread     *)
(* counter, which several writers decrement, is never negative.            *)
TypeOK ==
    /\ local \in [Msg -> Row \cup {NoRow}]
    /\ server \in [Msg -> Flags \cup {NoRow}]
    /\ unread \in Nat
    /\ skewed \in BOOLEAN
    /\ worker \in WorkerState
    /\ ingest \in IngestState
    /\ intent \in [Msg -> Flags]
    /\ owed \in [Msg -> SUBSET {"seen", "flagged"}]
    /\ spent \in [{"edits", "remote", "faults"} -> Nat]

(* While a row is marked dirty it shows what the user last made of it:     *)
(* neither an inbound pass that read the row before the edit, nor a FETCH  *)
(* answered before it, nor a fetch of the message overwrites the edit.     *)
DirtyProtected ==
    \A m \in Msg : HasRow(m) /\ local[m].dirty => FlagsOf(local[m]) = intent[m]

(* A user's edit that has not reached the server keeps its row dirty, so   *)
(* that some later pass will send it: also after a failed STORE, a stop in *)
(* the middle of a pass, a pass of several STOREs.                         *)
EditsSurvive ==
    \A m \in Msg : HasRow(m) /\ owed[m] # {} => local[m].dirty

(* The folder's counter is the number of the unread rows the list view     *)
(* shows, unless since the last RefreshUnreadCounts a hidden row was read  *)
(* or made unread, or an unread row was hidden or shown: the writers that  *)
(* count up and down do not ask what the query leaves out.                 *)
UnreadCountExact == ~skewed => unread = UnreadRows

(* A local row is deleted only when its message is gone from the server.   *)
RowsOfServerMessagesStay ==
    [][\A m \in Msg : HasRow(m) /\ OnServer(m) => HasRow(m)']_vars

(* When users and other clients have come to rest, every row agrees with   *)
(* the server, no row is dirty and no expunged message has a row: the      *)
(* inbound and the outbound pass do not chase each other.                  *)
Converges ==
    <>[](\A m \in Msg :
            IF OnServer(m)
            THEN HasRow(m) => ~local[m].dirty /\ FlagsOf(local[m]) = server[m]
            ELSE ~HasRow(m))

(* On Gmail no synchronisation step clears a flag: only the user does.     *)
GmailNeverDowngrades ==
    [][\A m \in Msg :
          HasRow(m) /\ HasRow(m)' /\ spent'.edits = spent.edits =>
              /\ local[m].seen => local'[m].seen
              /\ local[m].flagged => local'[m].flagged]_vars
=============================================================================
