--------------------------- MODULE FlagSyncProofs ---------------------------
(***************************************************************************)
(* Theorems about FlagSync, for every folder and every bound.              *)
(***************************************************************************)
EXTENDS FlagSync, FiniteSetTheorems, TLAPS

LEMMA FlagsOfRow ==
    ASSUME NEW r \in Row
    PROVE  /\ FlagsOf(r) \in Flags
           /\ Dirty(r) \in Row
           /\ Dirty(r).dirty
           /\ FlagsOf(Dirty(r)) = FlagsOf(r)
           /\ \A f \in Flags : /\ WithFlags(r, f) \in Row
                               /\ WithFlags(r, f).dirty = r.dirty
                               /\ FlagsOf(WithFlags(r, f)) = f
<1>1. FlagsOf(r) \in Flags
  BY DEF Row, Flags, FlagsOf
<1>2. Dirty(r) \in Row /\ Dirty(r).dirty /\ FlagsOf(Dirty(r)) = FlagsOf(r)
  BY DEF Row, FlagsOf, Dirty
<1>3. ASSUME NEW f \in Flags
      PROVE  /\ WithFlags(r, f) \in Row
             /\ WithFlags(r, f).dirty = r.dirty
             /\ FlagsOf(WithFlags(r, f)) = f
  <2>1. /\ WithFlags(r, f).seen = f.seen
        /\ WithFlags(r, f).flagged = f.flagged
        /\ WithFlags(r, f).dirty = r.dirty
        /\ WithFlags(r, f) \in Row
    BY DEF Row, Flags, WithFlags
  <2>2. f = [seen |-> f.seen, flagged |-> f.flagged]
    BY DEF Flags
  <2> QED BY <2>1, <2>2 DEF FlagsOf
<1> QED BY <1>1, <1>2, <1>3

LEMMA MergeFlags ==
    /\ \A f \in Flags, g \in Flags \cup Row : Merge(f, g) \in Flags
    /\ \A f \in Row, g \in Flags : Merge(f, g) \in Flags
BY DEF Row, Flags, Merge

LEMMA RecountNat ==
    ASSUME TypeOK, NEW f, NEW g
    PROVE  /\ Recount(f, g) \in Nat
           /\ Follow(f, g) => unread' \in Nat /\ skewed' \in BOOLEAN
<1>1. Recount(f, g) \in Nat
  BY DEF TypeOK, Recount, Decremented
<1>2. Follow(f, g) => unread' \in Nat
  BY <1>1 DEF Follow
<1>3. Follow(f, g) => skewed' \in BOOLEAN
  BY DEF Follow
<1> QED BY <1>1, <1>2, <1>3

LEMMA AllUnsetType == AllUnset \in [Msg -> Flags]
BY DEF AllUnset, Flags

LEMMA AtRestType ==
    ASSUME NEW pc \in WorkerPC
    PROVE  AtRest(pc) \in WorkerState
BY AllUnsetType DEF AtRest, WorkerState

LEMMA BatchType ==
    ASSUME TypeOK, NEW pc \in WorkerPC, NEW step \in 0 .. 4,
           NEW T \in SUBSET {m \in Msg : local[m] # NoRow}
    PROVE  Batch(pc, T, step) \in WorkerState
<1>1. \A m \in T : FlagsOf(local[m]) \in Flags
  BY FlagsOfRow DEF TypeOK
<1>2. [m \in Msg |-> IF m \in T THEN FlagsOf(local[m]) ELSE AllUnset[m]] \in [Msg -> Flags]
  BY <1>1, AllUnsetType
<1> QED BY <1>2 DEF Batch, WorkerState

LEMMA IngestIdleType == IngestIdle \in IngestState
BY DEF IngestIdle, IngestState, Flags

(* A fault, an edit or a remote change only moves its own counter.         *)
LEMMA SpendType ==
    ASSUME TypeOK, NEW kind \in {"edits", "remote", "faults"}, NEW bound, Spend(kind, bound)
    PROVE  spent' \in [{"edits", "remote", "faults"} -> Nat]
BY DEF Spend, TypeOK

LEMMA FaultType ==
    ASSUME TypeOK, NEW hazard, Fault(hazard) \/ UNCHANGED spent
    PROVE  spent' \in [{"edits", "remote", "faults"} -> Nat]
<1>1. CASE Fault(hazard)
  BY <1>1, SpendType DEF Fault
<1>2. CASE UNCHANGED spent
  BY <1>2 DEF TypeOK
<1> QED BY <1>1, <1>2

LEMMA EditType ==
    ASSUME TypeOK, NEW m \in Msg, NEW r \in Row, NEW F \in SUBSET {"seen", "flagged"},
           Edit(m, r, F), unread' \in Nat, skewed' \in BOOLEAN
    PROVE  TypeOK'
<1>1. spent' \in [{"edits", "remote", "faults"} -> Nat]
  BY SpendType DEF Edit
<1>3. FlagsOf(r) \in Flags
  BY FlagsOfRow
<1> QED BY <1>1, <1>3 DEF Edit, TypeOK

LEMMA UnreadRowsNat == UnreadRows \in Nat
<1>1. IsFiniteSet({m \in Msg : Counted(local[m])})
  BY ConstantsAssumption, FS_Subset DEF ConstantsAssumption
<1> QED BY <1>1, FS_CardinalityType DEF UnreadRows

LEMMA ApplyType ==
    ASSUME TypeOK, NEW m \in Msg, NEW f \in Flags, ApplyServerEmailFlags(m, f)
    PROVE  /\ local' \in [Msg -> Row \cup {NoRow}]
           /\ unread' \in Nat /\ skewed' \in BOOLEAN
<1>1. CASE HasRow(m) /\ ~local[m].dirty
  <2>1. local[m] \in Row
    BY <1>1 DEF HasRow, TypeOK
  <2>2. WithFlags(local[m], f) \in Row
    BY <2>1, FlagsOfRow
  <2>3. unread' \in Nat /\ skewed' \in BOOLEAN
    BY <1>1, RecountNat DEF ApplyServerEmailFlags
  <2> QED BY <1>1, <2>2, <2>3 DEF ApplyServerEmailFlags, TypeOK
<1>2. CASE ~(HasRow(m) /\ ~local[m].dirty)
  BY <1>2 DEF ApplyServerEmailFlags, TypeOK
<1> QED BY <1>1, <1>2

LEMMA InitRows ==
    ASSUME Init
    PROVE  server \in [Msg -> Flags] /\ local \in [Msg -> Row]
<1>1. server \in [Msg -> Flags]
  BY DEF Init
<1>2. PICK H : local = [m \in Msg |->
                          [seen |-> server[m].seen, flagged |-> server[m].flagged,
                           dirty |-> FALSE, hidden |-> m \in H]]
  BY DEF Init
<1>3. ASSUME NEW m \in Msg
      PROVE  [seen |-> server[m].seen, flagged |-> server[m].flagged,
              dirty |-> FALSE, hidden |-> m \in H] \in Row
  <2>1. server[m].seen \in BOOLEAN /\ server[m].flagged \in BOOLEAN
    BY <1>1 DEF Flags
  <2>2. (m \in H) \in BOOLEAN
    OBVIOUS
  <2> QED BY <2>1, <2>2 DEF Row
<1> QED BY <1>1, <1>2, <1>3

LEMMA TypeInit == Init => TypeOK
<1> SUFFICES ASSUME Init PROVE TypeOK
  OBVIOUS
<1> USE ConstantsAssumption
<1>1. /\ local \in [Msg -> Row \cup {NoRow}]
      /\ server \in [Msg -> Flags \cup {NoRow}]
  BY InitRows
<1>2. unread \in Nat /\ skewed \in BOOLEAN
  BY UnreadRowsNat DEF Init
<1>3. worker \in WorkerState /\ ingest \in IngestState
  BY AtRestType, IngestIdleType DEF Init, WorkerPC
<1>4. intent \in [Msg -> Flags]
  <2>1. \A m \in Msg : FlagsOf(local[m]) \in Flags
    <3>1. \A m \in Msg : local[m] \in Row
      BY InitRows
    <3> QED BY <3>1, FlagsOfRow
  <2> QED BY <2>1 DEF Init
<1>5. spent \in [{"edits", "remote", "faults"} -> Nat]
  BY DEF Init
<1> QED BY <1>1, <1>2, <1>3, <1>4, <1>5 DEF Init, TypeOK

(* The actions of a user on one message.                                   *)
UserEdit(m) ==
    \/ MarkEmailRead(m) \/ ToggleFlagEmail(m) \/ ToggleMuteEmail(m)
    \/ \E read \in BOOLEAN : BulkMarkEmails(m, read)

(* Each of them edits the row to a dirty one.                              *)
LEMMA UserEdits ==
    ASSUME TypeOK, NEW m \in Msg, UserEdit(m)
    PROVE  /\ \E r \in Row, F \in SUBSET {"seen", "flagged"} : r.dirty /\ Edit(m, r, F)
           /\ unread' \in Nat /\ skewed' \in BOOLEAN
<1>1. local[m] \in Row
  BY DEF UserEdit, MarkEmailRead, BulkMarkEmails, ToggleFlagEmail, ToggleMuteEmail, HasRow, TypeOK
<1>2. /\ [local[m] EXCEPT !.seen = TRUE] \in Row
      /\ \A h \in BOOLEAN : [local[m] EXCEPT !.hidden = h] \in Row
      /\ \A read \in BOOLEAN : [local[m] EXCEPT !.seen = read] \in Row
      /\ [local[m] EXCEPT !.flagged = ~@] \in Row
  BY <1>1 DEF Row
<1>3. CASE MarkEmailRead(m)
  BY <1>2, <1>3, FlagsOfRow, RecountNat DEF MarkEmailRead
<1>4. CASE ToggleFlagEmail(m)
  BY <1>2, <1>4, FlagsOfRow DEF ToggleFlagEmail, TypeOK
<1>5. ASSUME NEW read \in BOOLEAN, BulkMarkEmails(m, read)
      PROVE  /\ \E r \in Row, F \in SUBSET {"seen", "flagged"} : r.dirty /\ Edit(m, r, F)
             /\ unread' \in Nat /\ skewed' \in BOOLEAN
  <2> DEFINE r == Dirty([local[m] EXCEPT !.seen = read])
             F == IF local[m].seen = read THEN {} ELSE {"seen"}
  <2>1. r \in Row /\ r.dirty /\ F \in SUBSET {"seen", "flagged"}
    BY <1>2, FlagsOfRow
  <2>2. Edit(m, r, F)
    BY <1>5 DEF BulkMarkEmails
  <2>3. unread' \in Nat /\ skewed' \in BOOLEAN
    BY <1>5, RecountNat DEF BulkMarkEmails, TypeOK
  <2> HIDE DEF r, F
  <2> QED BY <2>1, <2>2, <2>3
<1>6. CASE ToggleMuteEmail(m)
  <2>1. PICK h \in BOOLEAN :
           Edit(m, Dirty([local[m] EXCEPT !.hidden = h]), {}) /\ Unheeded(m, h)
    BY <1>6 DEF ToggleMuteEmail
  <2>2. unread' \in Nat /\ skewed' \in BOOLEAN
    BY <2>1 DEF Unheeded, TypeOK
  <2> QED BY <1>2, <2>1, <2>2, FlagsOfRow
<1> QED BY <1>3, <1>4, <1>5, <1>6 DEF UserEdit

(* A row hidden or shown without an edit keeps its flags and its mark.     *)
LEMMA HideRow ==
    ASSUME TypeOK, NEW m \in Msg, Hide(m)
    PROVE  /\ local[m] \in Row /\ local'[m] \in Row
           /\ \A n \in Msg \ {m} : local'[n] = local[n]
           /\ local'[m].seen = local[m].seen /\ local'[m].flagged = local[m].flagged
           /\ local'[m].dirty <=> local[m].dirty
           /\ FlagsOf(local'[m]) = FlagsOf(local[m])
           /\ \A n \in Msg : HasRow(n)' <=> HasRow(n)
           /\ TypeOK'
<1>1. local[m] \in Row /\ local' = [local EXCEPT ![m].hidden = ~@]
  BY DEF Hide, HasRow, TypeOK
<1>2. local'[m] = [local[m] EXCEPT !.hidden = ~@]
  BY <1>1 DEF TypeOK
<1>3. /\ local'[m] \in Row
      /\ local'[m].seen = local[m].seen /\ local'[m].flagged = local[m].flagged
      /\ local'[m].dirty = local[m].dirty
  BY <1>1, <1>2 DEF Row
<1>4. \A n \in Msg \ {m} : local'[n] = local[n]
  BY <1>1 DEF TypeOK
<1>5. \A n \in Msg : HasRow(n)' <=> HasRow(n)
  BY <1>1, <1>3, <1>4, ConstantsAssumption DEF ConstantsAssumption, HasRow
<1>6. unread' \in Nat /\ skewed' \in BOOLEAN
  BY DEF Hide, Unheeded, TypeOK
<1>7. spent' \in [{"edits", "remote", "faults"} -> Nat]
  BY SpendType DEF Hide
<1>8. local' \in [Msg -> Row \cup {NoRow}]
  BY <1>1, <1>3 DEF TypeOK
<1> QED BY <1>1, <1>3, <1>4, <1>5, <1>6, <1>7, <1>8 DEF Hide, TypeOK, FlagsOf

LEMMA TypeEdits ==
    ASSUME TypeOK, NEW m \in Msg, UserEdit(m)
    PROVE  TypeOK'
BY UserEdits, EditType

LEMMA TypeInbound ==
    ASSUME TypeOK,
           InboundRead \/ InboundFetch \/ InboundApply \/ InboundEnd \/ InboundPurge
    PROVE  TypeOK'
<1> USE DEF WorkerPC
<1>1. CASE InboundRead
  <2> DEFINE clean == {m \in Msg : HasRow(m) /\ ~local[m].dirty}
  <2>1. \/ worker' = IF clean = {} THEN AtRest("outbound") ELSE Batch("fetch", clean, 0)
        \/ worker' = AtRest("outbound")
    BY <1>1 DEF InboundRead
  <2>2. AtRest("outbound") \in WorkerState
    BY AtRestType
  <2>3. Batch("fetch", clean, 0) \in WorkerState
    BY BatchType DEF HasRow
  <2>4. worker' \in WorkerState
    BY <2>1, <2>2, <2>3
  <2>5. spent' \in [{"edits", "remote", "faults"} -> Nat]
    BY <1>1, FaultType DEF InboundRead
  <2> QED BY <1>1, <2>4, <2>5 DEF InboundRead, TypeOK
<1>2. CASE InboundFetch
  <2>1. PICK m \in worker.todo :
           /\ OnServer(m)
           /\ worker' = IF InboundFlags(m) = worker.snap[m]
                        THEN [worker EXCEPT !.todo = @ \ {m}]
                        ELSE [worker EXCEPT !.pc = "apply", !.todo = @ \ {m}, !.cur = {m},
                                            !.snap[m] = InboundFlags(m)]
    BY <1>2 DEF InboundFetch
  <2>2. m \in Msg /\ server[m] \in Flags /\ worker.snap[m] \in Flags
    BY <2>1 DEF OnServer, TypeOK, WorkerState
  <2>3. InboundFlags(m) \in Flags
    BY <2>2, MergeFlags DEF InboundFlags, FlagsOf, Flags
  <2>4. worker' \in WorkerState
    BY <2>1, <2>2, <2>3 DEF TypeOK, WorkerState
  <2> QED BY <1>2, <2>4 DEF InboundFetch, TypeOK
<1>3. CASE InboundApply
  <2>1. local' \in [Msg -> Row \cup {NoRow}] /\ unread' \in Nat /\ skewed' \in BOOLEAN
    <3>1. ASSUME NEW m \in worker.cur, ApplyServerEmailFlags(m, worker.snap[m])
          PROVE  local' \in [Msg -> Row \cup {NoRow}] /\ unread' \in Nat /\ skewed' \in BOOLEAN
      <4>1. m \in Msg /\ worker.snap[m] \in Flags
        BY DEF TypeOK, WorkerState
      <4> QED BY <3>1, <4>1, ApplyType
    <3>2. CASE UNCHANGED <<local, unread, skewed>>
      BY <3>2 DEF TypeOK
    <3> QED BY <1>3, <3>1, <3>2 DEF InboundApply
  <2>2. worker' \in WorkerState
    BY <1>3 DEF InboundApply, TypeOK, WorkerState
  <2>3. spent' \in [{"edits", "remote", "faults"} -> Nat]
    BY <1>3, FaultType DEF InboundApply
  <2> QED BY <1>3, <2>1, <2>2, <2>3 DEF InboundApply, TypeOK
<1>4. CASE InboundEnd
  <2>1. worker' \in WorkerState
    BY <1>4, AtRestType DEF InboundEnd, TypeOK, WorkerState
  <2>2. spent' \in [{"edits", "remote", "faults"} -> Nat]
    BY <1>4, FaultType DEF InboundEnd
  <2> QED BY <1>4, <2>1, <2>2 DEF InboundEnd, TypeOK
<1>5. CASE InboundPurge
  <2>1. PICK m \in worker.todo :
           /\ \/ local' = [local EXCEPT ![m] = NoRow] /\ UNCHANGED spent
              \/ Fault("fail") /\ UNCHANGED local
           /\ worker' = IF worker.todo = {m} THEN AtRest("outbound")
                        ELSE [worker EXCEPT !.todo = @ \ {m}]
    BY <1>5 DEF InboundPurge
  <2>2. worker' \in WorkerState
    BY <2>1, AtRestType DEF TypeOK, WorkerState
  <2>3. spent' \in [{"edits", "remote", "faults"} -> Nat]
    BY <2>1, FaultType
  <2>4. local' \in [Msg -> Row \cup {NoRow}]
    BY <2>1 DEF TypeOK
  <2> QED BY <1>5, <2>2, <2>3, <2>4 DEF InboundPurge, TypeOK
<1> QED BY <1>1, <1>2, <1>3, <1>4, <1>5

(* One flag of a message set by a STORE.                                   *)
LEMMA StoreFlags ==
    ASSUME NEW r \in Flags, NEW step, NEW v \in BOOLEAN
    PROVE  /\ StoreFlag(step) \in {"seen", "flagged"}
           /\ [r EXCEPT ![StoreFlag(step)] = v] \in Flags
<1>1. CASE StoreFlag(step) = "seen"
  <2>1. [r EXCEPT !["seen"] = v] = [r EXCEPT !.seen = v]
    OBVIOUS
  <2>2. [r EXCEPT !.seen = v] \in Flags
    BY DEF Flags
  <2> QED BY <1>1, <2>1, <2>2
<1>2. CASE StoreFlag(step) = "flagged"
  <2>1. [r EXCEPT !["flagged"] = v] = [r EXCEPT !.flagged = v]
    OBVIOUS
  <2>2. [r EXCEPT !.flagged = v] \in Flags
    BY DEF Flags
  <2> QED BY <1>2, <2>1, <2>2
<1> QED BY <1>1, <1>2 DEF StoreFlag

LEMMA AfterStoreType ==
    ASSUME TypeOK, NEW ok \in BOOLEAN
    PROVE  AfterStore(ok) \in WorkerState
<1>1. worker \in WorkerState
  BY DEF TypeOK
<1>2. CASE Gmail /\ ~ok
  BY <1>2, AtRestType DEF AfterStore, WorkerPC
<1>3. CASE ~(Gmail /\ ~ok) /\ worker.step < 4
  <2>1. AfterStore(ok) = [worker EXCEPT !.step = @ + 1, !.ok = ok]
    BY <1>3 DEF AfterStore
  <2>2. worker.step + 1 \in 0 .. 4
    BY <1>1, <1>3 DEF WorkerState
  <2> QED BY <1>1, <2>1, <2>2 DEF WorkerState
<1>4. CASE ~(Gmail /\ ~ok) /\ ~(worker.step < 4) /\ ok
  <2>1. AfterStore(ok) = [worker EXCEPT !.pc = "clear"]
    BY <1>4 DEF AfterStore
  <2> QED BY <1>1, <2>1 DEF WorkerState, WorkerPC
<1>5. CASE ~(Gmail /\ ~ok) /\ ~(worker.step < 4) /\ ~ok
  BY <1>5, AtRestType DEF AfterStore, WorkerPC
<1> QED BY <1>2, <1>3, <1>4, <1>5

LEMMA TypeOutbound ==
    ASSUME TypeOK, OutboundRead \/ OutboundStore \/ OutboundClear
    PROVE  TypeOK'
<1>1. CASE OutboundRead
  <2> DEFINE dirty == {m \in Msg : HasRow(m) /\ local[m].dirty}
  <2>1. \/ worker' = IF dirty = {} THEN AtRest("inbound") ELSE Batch("store", dirty, 1)
        \/ worker' = AtRest("inbound")
    BY <1>1 DEF OutboundRead
  <2>2. AtRest("inbound") \in WorkerState
    BY AtRestType DEF WorkerPC
  <2>3. Batch("store", dirty, 1) \in WorkerState
    BY BatchType DEF HasRow, WorkerPC
  <2>4. worker' \in WorkerState
    BY <2>1, <2>2, <2>3
  <2>5. spent' \in [{"edits", "remote", "faults"} -> Nat]
    BY <1>1, FaultType DEF OutboundRead
  <2> QED BY <1>1, <2>4, <2>5 DEF OutboundRead, TypeOK
<1>2. CASE OutboundStore
  <2>1. worker.ok \in BOOLEAN
    BY DEF TypeOK, WorkerState
  <2>2. worker' \in WorkerState
    BY <1>2, <2>1, AfterStoreType DEF OutboundStore
  <2>3. spent' \in [{"edits", "remote", "faults"} -> Nat]
    BY <1>2, FaultType DEF OutboundStore
  <2> DEFINE f == StoreFlag(worker.step)
             v == StoreValue(worker.step)
             S == StoreSet(worker.step)
             stored == [m \in Msg |-> IF m \in S /\ OnServer(m)
                                      THEN [server[m] EXCEPT ![f] = v] ELSE server[m]]
             paid == [m \in Msg |-> IF m \in S /\ intent[m][f] = v
                                    THEN owed[m] \ {f} ELSE owed[m]]
  <2>4. v \in BOOLEAN
    BY DEF StoreValue
  <2>5. \A m \in Msg : OnServer(m) => [server[m] EXCEPT ![f] = v] \in Flags
    BY <2>4, StoreFlags DEF OnServer, TypeOK
  <2>6. stored \in [Msg -> Flags \cup {NoRow}]
    BY <2>5 DEF TypeOK
  <2>7. paid \in [Msg -> SUBSET {"seen", "flagged"}]
    BY DEF TypeOK
  <2>8. \/ server' = stored /\ owed' = paid
        \/ UNCHANGED <<server, owed>>
    BY <1>2 DEF OutboundStore
  <2> HIDE DEF stored, paid
  <2> QED BY <1>2, <2>2, <2>3, <2>6, <2>7, <2>8 DEF OutboundStore, TypeOK
<1>3. CASE OutboundClear
  <2>1. PICK m \in worker.todo :
           /\ \/ /\ local' = IF HasRow(m) THEN [local EXCEPT ![m].dirty = FALSE] ELSE local
                 /\ UNCHANGED spent
              \/ Fault("fail") /\ UNCHANGED local
           /\ worker' = IF worker.todo = {m} THEN AtRest("inbound")
                        ELSE [worker EXCEPT !.todo = @ \ {m}]
    BY <1>3 DEF OutboundClear
  <2>2. worker' \in WorkerState
    BY <2>1, AtRestType DEF TypeOK, WorkerState, WorkerPC
  <2>3. spent' \in [{"edits", "remote", "faults"} -> Nat]
    BY <2>1, FaultType
  <2>4. HasRow(m) => [local[m] EXCEPT !.dirty = FALSE] \in Row
    <3>1. m \in Msg
      BY <2>1 DEF TypeOK, WorkerState
    <3>2. HasRow(m) => local[m] \in Row
      BY <3>1 DEF HasRow, TypeOK
    <3> QED BY <3>2 DEF Row
  <2>5. local' \in [Msg -> Row \cup {NoRow}]
    BY <2>1, <2>4 DEF TypeOK
  <2> QED BY <1>3, <2>2, <2>3, <2>5 DEF OutboundClear, TypeOK
<1> QED BY <1>1, <1>2, <1>3

LEMMA UpsertRow ==
    ASSUME NEW r \in Row, NEW f \in Flags
    PROVE  /\ Upsert(r, f) \in Row
           /\ ~Upsert(r, f).dirty
<1>1. CASE r.dirty
  <2>1. Upsert(r, f) = [r EXCEPT !.dirty = FALSE]
    BY <1>1 DEF Upsert, Row
  <2> QED BY <2>1 DEF Row
<1>2. CASE ~r.dirty
  <2>1. Upsert(r, f) = [r EXCEPT !.seen = f.seen, !.dirty = FALSE]
    BY <1>2 DEF Upsert
  <2> QED BY <2>1 DEF Row, Flags
<1> QED BY <1>1, <1>2

LEMMA TypeIngest ==
    ASSUME TypeOK, IngestFetch \/ IngestStep
    PROVE  TypeOK'
<1>1. CASE IngestFetch
  <2>1. PICK m \in Msg :
           OnServer(m) /\ ingest' = [pc |-> "fetched", cur |-> {m}, flags |-> FlagsOf(server[m])]
    BY <1>1 DEF IngestFetch
  <2>2. FlagsOf(server[m]) \in Flags
    BY <2>1 DEF OnServer, TypeOK, FlagsOf, Flags
  <2>3. ingest' \in IngestState
    BY <2>1, <2>2 DEF IngestState
  <2> QED BY <1>1, <2>3 DEF IngestFetch, TypeOK
<1>2. CASE IngestMerge
  <2>1. PICK m \in ingest.cur :
           /\ HasRow(m)
           /\ \/ ingest' = IngestIdle
              \/ ingest' = [ingest EXCEPT !.pc = "merged",
                                          !.flags = Merge(local[m], ingest.flags)]
    BY <1>2 DEF IngestMerge
  <2>2. Merge(local[m], ingest.flags) \in Flags
    BY <2>1, MergeFlags DEF HasRow, TypeOK, IngestState
  <2>3. ingest' \in IngestState
    BY <2>1, <2>2, IngestIdleType DEF TypeOK, IngestState
  <2> QED BY <1>2, <2>3 DEF IngestMerge, TypeOK
<1>3. CASE IngestApply
  <2>1. local' \in [Msg -> Row \cup {NoRow}] /\ unread' \in Nat /\ skewed' \in BOOLEAN
    <3>1. ASSUME NEW m \in ingest.cur, ApplyServerEmailFlags(m, ingest.flags)
          PROVE  local' \in [Msg -> Row \cup {NoRow}] /\ unread' \in Nat /\ skewed' \in BOOLEAN
      <4>1. m \in Msg /\ ingest.flags \in Flags
        BY DEF TypeOK, IngestState
      <4> QED BY <3>1, <4>1, ApplyType
    <3>2. CASE UNCHANGED <<local, unread, skewed>>
      BY <3>2 DEF TypeOK
    <3> QED BY <1>3, <3>1, <3>2 DEF IngestApply
  <2>2. spent' \in [{"edits", "remote", "faults"} -> Nat]
    BY <1>3, FaultType DEF IngestApply
  <2> QED BY <1>3, <2>1, <2>2, IngestIdleType DEF IngestApply, TypeOK
<1>4. CASE IngestSave
  <2>0. spent' \in [{"edits", "remote", "faults"} -> Nat]
    BY <1>4, FaultType DEF IngestSave, TypeOK
  <2>1. PICK m \in ingest.cur :
          IF HasRow(m)
          THEN /\ local' = [local EXCEPT ![m] = Upsert(@, ingest.flags)]
               /\ UNCHANGED <<unread, skewed, intent, owed>>
          ELSE /\ local' = [local EXCEPT ![m] = [seen |-> ingest.flags.seen,
                                                 flagged |-> FALSE, dirty |-> FALSE,
                                                 hidden |-> FALSE]]
               /\ unread' = IF ingest.flags.seen THEN unread ELSE unread + 1
               /\ UNCHANGED skewed
               /\ intent' = [intent EXCEPT ![m] = [seen |-> ingest.flags.seen,
                                                   flagged |-> FALSE]]
               /\ owed' = [owed EXCEPT ![m] = {}]
    BY <1>4 DEF IngestSave
  <2>2. m \in Msg /\ ingest.flags \in Flags
    BY <2>1 DEF TypeOK, IngestState
  <2>3. CASE HasRow(m)
    <3>1. Upsert(local[m], ingest.flags) \in Row
      BY <2>2, <2>3, UpsertRow DEF HasRow, TypeOK
    <3> QED BY <1>4, <2>0, <2>1, <2>2, <2>3, <3>1, IngestIdleType DEF IngestSave, TypeOK
  <2>4. CASE ~HasRow(m)
    <3>1. /\ [seen |-> ingest.flags.seen, flagged |-> FALSE, dirty |-> FALSE, hidden |-> FALSE] \in Row
          /\ [seen |-> ingest.flags.seen, flagged |-> FALSE] \in Flags
      BY <2>2 DEF Row, Flags
    <3>2. unread' \in Nat /\ skewed' \in BOOLEAN
      BY <2>1, <2>4 DEF TypeOK
    <3>3. local' \in [Msg -> Row \cup {NoRow}]
      BY <2>1, <2>4, <3>1 DEF TypeOK
    <3>4. /\ intent' \in [Msg -> Flags]
          /\ owed' \in [Msg -> SUBSET {"seen", "flagged"}]
      BY <2>1, <2>4, <3>1 DEF TypeOK
    <3> QED BY <1>4, <2>0, <3>2, <3>3, <3>4, IngestIdleType DEF IngestSave, TypeOK
  <2> QED BY <2>3, <2>4
<1> QED BY <1>1, <1>2, <1>3, <1>4 DEF IngestStep

LEMMA TypeNext == TypeOK /\ [Next]_vars => TypeOK'
<1> SUFFICES ASSUME TypeOK, [Next]_vars PROVE TypeOK'
  OBVIOUS
<1>1. ASSUME NEW m \in Msg, UserEdit(m) PROVE TypeOK'
  BY <1>1, TypeEdits
<1>2. CASE WorkerStep
  BY <1>2, TypeInbound, TypeOutbound DEF WorkerStep
<1>3. CASE Stop
  <2>1. spent' \in [{"edits", "remote", "faults"} -> Nat]
    BY <1>3, FaultType DEF Stop
  <2> QED BY <1>3, <2>1, AtRestType, IngestIdleType DEF Stop, TypeOK, WorkerPC
<1>4. CASE IngestFetch \/ IngestStep
  BY <1>4, TypeIngest
<1>5. ASSUME NEW m \in Msg, RemoteChange(m) \/ Expunge(m) PROVE TypeOK'
  <2>1. spent' \in [{"edits", "remote", "faults"} -> Nat]
    BY <1>5, SpendType DEF RemoteChange, Expunge
  <2>2. server' \in [Msg -> Flags \cup {NoRow}]
    BY <1>5 DEF RemoteChange, Expunge, TypeOK
  <2> QED BY <1>5, <2>1, <2>2 DEF RemoteChange, Expunge, TypeOK
<1>6. CASE RefreshUnreadCounts
  BY <1>6, UnreadRowsNat DEF RefreshUnreadCounts, TypeOK
<1>7. CASE UNCHANGED vars
  BY <1>7 DEF vars, TypeOK
<1>8. ASSUME NEW m \in Msg, Hide(m) PROVE TypeOK'
  BY <1>8, HideRow
<1> QED BY <1>1, <1>2, <1>3, <1>4, <1>5, <1>6, <1>7, <1>8 DEF Next, UserEdit

(* Rows, worker, fetcher and counters keep the shape the schema and the    *)
(* code give them; the unread counter never becomes negative.              *)
THEOREM FlagTypeCorrect == Spec => []TypeOK
BY TypeInit, TypeNext, PTL DEF Spec

------------------------------------------------------------------------------
(* DirtyProtected is inductive: only a user's edit makes a row dirty, and  *)
(* every other writer of a row either leaves a dirty row alone or clears   *)
(* its mark.                                                               *)

(* What one writer other than the user does to the row of a message.       *)
LEMMA ProtectedStep ==
    ASSUME TypeOK, DirtyProtected, NEW m \in Msg,
           local' = [local EXCEPT ![m] = local'[m]],
           local'[m] = NoRow \/ ~local'[m].dirty,
           \A n \in Msg \ {m} : intent'[n] = intent[n]
    PROVE  DirtyProtected'
<1>1. \A n \in Msg \ {m} : local'[n] = local[n]
  BY DEF TypeOK
<1> QED BY <1>1 DEF DirtyProtected, HasRow

LEMMA ProtectedQuiet ==
    ASSUME DirtyProtected, UNCHANGED <<local, intent>>
    PROVE  DirtyProtected'
BY DEF DirtyProtected, HasRow

LEMMA ProtectedEdit ==
    ASSUME TypeOK, DirtyProtected, NEW m \in Msg, NEW r \in Row, NEW F, Edit(m, r, F)
    PROVE  DirtyProtected'
<1>1. local'[m] = r /\ intent'[m] = FlagsOf(r)
  BY DEF Edit, TypeOK
<1>2. \A n \in Msg \ {m} : local'[n] = local[n] /\ intent'[n] = intent[n]
  BY DEF Edit, TypeOK
<1> QED BY <1>1, <1>2 DEF DirtyProtected, HasRow

LEMMA ProtectedApply ==
    ASSUME TypeOK, DirtyProtected, NEW m \in Msg, NEW f \in Flags,
           ApplyServerEmailFlags(m, f), UNCHANGED intent
    PROVE  DirtyProtected'
<1>1. CASE HasRow(m) /\ ~local[m].dirty
  <2>1. ~WithFlags(local[m], f).dirty
    BY <1>1, FlagsOfRow DEF HasRow, TypeOK
  <2>2. local'[m] = WithFlags(local[m], f) /\ local' = [local EXCEPT ![m] = local'[m]]
    BY <1>1 DEF ApplyServerEmailFlags, TypeOK
  <2> QED BY <2>1, <2>2, ProtectedStep
<1>2. CASE ~(HasRow(m) /\ ~local[m].dirty)
  BY <1>2, ProtectedQuiet DEF ApplyServerEmailFlags
<1> QED BY <1>1, <1>2

LEMMA ProtectedInit == Init => DirtyProtected
<1> SUFFICES ASSUME Init PROVE DirtyProtected
  OBVIOUS
<1>1. intent = [m \in Msg |-> FlagsOf(local[m])]
  BY DEF Init
<1> QED BY <1>1 DEF DirtyProtected

LEMMA ProtectedNext == TypeOK /\ DirtyProtected /\ [Next]_vars => DirtyProtected'
<1> SUFFICES ASSUME TypeOK, DirtyProtected, [Next]_vars PROVE DirtyProtected'
  OBVIOUS
<1>1. ASSUME NEW m \in Msg, UserEdit(m) PROVE DirtyProtected'
  BY <1>1, UserEdits, ProtectedEdit
<1>2. CASE InboundRead \/ InboundFetch \/ InboundEnd \/ OutboundRead \/ OutboundStore
  BY <1>2, ProtectedQuiet
     DEF InboundRead, InboundFetch, InboundEnd, OutboundRead, OutboundStore
<1>3. CASE InboundApply
  <2>1. ASSUME NEW m \in worker.cur, ApplyServerEmailFlags(m, worker.snap[m])
        PROVE  DirtyProtected'
    <3>1. m \in Msg /\ worker.snap[m] \in Flags
      BY DEF TypeOK, WorkerState
    <3> QED BY <1>3, <2>1, <3>1, ProtectedApply DEF InboundApply
  <2> QED BY <1>3, <2>1, ProtectedQuiet DEF InboundApply
<1>4. CASE InboundPurge
  <2>1. PICK m \in worker.todo : local' = [local EXCEPT ![m] = NoRow] \/ UNCHANGED local
    BY <1>4 DEF InboundPurge
  <2>2. m \in Msg /\ UNCHANGED intent
    BY <1>4, <2>1 DEF InboundPurge, TypeOK, WorkerState
  <2>3. CASE local' = [local EXCEPT ![m] = NoRow]
    <3>1. local'[m] = NoRow
      BY <2>2, <2>3 DEF TypeOK
    <3> QED BY <2>2, <2>3, <3>1, ProtectedStep
  <2> QED BY <2>1, <2>2, <2>3, ProtectedQuiet
<1>5. CASE OutboundClear
  <2>1. PICK m \in worker.todo :
           \/ local' = IF HasRow(m) THEN [local EXCEPT ![m].dirty = FALSE] ELSE local
           \/ UNCHANGED local
    BY <1>5 DEF OutboundClear
  <2>2. m \in Msg /\ UNCHANGED intent
    BY <1>5, <2>1 DEF OutboundClear, TypeOK, WorkerState
  <2>3. CASE HasRow(m) /\ local' = [local EXCEPT ![m].dirty = FALSE]
    <3>1. local[m] \in Row
      BY <2>2, <2>3 DEF HasRow, TypeOK
    <3>2. local'[m] = [local[m] EXCEPT !.dirty = FALSE]
      BY <2>2, <2>3 DEF TypeOK
    <3>3. ~local'[m].dirty
      BY <3>1, <3>2 DEF Row
    <3>4. local' = [local EXCEPT ![m] = local'[m]]
      BY <2>3, <3>2
    <3> QED BY <2>2, <3>3, <3>4, ProtectedStep
  <2> QED BY <2>1, <2>2, <2>3, ProtectedQuiet
<1>6. CASE Stop \/ IngestFetch \/ IngestMerge \/ RefreshUnreadCounts
  BY <1>6, ProtectedQuiet DEF Stop, IngestFetch, IngestMerge, RefreshUnreadCounts
<1>7. CASE IngestApply
  <2>1. ASSUME NEW m \in ingest.cur, ApplyServerEmailFlags(m, ingest.flags)
        PROVE  DirtyProtected'
    <3>1. m \in Msg /\ ingest.flags \in Flags
      BY DEF TypeOK, IngestState
    <3> QED BY <1>7, <2>1, <3>1, ProtectedApply DEF IngestApply
  <2> QED BY <1>7, <2>1, ProtectedQuiet DEF IngestApply
<1>8. CASE IngestSave
  <2>1. PICK m \in ingest.cur :
          IF HasRow(m)
          THEN /\ local' = [local EXCEPT ![m] = Upsert(@, ingest.flags)]
               /\ UNCHANGED intent
          ELSE /\ local' = [local EXCEPT ![m] = [seen |-> ingest.flags.seen,
                                                 flagged |-> FALSE, dirty |-> FALSE,
                                                 hidden |-> FALSE]]
               /\ intent' = [intent EXCEPT ![m] = [seen |-> ingest.flags.seen,
                                                   flagged |-> FALSE]]
    BY <1>8 DEF IngestSave
  <2>2. m \in Msg /\ ingest.flags \in Flags
    BY <2>1 DEF TypeOK, IngestState
  <2>3. \A n \in Msg \ {m} : intent'[n] = intent[n]
    BY <2>1 DEF TypeOK
  <2>4. CASE HasRow(m)
    <3>1. ~Upsert(local[m], ingest.flags).dirty
      BY <2>2, <2>4, UpsertRow DEF HasRow, TypeOK
    <3>2. local'[m] = Upsert(local[m], ingest.flags) /\ local' = [local EXCEPT ![m] = local'[m]]
      BY <2>1, <2>2, <2>4 DEF TypeOK
    <3> QED BY <2>2, <2>3, <3>1, <3>2, ProtectedStep
  <2>5. CASE ~HasRow(m)
    <3>1. ~local'[m].dirty /\ local' = [local EXCEPT ![m] = local'[m]]
      BY <2>1, <2>2, <2>5 DEF TypeOK
    <3> QED BY <2>2, <2>3, <3>1, ProtectedStep
  <2> QED BY <2>4, <2>5
<1>9. ASSUME NEW m \in Msg, RemoteChange(m) \/ Expunge(m) PROVE DirtyProtected'
  BY <1>9, ProtectedQuiet DEF RemoteChange, Expunge
<1>10. CASE UNCHANGED vars
  BY <1>10, ProtectedQuiet DEF vars
<1>11. ASSUME NEW m \in Msg, Hide(m) PROVE DirtyProtected'
  <2>1. UNCHANGED intent
    BY <1>11 DEF Hide
  <2> QED BY <1>11, <2>1, HideRow DEF DirtyProtected
<1> QED BY <1>1, <1>2, <1>3, <1>4, <1>5, <1>6, <1>7, <1>8, <1>9, <1>10, <1>11
        DEF Next, UserEdit, WorkerStep, IngestStep

(* Under every hazard, a row that is marked dirty shows the user's edit:   *)
(* ApplyServerEmailFlags re-reads the mark inside its transaction, so an   *)
(* inbound pass or a fetch that is older than the edit cannot overwrite it. *)
THEOREM EditsProtected == Spec => []DirtyProtected
<1>1. TypeOK /\ DirtyProtected /\ [Next]_vars => (TypeOK /\ DirtyProtected)'
  BY TypeNext, ProtectedNext
<1>2. Init => TypeOK /\ DirtyProtected
  BY TypeInit, ProtectedInit
<1> QED BY <1>1, <1>2, PTL DEF Spec

------------------------------------------------------------------------------
(* EditsSurvive needs what a push knows about the rows it has read: nobody *)
(* edits or saves them meanwhile, so they still show the flags read, and a *)
(* STORE that succeeded has paid for one of these flags.                   *)

CalmAssumption == {"edit_in_push", "refetch"} \cap Hazards = {}

Pushing == worker.pc \in {"store", "clear"}

(* The rows of the batch are as they were read.                            *)
BatchUnchanged ==
    Pushing => \A m \in worker.todo :
        HasRow(m) /\ local[m].dirty /\ worker.snap[m] = FlagsOf(local[m])

SeenPaid == worker.pc = "store" /\ worker.ok =>
    \A m \in worker.todo :
        worker.step >= 3 \/ (worker.step = 2 /\ worker.snap[m].seen) => "seen" \notin owed[m]

FlaggedPaid == worker.pc = "store" /\ worker.ok =>
    \A m \in worker.todo :
        worker.step = 4 /\ worker.snap[m].flagged => "flagged" \notin owed[m]

(* The marks are cleared only after everything has been paid.              *)
AllPaid == worker.pc = "clear" => \A m \in worker.todo : owed[m] = {}

StepCounted == worker.pc = "store" => worker.step \in 1 .. 4

EditsInv ==
    /\ EditsSurvive
    /\ ingest.pc = "idle"
    /\ BatchUnchanged /\ SeenPaid /\ FlaggedPaid /\ AllPaid /\ StepCounted

(* Outside a push only EditsSurvive is at stake.                           *)
LEMMA CalmQuiet ==
    ASSUME EditsSurvive', ingest'.pc = "idle", worker'.pc \notin {"store", "clear"}
    PROVE  EditsInv'
BY DEF EditsInv, BatchUnchanged, SeenPaid, FlaggedPaid, AllPaid, StepCounted, Pushing

LEMMA SurviveEdit ==
    ASSUME TypeOK, EditsInv, CalmAssumption,
           NEW m \in Msg, NEW r, r.dirty, NEW F, Edit(m, r, F)
    PROVE  EditsInv'
<1>1. worker.pc \notin {"store", "clear"}
  BY DEF Edit, CalmAssumption
<1>2. local'[m] = r
  BY DEF Edit, TypeOK
<1>3. \A n \in Msg \ {m} : local'[n] = local[n] /\ owed'[n] = owed[n]
  BY DEF Edit, TypeOK
<1>4. EditsSurvive'
  BY <1>2, <1>3 DEF EditsInv, EditsSurvive, HasRow
<1> QED BY <1>1, <1>4, CalmQuiet DEF Edit, EditsInv

(* A STORE that succeeds for a message pays for the flag it carries.       *)
LEMMA StorePays ==
    ASSUME TypeOK, DirtyProtected, BatchUnchanged, worker.pc = "store",
           owed' = [m \in Msg |->
                      IF m \in StoreSet(worker.step)
                         /\ intent[m][StoreFlag(worker.step)] = StoreValue(worker.step)
                      THEN owed[m] \ {StoreFlag(worker.step)} ELSE owed[m]],
           NEW m \in worker.todo
    PROVE  /\ owed'[m] \subseteq owed[m]
           /\ worker.step = 1 /\ worker.snap[m].seen => "seen" \notin owed'[m]
           /\ worker.step = 2 /\ ~worker.snap[m].seen => "seen" \notin owed'[m]
           /\ worker.step = 3 /\ worker.snap[m].flagged => "flagged" \notin owed'[m]
           /\ worker.step = 4 /\ ~worker.snap[m].flagged => "flagged" \notin owed'[m]
<1>1. m \in Msg /\ worker.snap[m] \in Flags
  BY DEF TypeOK, WorkerState
<1>2. intent[m] = worker.snap[m]
  BY <1>1 DEF BatchUnchanged, Pushing, DirtyProtected
<1>3. owed'[m] \subseteq owed[m]
  BY <1>1
<1>4. worker.snap[m].seen \in BOOLEAN /\ worker.snap[m].flagged \in BOOLEAN
  BY <1>1 DEF Flags
<1>5. ASSUME worker.step = 1, worker.snap[m].seen PROVE "seen" \notin owed'[m]
  <2>1. StoreFlag(1) = "seen" /\ StoreValue(1) = TRUE
    BY DEF StoreFlag, StoreValue
  <2> QED BY <1>1, <1>2, <1>4, <1>5, <2>1 DEF StoreSet
<1>6. ASSUME worker.step = 2, ~worker.snap[m].seen PROVE "seen" \notin owed'[m]
  <2>1. StoreFlag(2) = "seen" /\ StoreValue(2) = FALSE
    BY DEF StoreFlag, StoreValue
  <2> QED BY <1>1, <1>2, <1>4, <1>6, <2>1 DEF StoreSet
<1>7. ASSUME worker.step = 3, worker.snap[m].flagged PROVE "flagged" \notin owed'[m]
  <2>1. StoreFlag(3) = "flagged" /\ StoreValue(3) = TRUE
    BY DEF StoreFlag, StoreValue
  <2> QED BY <1>1, <1>2, <1>4, <1>7, <2>1 DEF StoreSet
<1>8. ASSUME worker.step = 4, ~worker.snap[m].flagged PROVE "flagged" \notin owed'[m]
  <2>1. StoreFlag(4) = "flagged" /\ StoreValue(4) = FALSE
    BY DEF StoreFlag, StoreValue
  <2> QED BY <1>1, <1>2, <1>4, <1>8, <2>1 DEF StoreSet
<1> QED BY <1>3, <1>5, <1>6, <1>7, <1>8

LEMMA SurviveStore ==
    ASSUME TypeOK, DirtyProtected, EditsInv, OutboundStore
    PROVE  EditsInv'
<1>1. \A m \in Msg : owed'[m] \subseteq owed[m]
  <2>1. \/ UNCHANGED owed
        \/ owed' = [m \in Msg |->
              IF m \in StoreSet(worker.step)
                 /\ intent[m][StoreFlag(worker.step)] = StoreValue(worker.step)
              THEN owed[m] \ {StoreFlag(worker.step)} ELSE owed[m]]
    BY DEF OutboundStore
  <2> QED BY <2>1
<1>2. EditsSurvive'
  BY <1>1 DEF OutboundStore, EditsInv, EditsSurvive, HasRow
<1>3. PICK ok \in BOOLEAN :
         /\ worker' = AfterStore(ok)
         /\ ok => /\ worker.ok
                  /\ owed' = [m \in Msg |->
                       IF m \in StoreSet(worker.step)
                          /\ intent[m][StoreFlag(worker.step)] = StoreValue(worker.step)
                       THEN owed[m] \ {StoreFlag(worker.step)} ELSE owed[m]]
  <2>1. worker.ok \in BOOLEAN
    BY DEF TypeOK, WorkerState
  <2> QED BY <2>1 DEF OutboundStore
<1>4. /\ worker.pc = "store" /\ UNCHANGED <<local, ingest>>
      /\ worker.step \in 1 .. 4 /\ worker \in WorkerState
  BY DEF OutboundStore, EditsInv, StepCounted, TypeOK
<1>5. CASE (Gmail /\ ~ok) \/ (worker.step = 4 /\ ~ok)
  <2>1. worker' = AtRest("inbound")
    BY <1>3, <1>5 DEF AfterStore
  <2>2. worker'.pc = "inbound"
    BY <2>1 DEF AtRest
  <2> QED BY <1>2, <1>4, <2>2, CalmQuiet DEF EditsInv
<1>6. CASE ~(Gmail /\ ~ok) /\ worker.step < 4
  <2>1. worker' = [worker EXCEPT !.step = worker.step + 1, !.ok = ok]
    BY <1>3, <1>6 DEF AfterStore
  <2>2. /\ worker'.pc = "store" /\ worker'.todo = worker.todo /\ worker'.snap = worker.snap
        /\ worker'.step = worker.step + 1 /\ worker'.ok = ok
    BY <1>4, <2>1 DEF WorkerState
  <2>3. BatchUnchanged'
    BY <1>4, <2>2 DEF EditsInv, BatchUnchanged, Pushing, HasRow
  <2>4. AllPaid' /\ StepCounted'
    BY <1>4, <1>6, <2>2 DEF AllPaid, StepCounted
  <2>5. SeenPaid' /\ FlaggedPaid'
    <3> SUFFICES ASSUME ok, NEW m \in worker.todo
                 PROVE  /\ worker.step + 1 >= 3 \/ (worker.step + 1 = 2 /\ worker.snap[m].seen)
                              => "seen" \notin owed'[m]
                        /\ worker.step + 1 = 4 /\ worker.snap[m].flagged
                              => "flagged" \notin owed'[m]
      BY <2>2 DEF SeenPaid, FlaggedPaid
    <3>1. /\ owed'[m] \subseteq owed[m]
          /\ worker.step = 1 /\ worker.snap[m].seen => "seen" \notin owed'[m]
          /\ worker.step = 2 /\ ~worker.snap[m].seen => "seen" \notin owed'[m]
          /\ worker.step = 3 /\ worker.snap[m].flagged => "flagged" \notin owed'[m]
      BY <1>3, <1>4, StorePays DEF EditsInv
    <3>2. worker.step >= 3 \/ (worker.step = 2 /\ worker.snap[m].seen) => "seen" \notin owed[m]
      BY <1>3, <1>4 DEF EditsInv, SeenPaid
    <3> QED BY <1>4, <1>6, <3>1, <3>2
  <2> QED BY <1>2, <1>4, <2>3, <2>4, <2>5 DEF EditsInv
<1>7. CASE ok /\ worker.step = 4
  <2>1. worker' = [worker EXCEPT !.pc = "clear"]
    BY <1>3, <1>7 DEF AfterStore
  <2>2. worker'.pc = "clear" /\ worker'.todo = worker.todo /\ worker'.snap = worker.snap
    BY <1>4, <2>1 DEF WorkerState
  <2>3. BatchUnchanged'
    BY <1>4, <2>2 DEF EditsInv, BatchUnchanged, Pushing, HasRow
  <2>4. AllPaid'
    <3> SUFFICES ASSUME NEW m \in worker.todo PROVE owed'[m] = {}
      BY <2>2 DEF AllPaid
    <3>1. /\ owed'[m] \subseteq owed[m]
          /\ ~worker.snap[m].flagged => "flagged" \notin owed'[m]
      BY <1>3, <1>4, <1>7, StorePays DEF EditsInv
    <3>2. "seen" \notin owed[m] /\ (worker.snap[m].flagged => "flagged" \notin owed[m])
      BY <1>3, <1>4, <1>7 DEF EditsInv, SeenPaid, FlaggedPaid
    <3>3. owed[m] \subseteq {"seen", "flagged"}
      BY <1>4 DEF TypeOK, WorkerState
    <3> QED BY <3>1, <3>2, <3>3
  <2> QED BY <1>2, <1>4, <2>2, <2>3, <2>4
          DEF EditsInv, SeenPaid, FlaggedPaid, StepCounted
<1> QED BY <1>4, <1>5, <1>6, <1>7

LEMMA SurviveClear ==
    ASSUME TypeOK, EditsInv, OutboundClear
    PROVE  EditsInv'
<1>1. PICK m \in worker.todo :
         /\ \/ local' = IF HasRow(m) THEN [local EXCEPT ![m].dirty = FALSE] ELSE local
            \/ UNCHANGED local
         /\ worker' = IF worker.todo = {m} THEN AtRest("inbound")
                      ELSE [worker EXCEPT !.todo = @ \ {m}]
  BY DEF OutboundClear
<1>2. /\ worker.pc = "clear" /\ UNCHANGED <<owed, ingest>>
      /\ worker \in WorkerState /\ m \in Msg
  BY <1>1 DEF OutboundClear, TypeOK, WorkerState
<1>3. owed[m] = {}
  BY <1>1, <1>2 DEF EditsInv, AllPaid
<1>4. \A n \in Msg \ {m} : local'[n] = local[n]
  BY <1>1, <1>2 DEF TypeOK
<1>5. EditsSurvive'
  BY <1>2, <1>3, <1>4 DEF EditsInv, EditsSurvive, HasRow
<1>6. CASE worker.todo = {m}
  <2>1. worker'.pc = "inbound"
    BY <1>1, <1>6 DEF AtRest
  <2> QED BY <1>2, <1>5, <2>1, CalmQuiet DEF EditsInv
<1>7. CASE worker.todo # {m}
  <2>1. /\ worker'.pc = "clear" /\ worker'.todo = worker.todo \ {m}
        /\ worker'.snap = worker.snap
    BY <1>1, <1>2, <1>7 DEF WorkerState
  <2>2. BatchUnchanged'
    <3>1. \A n \in worker.todo \ {m} : local'[n] = local[n]
      BY <1>2, <1>4 DEF WorkerState
    <3> QED BY <1>2, <2>1, <3>1 DEF EditsInv, BatchUnchanged, Pushing, HasRow
  <2>3. AllPaid'
    BY <1>2, <2>1 DEF EditsInv, AllPaid
  <2> QED BY <1>2, <1>5, <2>1, <2>2, <2>3
          DEF EditsInv, SeenPaid, FlaggedPaid, StepCounted
<1> QED BY <1>6, <1>7

LEMMA SurviveInit == Init => EditsInv
<1> SUFFICES ASSUME Init PROVE EditsInv
  OBVIOUS
<1>1. worker.pc = "outbound" /\ ingest.pc = "idle"
  BY DEF Init, AtRest, IngestIdle
<1>2. EditsSurvive
  <2>1. owed = [m \in Msg |-> {}]
    BY DEF Init
  <2> QED BY <2>1 DEF EditsSurvive
<1> QED BY <1>1, <1>2
        DEF EditsInv, BatchUnchanged, SeenPaid, FlaggedPaid, AllPaid, StepCounted, Pushing

LEMMA SurviveNext ==
    ASSUME CalmAssumption
    PROVE  TypeOK /\ DirtyProtected /\ EditsInv /\ [Next]_vars => EditsInv'
<1> SUFFICES ASSUME TypeOK, DirtyProtected, EditsInv, [Next]_vars PROVE EditsInv'
  OBVIOUS
<1>1. ASSUME NEW m \in Msg, UserEdit(m) PROVE EditsInv'
  BY <1>1, UserEdits, SurviveEdit
<1>2. CASE InboundRead \/ InboundFetch \/ InboundEnd \/ Stop
  <2>1. worker'.pc \notin {"store", "clear"} /\ ingest'.pc = "idle"
    <3>1. CASE InboundRead
      BY <3>1 DEF InboundRead, AtRest, Batch, EditsInv
    <3>2. CASE InboundFetch
      BY <3>2 DEF InboundFetch, EditsInv, TypeOK, WorkerState
    <3>3. CASE InboundEnd
      BY <3>3 DEF InboundEnd, AtRest, EditsInv, TypeOK, WorkerState
    <3>4. CASE Stop
      BY <3>4 DEF Stop, AtRest, IngestIdle
    <3> QED BY <1>2, <3>1, <3>2, <3>3, <3>4
  <2>2. EditsSurvive'
    BY <1>2 DEF InboundRead, InboundFetch, InboundEnd, Stop, EditsInv, EditsSurvive, HasRow
  <2> QED BY <2>1, <2>2, CalmQuiet
<1>3. CASE InboundApply
  <2>1. /\ worker'.pc = "fetch" /\ UNCHANGED <<owed, ingest>>
    BY <1>3 DEF InboundApply, TypeOK, WorkerState
  <2>2. EditsSurvive'
    <3>1. ASSUME NEW m \in worker.cur, ApplyServerEmailFlags(m, worker.snap[m])
          PROVE  EditsSurvive'
      <4>1. \A n \in Msg \ {m} : local'[n] = local[n]
        BY <3>1 DEF ApplyServerEmailFlags, TypeOK
      <4>2. \/ local'[m] = local[m]
            \/ HasRow(m) /\ ~local[m].dirty
        BY <3>1 DEF ApplyServerEmailFlags
      <4> QED BY <2>1, <4>1, <4>2 DEF EditsInv, EditsSurvive, HasRow
    <3>2. CASE UNCHANGED local
      BY <2>1, <3>2 DEF EditsInv, EditsSurvive, HasRow
    <3> QED BY <1>3, <3>1, <3>2 DEF InboundApply
  <2> QED BY <2>1, <2>2, CalmQuiet DEF EditsInv
<1>4. CASE InboundPurge
  <2>1. PICK m \in worker.todo :
           /\ local' = [local EXCEPT ![m] = NoRow] \/ UNCHANGED local
           /\ worker' = IF worker.todo = {m} THEN AtRest("outbound")
                        ELSE [worker EXCEPT !.todo = @ \ {m}]
    BY <1>4 DEF InboundPurge
  <2>2. worker'.pc \in {"outbound", "purge"} /\ UNCHANGED <<owed, ingest>>
    BY <1>4, <2>1 DEF InboundPurge, AtRest, TypeOK, WorkerState
  <2>3. EditsSurvive'
    BY <2>1, <2>2 DEF EditsInv, EditsSurvive, HasRow, TypeOK, WorkerState
  <2> QED BY <2>2, <2>3, CalmQuiet DEF EditsInv
<1>5. CASE OutboundRead
  <2> DEFINE dirty == {m \in Msg : HasRow(m) /\ local[m].dirty}
  <2>1. /\ \/ worker' = IF dirty = {} THEN AtRest("inbound") ELSE Batch("store", dirty, 1)
           \/ worker' = AtRest("inbound")
        /\ UNCHANGED <<local, owed, ingest>>
    BY <1>5 DEF OutboundRead
  <2>2. EditsSurvive'
    BY <2>1 DEF EditsInv, EditsSurvive, HasRow
  <2>3. CASE worker' = AtRest("inbound")
    <3>1. worker'.pc = "inbound"
      BY <2>3 DEF AtRest
    <3> QED BY <2>1, <2>2, <3>1, CalmQuiet DEF EditsInv
  <2>4. CASE worker' = Batch("store", dirty, 1)
    <3>1. /\ worker'.pc = "store" /\ worker'.todo = dirty /\ worker'.step = 1
          /\ \A m \in dirty : worker'.snap[m] = FlagsOf(local[m])
      BY <2>4 DEF Batch
    <3>2. BatchUnchanged'
      BY <2>1, <3>1 DEF BatchUnchanged, Pushing, HasRow
    <3>3. SeenPaid' /\ FlaggedPaid' /\ AllPaid' /\ StepCounted'
      <4>1. SeenPaid' /\ FlaggedPaid' /\ AllPaid'
        <5> SUFFICES ASSUME NEW m \in dirty
                     PROVE  /\ worker'.step < 3 /\ (worker'.step = 2 => FALSE)
                            /\ worker'.step # 4
          BY <3>1 DEF SeenPaid, FlaggedPaid, AllPaid
        <5> QED BY <3>1
      <4> QED BY <3>1, <4>1 DEF StepCounted
    <3> QED BY <2>1, <2>2, <3>2, <3>3 DEF EditsInv
  <2> QED BY <2>1, <2>3, <2>4
<1>6. CASE OutboundStore
  BY <1>6, SurviveStore
<1>7. CASE OutboundClear
  BY <1>7, SurviveClear
<1>8. CASE IngestFetch \/ IngestStep
  BY <1>8 DEF IngestFetch, IngestStep, IngestMerge, IngestApply, IngestSave,
              EditsInv, CalmAssumption
<1>9. ASSUME RefreshUnreadCounts \/ \E m \in Msg : RemoteChange(m) \/ Expunge(m)
      PROVE  EditsInv'
  BY <1>9 DEF RefreshUnreadCounts, RemoteChange, Expunge, EditsInv, EditsSurvive, BatchUnchanged, SeenPaid,
              FlaggedPaid, AllPaid, StepCounted, Pushing, HasRow
<1>10. CASE UNCHANGED vars
  BY <1>10 DEF vars, EditsInv, EditsSurvive, BatchUnchanged, SeenPaid,
               FlaggedPaid, AllPaid, StepCounted, Pushing, HasRow
<1>11. ASSUME NEW m \in Msg, Hide(m) PROVE EditsInv'
  <2>1. UNCHANGED <<worker, ingest, owed>>
    BY <1>11 DEF Hide
  <2>2. ASSUME NEW n \in Msg, HasRow(n) \/ HasRow(n)'
        PROVE  /\ HasRow(n) /\ HasRow(n)'
               /\ local'[n].dirty <=> local[n].dirty
               /\ FlagsOf(local'[n]) = FlagsOf(local[n])
    BY <1>11, <2>2, HideRow
  <2>3. EditsSurvive'
    <3> SUFFICES ASSUME NEW n \in Msg, HasRow(n)', owed[n] # {} PROVE local'[n].dirty
      BY <2>1 DEF EditsSurvive
    <3> QED BY <2>2 DEF EditsInv, EditsSurvive
  <2>4. BatchUnchanged'
    <3> SUFFICES ASSUME Pushing, NEW n \in worker.todo
                 PROVE  HasRow(n)' /\ local'[n].dirty /\ worker.snap[n] = FlagsOf(local'[n])
      BY <2>1 DEF BatchUnchanged, Pushing
    <3>1. n \in Msg
      BY DEF TypeOK, WorkerState
    <3>2. HasRow(n) /\ local[n].dirty /\ worker.snap[n] = FlagsOf(local[n])
      BY DEF EditsInv, BatchUnchanged
    <3> QED BY <2>2, <3>1, <3>2
  <2> QED BY <2>1, <2>3, <2>4
          DEF EditsInv, SeenPaid, FlaggedPaid, AllPaid, StepCounted
<1> QED BY <1>1, <1>2, <1>3, <1>4, <1>5, <1>6, <1>7, <1>8, <1>9, <1>10, <1>11
        DEF Next, UserEdit, WorkerStep

(* If nobody edits a message during a push and none is saved a second      *)
(* time, an edit that has not reached the server keeps its row dirty:      *)
(* whatever fails in a pass of syncFlags, ClearDirtyFlag only runs after   *)
(* every STORE of the batch has succeeded.                                 *)
THEOREM NoEditLost ==
    ASSUME CalmAssumption
    PROVE  Spec => []EditsSurvive
<1>1. Init => TypeOK /\ DirtyProtected /\ EditsInv
  BY TypeInit, ProtectedInit, SurviveInit
<1>2. TypeOK /\ DirtyProtected /\ EditsInv /\ [Next]_vars
        => (TypeOK /\ DirtyProtected /\ EditsInv)'
  BY TypeNext, ProtectedNext, SurviveNext
<1>3. EditsInv => EditsSurvive
  BY DEF EditsInv
<1> QED BY <1>1, <1>2, <1>3, PTL DEF Spec

------------------------------------------------------------------------------
(* RowsOfServerMessagesStay: what is about to be purged is not on the      *)
(* server, unless a broken stream pretended so.                            *)

UnbrokenAssumption == "stream" \notin Hazards

PurgesGone == worker.pc = "purge" => \A m \in worker.todo : ~OnServer(m)

LEMMA GoneStaysGone ==
    ASSUME TypeOK, [Next]_vars, NEW m \in Msg, ~OnServer(m)
    PROVE  ~OnServer(m)'
<1>1. CASE OutboundStore
  BY <1>1 DEF OutboundStore, OnServer, TypeOK
<1>2. ASSUME NEW n \in Msg, RemoteChange(n) \/ Expunge(n) PROVE ~OnServer(m)'
  BY <1>2 DEF RemoteChange, Expunge, OnServer, TypeOK
<1>3. CASE UNCHANGED server
  BY <1>3 DEF OnServer
<1> QED BY <1>1, <1>2, <1>3
        DEF Next, WorkerStep, IngestStep, vars, MarkEmailRead, BulkMarkEmails,
            RefreshUnreadCounts, ToggleFlagEmail, ToggleMuteEmail, Hide, Edit, InboundRead, InboundFetch, InboundApply, InboundEnd,
            InboundPurge, OutboundRead, OutboundClear, Stop, IngestFetch, IngestMerge,
            IngestApply, IngestSave

LEMMA PurgesNext ==
    ASSUME UnbrokenAssumption
    PROVE  TypeOK /\ PurgesGone /\ [Next]_vars => PurgesGone'
<1> SUFFICES ASSUME TypeOK, PurgesGone, [Next]_vars PROVE PurgesGone'
  OBVIOUS
<1>1. CASE UNCHANGED worker
  <2>1. \A m \in worker.todo : ~OnServer(m) => ~OnServer(m)'
    BY GoneStaysGone DEF TypeOK, WorkerState
  <2> QED BY <1>1, <2>1 DEF PurgesGone
<1>2. CASE InboundEnd
  <2>1. \A m \in worker.todo : ~OnServer(m)
    BY <1>2 DEF InboundEnd, Fault, UnbrokenAssumption
  <2>2. \A m \in worker.todo : ~OnServer(m)'
    BY <2>1, GoneStaysGone DEF TypeOK, WorkerState
  <2>3. worker'.pc = "purge" => worker'.todo = worker.todo
    BY <1>2 DEF InboundEnd, AtRest, TypeOK, WorkerState
  <2> QED BY <2>2, <2>3 DEF PurgesGone
<1>3. CASE InboundPurge
  <2>1. worker.pc = "purge" /\ \A m \in worker.todo : ~OnServer(m)'
    BY <1>3, GoneStaysGone DEF InboundPurge, PurgesGone, TypeOK, WorkerState
  <2>2. worker'.pc = "purge" => worker'.todo \subseteq worker.todo
    BY <1>3 DEF InboundPurge, AtRest, TypeOK, WorkerState
  <2> QED BY <2>1, <2>2 DEF PurgesGone
<1>4. CASE InboundRead \/ InboundFetch \/ InboundApply \/ OutboundRead \/ OutboundClear \/ Stop
  <2>1. worker'.pc # "purge"
    <3>1. CASE InboundRead \/ OutboundRead \/ Stop
      BY <3>1 DEF InboundRead, OutboundRead, Stop, AtRest, Batch
    <3>2. CASE InboundFetch \/ InboundApply
      BY <3>2 DEF InboundFetch, InboundApply, TypeOK, WorkerState
    <3>3. CASE OutboundClear
      BY <3>3 DEF OutboundClear, AtRest, TypeOK, WorkerState
    <3> QED BY <1>4, <3>1, <3>2, <3>3
  <2> QED BY <2>1 DEF PurgesGone
<1>5. CASE OutboundStore
  <2>1. worker'.pc # "purge"
    <3>1. worker.pc = "store" /\ \E ok \in BOOLEAN : worker' = AfterStore(ok)
      BY <1>5 DEF OutboundStore, TypeOK, WorkerState
    <3>2. ASSUME NEW ok \in BOOLEAN PROVE AfterStore(ok).pc # "purge"
      BY <3>1 DEF AfterStore, AtRest, TypeOK, WorkerState
    <3> QED BY <3>1, <3>2
  <2> QED BY <2>1 DEF PurgesGone
<1> QED BY <1>1, <1>2, <1>3, <1>4, <1>5
        DEF Next, WorkerStep, IngestStep, vars, MarkEmailRead, BulkMarkEmails,
            RefreshUnreadCounts, ToggleFlagEmail, ToggleMuteEmail, Hide, Edit, IngestFetch, IngestMerge, IngestApply, IngestSave,
            RemoteChange, Expunge

LEMMA RowsNext ==
    TypeOK /\ PurgesGone /\ [Next]_vars
      => [\A m \in Msg : HasRow(m) /\ OnServer(m) => HasRow(m)']_vars
<1> SUFFICES ASSUME TypeOK, PurgesGone, [Next]_vars, NEW m \in Msg, HasRow(m), OnServer(m)
             PROVE  HasRow(m)'
  OBVIOUS
<1> USE ConstantsAssumption
<1>1. NoRow \notin Row /\ local[m] \in Row
  BY DEF HasRow, TypeOK
<1>2. CASE local'[m] \in Row
  BY <1>1, <1>2 DEF HasRow
<1>3. CASE InboundPurge
  <2>1. m \notin worker.todo
    BY <1>3 DEF InboundPurge, PurgesGone
  <2>2. local'[m] = local[m]
    BY <1>3, <2>1 DEF InboundPurge, TypeOK, WorkerState
  <2> QED BY <1>1, <2>2 DEF HasRow
<1>4. ASSUME ~InboundPurge PROVE local'[m] \in Row
  <2>1. CASE UNCHANGED local
    BY <1>1, <2>1
  <2>2. ASSUME NEW n \in Msg, UserEdit(n) PROVE local'[m] \in Row
    <3>1. \E r \in Row : local' = [local EXCEPT ![n] = r]
      BY <2>2, UserEdits DEF Edit
    <3> QED BY <1>1, <3>1 DEF TypeOK
  <2>3. ASSUME NEW n \in Msg, NEW f \in Flags, ApplyServerEmailFlags(n, f)
        PROVE  local'[m] \in Row
    <3>1. CASE HasRow(n) /\ ~local[n].dirty
      <4>1. WithFlags(local[n], f) \in Row
        BY <3>1, FlagsOfRow DEF HasRow, TypeOK
      <4>2. local' = [local EXCEPT ![n] = WithFlags(local[n], f)]
        BY <2>3, <3>1 DEF ApplyServerEmailFlags
      <4> QED BY <1>1, <4>1, <4>2 DEF TypeOK
    <3>2. CASE ~(HasRow(n) /\ ~local[n].dirty)
      BY <1>1, <2>3, <3>2 DEF ApplyServerEmailFlags
    <3> QED BY <3>1, <3>2
  <2>4. CASE InboundApply \/ IngestApply
    <3>1. \/ UNCHANGED local
          \/ \E n \in Msg, f \in Flags : ApplyServerEmailFlags(n, f)
      BY <2>4 DEF InboundApply, IngestApply, TypeOK, WorkerState, IngestState
    <3> QED BY <1>1, <2>3, <3>1
  <2>5. CASE OutboundClear
    <3>1. PICK n \in worker.todo :
             \/ local' = IF HasRow(n) THEN [local EXCEPT ![n].dirty = FALSE] ELSE local
             \/ UNCHANGED local
      BY <2>5 DEF OutboundClear
    <3>2. [local[m] EXCEPT !.dirty = FALSE] \in Row
      BY <1>1 DEF Row
    <3> QED BY <1>1, <3>1, <3>2 DEF TypeOK
  <2>6. CASE IngestSave
    <3>1. PICK n \in ingest.cur :
             IF HasRow(n) THEN local' = [local EXCEPT ![n] = Upsert(@, ingest.flags)]
             ELSE local' = [local EXCEPT ![n] = [seen |-> ingest.flags.seen,
                                                 flagged |-> FALSE, dirty |-> FALSE,
                                                 hidden |-> FALSE]]
      BY <2>6 DEF IngestSave
    <3>2. ingest.flags \in Flags
      BY DEF TypeOK, IngestState
    <3>3. Upsert(local[m], ingest.flags) \in Row
      BY <1>1, <3>2, UpsertRow
    <3>4. [seen |-> ingest.flags.seen, flagged |-> FALSE, dirty |-> FALSE, hidden |-> FALSE] \in Row
      BY <3>2 DEF Row, Flags
    <3> QED BY <1>1, <3>1, <3>3, <3>4 DEF TypeOK
  <2>7. ASSUME NEW n \in Msg, Hide(n) PROVE local'[m] \in Row
    BY <1>1, <2>7, HideRow
  <2> QED BY <1>4, <2>1, <2>2, <2>4, <2>5, <2>6, <2>7
          DEF Next, UserEdit, RefreshUnreadCounts, WorkerStep, IngestStep, vars, InboundRead, InboundFetch, InboundEnd,
              OutboundRead, OutboundStore, Stop, IngestFetch, IngestMerge, RemoteChange, Expunge
<1> QED BY <1>2, <1>3, <1>4

(* As long as no FETCH of the inbound pass breaks off, deleteLocalEmailCopy *)
(* removes only rows of messages that are gone from the server.            *)
THEOREM OnlyExpungedRowsGo ==
    ASSUME UnbrokenAssumption
    PROVE  Spec => RowsOfServerMessagesStay
<1>1. Init => TypeOK /\ PurgesGone
  <2>1. Init => PurgesGone
    BY DEF Init, AtRest, PurgesGone
  <2> QED BY <2>1, TypeInit
<1>2. TypeOK /\ PurgesGone /\ [Next]_vars => (TypeOK /\ PurgesGone)'
  BY TypeNext, PurgesNext
<1> QED BY <1>1, <1>2, RowsNext, PTL DEF Spec, RowsOfServerMessagesStay

------------------------------------------------------------------------------
(* UnreadCountExact: the counter is adjusted by the transaction that reads *)
(* the old flags.  It holds where the code keeps it at all: saving a known *)
(* message again, deleting an expunged row and dying between the rows and  *)
(* the counter of a bulk edit leave it alone.                              *)

CountedAssumption == {"refetch", "torn", "expunge", "stream"} \cap Hazards = {}

CountInv ==
    /\ UnreadCountExact
    /\ worker.pc # "purge" /\ ingest.pc = "idle"
    /\ \A m \in Msg : OnServer(m)

(* The counter is right about what becomes of a row, or marked as skewed.  *)
CountsRight(r, q) ==
    ~skewed' =>
        /\ ~skewed
        /\ \/ (Counted(r) <=> Counted(q)) /\ unread' = unread
           \/ Counted(r) /\ ~Counted(q) /\ unread' = Decremented(unread)
           \/ ~Counted(r) /\ Counted(q) /\ unread' = unread + 1

LEMMA FollowCounts ==
    ASSUME TypeOK, NEW r \in Row, NEW q \in Row, q.hidden = r.hidden,
           NEW f, f.seen = q.seen, Follow(r, f)
    PROVE  CountsRight(r, q)
<1>1. r # NoRow /\ q # NoRow
  BY ConstantsAssumption DEF ConstantsAssumption
<1>2. r.seen \in BOOLEAN /\ q.seen \in BOOLEAN /\ r.hidden \in BOOLEAN /\ skewed \in BOOLEAN
  BY DEF Row, TypeOK
<1>3. /\ Counted(r) <=> ~r.seen /\ ~r.hidden
      /\ Counted(q) <=> ~q.seen /\ ~r.hidden
  BY <1>1 DEF Counted
<1>4. CASE r.seen = q.seen
  <2>1. unread' = unread /\ (skewed' <=> skewed)
    BY <1>2, <1>4 DEF Follow, Recount
  <2> QED BY <1>2, <1>3, <1>4, <2>1 DEF CountsRight
<1>5. CASE r.seen # q.seen
  <2>1. skewed' <=> (skewed \/ r.hidden)
    BY <1>2, <1>5 DEF Follow
  <2>2. unread' = IF q.seen THEN Decremented(unread) ELSE unread + 1
    BY <1>2, <1>5 DEF Follow, Recount
  <2> QED BY <1>2, <1>3, <1>5, <2>1, <2>2 DEF CountsRight
<1> QED BY <1>4, <1>5

LEMMA UnheededCounts ==
    ASSUME TypeOK, NEW m \in Msg, local[m] \in Row, NEW q \in Row, q.seen = local[m].seen,
           Unheeded(m, q.hidden)
    PROVE  CountsRight(local[m], q)
<1>1. local[m] # NoRow /\ q # NoRow
  BY ConstantsAssumption DEF ConstantsAssumption
<1>2. skewed \in BOOLEAN /\ local[m].seen \in BOOLEAN
      /\ local[m].hidden \in BOOLEAN /\ q.hidden \in BOOLEAN
  BY DEF Row, TypeOK
<1>3. /\ Counted(local[m]) <=> ~local[m].seen /\ ~local[m].hidden
      /\ Counted(q) <=> ~local[m].seen /\ ~q.hidden
  BY <1>1 DEF Counted
<1> QED BY <1>2, <1>3 DEF CountsRight, Unheeded

LEMMA SameCounts ==
    ASSUME TypeOK, NEW r \in Row, NEW q \in Row, q.seen = r.seen, q.hidden = r.hidden,
           UNCHANGED <<unread, skewed>>
    PROVE  CountsRight(r, q)
BY ConstantsAssumption DEF ConstantsAssumption, CountsRight, Counted, TypeOK

LEMMA CountedRow ==
    ASSUME TypeOK, UnreadCountExact, NEW m \in Msg, NEW r,
           local' = [local EXCEPT ![m] = r], CountsRight(local[m], r)
    PROVE  UnreadCountExact'
<1> SUFFICES ASSUME ~skewed' PROVE unread' = UnreadRows'
  BY DEF UnreadCountExact
<1> DEFINE U == {n \in Msg : Counted(local[n])}
<1>1. IsFiniteSet(U) /\ Cardinality(U) = unread /\ unread \in Nat
  <2>1. IsFiniteSet(U)
    BY ConstantsAssumption, FS_Subset DEF ConstantsAssumption
  <2>2. ~skewed
    BY DEF CountsRight
  <2> QED BY <2>1, <2>2, FS_CardinalityType DEF UnreadCountExact, UnreadRows
<1>2. /\ local'[m] = r
      /\ \A n \in Msg \ {m} : local'[n] = local[n]
  BY DEF TypeOK
<1>3. UnreadRows' = Cardinality(IF Counted(r) THEN U \cup {m} ELSE U \ {m})
  <2>1. {n \in Msg : Counted(local'[n])} = IF Counted(r) THEN U \cup {m} ELSE U \ {m}
    <3>1. \A n \in Msg \ {m} : Counted(local'[n]) <=> Counted(local[n])
      BY <1>2
    <3>2. Counted(local'[m]) <=> Counted(r)
      BY <1>2
    <3>3. CASE Counted(r)
      BY <3>1, <3>2, <3>3, Zenon
    <3>4. CASE ~Counted(r)
      BY <3>1, <3>2, <3>4, Zenon
    <3> QED BY <3>3, <3>4
  <2> QED BY <2>1 DEF UnreadRows
<1>4. CASE (Counted(local[m]) <=> Counted(r)) /\ unread' = unread
  <2>1. (IF Counted(r) THEN U \cup {m} ELSE U \ {m}) = U
    BY <1>4
  <2> QED BY <1>1, <1>3, <1>4, <2>1
<1>5. CASE Counted(local[m]) /\ ~Counted(r) /\ unread' = Decremented(unread)
  <2>1. m \in U
    BY <1>5
  <2>2. Cardinality(U \ {m}) = unread - 1
    BY <1>1, <2>1, FS_RemoveElement
  <2>3. unread > 0
    <3>1. Cardinality(U \ {m}) \in Nat
      BY <1>1, FS_RemoveElement, FS_CardinalityType
    <3> QED BY <1>1, <2>2, <3>1
  <2>4. unread' = unread - 1
    BY <1>5, <2>3 DEF Decremented
  <2> QED BY <1>3, <1>5, <2>2, <2>4
<1>6. CASE ~Counted(local[m]) /\ Counted(r) /\ unread' = unread + 1
  <2>1. m \notin U
    BY <1>6
  <2>2. Cardinality(U \cup {m}) = unread + 1
    BY <1>1, <2>1, FS_AddElement
  <2> QED BY <1>3, <1>6, <2>2
<1> QED BY <1>4, <1>5, <1>6 DEF CountsRight

LEMMA CountQuiet ==
    ASSUME CountInv, UNCHANGED <<unread, skewed, ingest, server>>, worker'.pc # "purge",
           \A m \in Msg : local'[m] = local[m]
    PROVE  CountInv'
<1>1. UnreadRows' = UnreadRows
  BY DEF UnreadRows
<1> QED BY <1>1 DEF CountInv, UnreadCountExact, OnServer

LEMMA CountInit == ASSUME CountedAssumption PROVE Init => CountInv
<1> SUFFICES ASSUME Init PROVE CountInv
  OBVIOUS
<1>1. \A m \in Msg : OnServer(m)
  BY ConstantsAssumption DEF ConstantsAssumption, Init, OnServer
<1>2. unread = UnreadRows /\ worker = AtRest("outbound") /\ ingest = IngestIdle
  BY DEF Init
<1>3. worker.pc # "purge" /\ ingest.pc = "idle"
  BY <1>2 DEF AtRest, IngestIdle
<1> QED BY <1>1, <1>2, <1>3 DEF CountInv, UnreadCountExact

LEMMA CountEdits ==
    ASSUME CountedAssumption, TypeOK, CountInv, NEW m \in Msg, UserEdit(m)
    PROVE  CountInv'
<1>1. UNCHANGED <<server, worker, ingest>> /\ HasRow(m) /\ local[m] \in Row
  BY DEF UserEdit, MarkEmailRead, BulkMarkEmails, ToggleFlagEmail, ToggleMuteEmail, Edit,
         HasRow, TypeOK
<1>2. PICK r \in Row : local' = [local EXCEPT ![m] = r] /\ local'[m] = r
  <2>1. \E r \in Row : local' = [local EXCEPT ![m] = r]
    BY UserEdits DEF Edit
  <2> QED BY <2>1 DEF TypeOK
<1>3. CountsRight(local[m], r)
  <2>1. CASE MarkEmailRead(m)
    <3>1. r = Dirty([local[m] EXCEPT !.seen = TRUE]) /\ Follow(local[m], r)
      BY <1>2, <2>1 DEF MarkEmailRead, Edit, TypeOK
    <3>2. r.hidden = local[m].hidden
      BY <1>1, <3>1 DEF Dirty, Row
    <3> QED BY <1>1, <3>1, <3>2, FollowCounts
  <2>2. ASSUME NEW read \in BOOLEAN, BulkMarkEmails(m, read) PROVE CountsRight(local[m], r)
    <3>1. r = Dirty([local[m] EXCEPT !.seen = read]) /\ Follow(local[m], r)
      BY <1>2, <2>2 DEF BulkMarkEmails, Edit, TypeOK, CountedAssumption
    <3>2. r.hidden = local[m].hidden
      BY <1>1, <3>1 DEF Dirty, Row
    <3> QED BY <1>1, <3>1, <3>2, FollowCounts
  <2>3. CASE ToggleFlagEmail(m)
    <3>1. r = Dirty([local[m] EXCEPT !.flagged = ~@]) /\ UNCHANGED <<unread, skewed>>
      BY <1>2, <2>3 DEF ToggleFlagEmail, Edit, TypeOK
    <3>2. r.seen = local[m].seen /\ r.hidden = local[m].hidden
      BY <1>1, <3>1 DEF Dirty, Row
    <3> QED BY <1>1, <3>1, <3>2, SameCounts
  <2>4. CASE ToggleMuteEmail(m)
    <3>1. PICK h \in BOOLEAN :
             Edit(m, Dirty([local[m] EXCEPT !.hidden = h]), {}) /\ Unheeded(m, h)
      BY <2>4 DEF ToggleMuteEmail
    <3>2. r = Dirty([local[m] EXCEPT !.hidden = h])
      BY <1>2, <3>1 DEF Edit, TypeOK
    <3>3. r.seen = local[m].seen /\ r.hidden = h
      BY <1>1, <3>2 DEF Dirty, Row
    <3> QED BY <1>1, <3>1, <3>3, UnheededCounts
  <2> QED BY <2>1, <2>2, <2>3, <2>4 DEF UserEdit
<1>4. UnreadCountExact'
  BY <1>2, <1>3, CountedRow DEF CountInv
<1> QED BY <1>1, <1>4 DEF CountInv, OnServer

LEMMA CountApply ==
    ASSUME TypeOK, UnreadCountExact, NEW m \in Msg, NEW f \in Flags,
           ApplyServerEmailFlags(m, f)
    PROVE  UnreadCountExact'
<1>1. CASE HasRow(m) /\ ~local[m].dirty
  <2>1. local[m] \in Row
    BY <1>1 DEF HasRow, TypeOK
  <2>2. /\ WithFlags(local[m], f) \in Row /\ WithFlags(local[m], f).seen = f.seen
        /\ WithFlags(local[m], f).hidden = local[m].hidden
    BY <2>1 DEF WithFlags, Row, Flags
  <2>3. Follow(local[m], f)
    BY <1>1 DEF ApplyServerEmailFlags
  <2>4. CountsRight(local[m], WithFlags(local[m], f))
    BY <2>1, <2>2, <2>3, FollowCounts
  <2> QED BY <1>1, <2>4, CountedRow DEF ApplyServerEmailFlags
<1>2. CASE ~(HasRow(m) /\ ~local[m].dirty)
  BY <1>2 DEF ApplyServerEmailFlags, UnreadCountExact, UnreadRows
<1> QED BY <1>1, <1>2

LEMMA CountNext ==
    ASSUME CountedAssumption
    PROVE  TypeOK /\ CountInv /\ [Next]_vars => CountInv'
<1> SUFFICES ASSUME TypeOK, CountInv, [Next]_vars PROVE CountInv'
  OBVIOUS
<1>1. ASSUME NEW m \in Msg, UserEdit(m) PROVE CountInv'
  BY <1>1, CountEdits
<1>2. CASE RefreshUnreadCounts
  <2>1. UnreadRows' = UnreadRows
    BY <1>2 DEF RefreshUnreadCounts, UnreadRows
  <2> QED BY <1>2, <2>1 DEF RefreshUnreadCounts, CountInv, UnreadCountExact, OnServer
<1>3. CASE InboundRead \/ OutboundRead
  <2>1. worker'.pc # "purge"
    BY <1>3 DEF InboundRead, OutboundRead, AtRest, Batch
  <2> QED BY <1>3, <2>1, CountQuiet DEF InboundRead, OutboundRead
<1>4. CASE InboundFetch
  <2>1. worker'.pc # "purge"
    BY <1>4 DEF InboundFetch, TypeOK, WorkerState
  <2> QED BY <1>4, <2>1, CountQuiet DEF InboundFetch
<1>5. CASE InboundApply
  <2>1. worker'.pc # "purge" /\ UNCHANGED <<server, ingest>>
    BY <1>5 DEF InboundApply, TypeOK, WorkerState
  <2>2. \/ UNCHANGED <<local, unread, skewed>>
        \/ \E m \in Msg, f \in Flags : ApplyServerEmailFlags(m, f)
    BY <1>5 DEF InboundApply, TypeOK, WorkerState
  <2>3. CASE UNCHANGED <<local, unread, skewed>>
    BY <2>1, <2>3, CountQuiet
  <2>4. CASE \E m \in Msg, f \in Flags : ApplyServerEmailFlags(m, f)
    BY <2>1, <2>4, CountApply DEF CountInv, OnServer
  <2> QED BY <2>2, <2>3, <2>4
<1>6. CASE InboundEnd
  <2>1. worker.todo = {}
    BY <1>6 DEF InboundEnd, Fault, CountedAssumption, CountInv, TypeOK, WorkerState
  <2>2. worker'.pc # "purge"
    BY <1>6, <2>1 DEF InboundEnd, AtRest
  <2> QED BY <1>6, <2>2, CountQuiet DEF InboundEnd
<1>7. CASE InboundPurge
  BY <1>7 DEF InboundPurge, CountInv
<1>8. CASE OutboundStore
  <2>1. worker'.pc # "purge"
    <3>1. worker.pc = "store" /\ \E ok \in BOOLEAN : worker' = AfterStore(ok)
      BY <1>8 DEF OutboundStore, TypeOK, WorkerState
    <3>2. ASSUME NEW ok \in BOOLEAN PROVE AfterStore(ok).pc # "purge"
      BY <3>1 DEF AfterStore, AtRest, TypeOK, WorkerState
    <3> QED BY <3>1, <3>2
  <2>2. UNCHANGED <<local, unread, skewed, ingest>>
    BY <1>8 DEF OutboundStore
  <2>3. \A m \in Msg : OnServer(m)'
    <3> SUFFICES ASSUME NEW m \in Msg PROVE OnServer(m)'
      OBVIOUS
    <3> DEFINE f == StoreFlag(worker.step)
    <3>1. server[m] \in Flags /\ f \in {"seen", "flagged"}
      BY DEF CountInv, OnServer, TypeOK, StoreFlag
    <3>2. server'[m] = server[m] \/ server'[m] = [server[m] EXCEPT ![f] = StoreValue(worker.step)]
      BY <1>8 DEF OutboundStore, TypeOK
    <3>3. StoreValue(worker.step) \in BOOLEAN
      BY DEF StoreValue
    <3>4. server'[m] \in Flags
      <4> HIDE DEF f
      <4> QED BY <3>1, <3>2, <3>3 DEF Flags
    <3> QED BY ConstantsAssumption, <3>4 DEF ConstantsAssumption, OnServer
  <2>4. UnreadCountExact'
    BY <2>2 DEF CountInv, UnreadCountExact, UnreadRows
  <2> QED BY <2>1, <2>2, <2>3, <2>4 DEF CountInv
<1>9. CASE OutboundClear
  <2>1. worker'.pc # "purge" /\ UNCHANGED <<server, unread, skewed, ingest>>
    BY <1>9 DEF OutboundClear, AtRest, TypeOK, WorkerState
  <2>2. PICK n \in worker.todo :
           \/ local' = IF HasRow(n) THEN [local EXCEPT ![n].dirty = FALSE] ELSE local
           \/ UNCHANGED local
    BY <1>9 DEF OutboundClear
  <2>3. n \in Msg
    BY DEF TypeOK, WorkerState
  <2>4. CASE UNCHANGED local
    BY <2>1, <2>4, CountQuiet
  <2>5. CASE HasRow(n) /\ local' = [local EXCEPT ![n].dirty = FALSE]
    <3> DEFINE r == [local[n] EXCEPT !.dirty = FALSE]
    <3>1. local[n] \in Row /\ local' = [local EXCEPT ![n] = r]
      BY <2>3, <2>5 DEF HasRow, TypeOK
    <3>2. r \in Row /\ r.seen = local[n].seen /\ r.hidden = local[n].hidden
      BY <3>1 DEF Row
    <3> HIDE DEF r
    <3>3. CountsRight(local[n], r)
      BY <2>1, <3>1, <3>2, SameCounts
    <3>4. UnreadCountExact'
      BY <2>3, <3>1, <3>3, CountedRow DEF CountInv
    <3> QED BY <2>1, <3>4 DEF CountInv, OnServer
  <2> QED BY <2>2, <2>4, <2>5
<1>10. CASE Stop
  <2>1. UnreadRows' = UnreadRows
    BY <1>10 DEF Stop, UnreadRows
  <2> QED BY <1>10, <2>1 DEF Stop, CountInv, UnreadCountExact, AtRest, IngestIdle, OnServer
<1>11. CASE IngestFetch \/ IngestStep
  BY <1>11 DEF IngestFetch, IngestStep, IngestMerge, IngestApply, IngestSave, CountInv, CountedAssumption
<1>12. ASSUME NEW m \in Msg, RemoteChange(m) \/ Expunge(m) PROVE CountInv'
  <2>1. PICK f \in Flags : server' = [server EXCEPT ![m] = f] /\ UNCHANGED <<local, unread, skewed, worker, ingest>>
    BY <1>12 DEF RemoteChange, Expunge, CountedAssumption
  <2>2. \A n \in Msg : OnServer(n)'
    BY ConstantsAssumption, <2>1 DEF ConstantsAssumption, CountInv, OnServer, TypeOK
  <2>3. UnreadRows' = UnreadRows
    BY <2>1 DEF UnreadRows
  <2> QED BY <2>1, <2>2, <2>3 DEF CountInv, UnreadCountExact
<1>13. CASE UNCHANGED vars
  BY <1>13, CountQuiet DEF vars, CountInv
<1>14. ASSUME NEW m \in Msg, Hide(m) PROVE CountInv'
  <2>1. local[m] \in Row /\ UNCHANGED <<server, worker, ingest>>
    BY <1>14, HideRow DEF Hide
  <2>2. PICK r : local' = [local EXCEPT ![m] = r] /\ r = [local[m] EXCEPT !.hidden = ~@]
    BY <1>14 DEF Hide
  <2>3. r \in Row /\ r.seen = local[m].seen /\ r.hidden = ~local[m].hidden
    BY <2>1, <2>2 DEF Row
  <2>4. Unheeded(m, r.hidden)
    BY <1>14, <2>3 DEF Hide
  <2>5. CountsRight(local[m], r)
    BY <2>1, <2>3, <2>4, UnheededCounts
  <2>6. UnreadCountExact'
    BY <2>2, <2>5, CountedRow DEF CountInv
  <2> QED BY <2>1, <2>6 DEF CountInv, OnServer
<1> QED BY <1>1, <1>2, <1>3, <1>4, <1>5, <1>6, <1>7, <1>8, <1>9, <1>10, <1>11, <1>12, <1>13,
           <1>14
        DEF Next, UserEdit, WorkerStep

(* Unless a hidden row has changed since the last refresh, the counter of  *)
(* a folder is the number of unread rows its list shows, through edits     *)
(* during a push, changes by other clients, failed statements and stops.   *)
THEOREM CounterIsExact ==
    ASSUME CountedAssumption
    PROVE  Spec => []UnreadCountExact
<1>1. Init => TypeOK /\ CountInv
  BY TypeInit, CountInit
<1>2. TypeOK /\ CountInv /\ [Next]_vars => (TypeOK /\ CountInv)'
  BY TypeNext, CountNext
<1>3. CountInv => UnreadCountExact
  BY DEF CountInv
<1> QED BY <1>1, <1>2, <1>3, PTL DEF Spec

------------------------------------------------------------------------------
(* GmailNeverDowngrades: what is about to be written covers the flags of a *)
(* clean row, because it was merged with them and the row cannot have      *)
(* changed since without becoming dirty.  A fetcher beside the worker      *)
(* would break this.                                                       *)

GmailAssumption == Gmail /\ "beside" \notin Hazards

AtLeast(f, g) == (g.seen => f.seen) /\ (g.flagged => f.flagged)

Clean(m) == HasRow(m) /\ ~local[m].dirty

KeepsInv ==
    /\ worker.pc \in {"fetch", "apply"} =>
          \A m \in worker.todo \cup worker.cur : Clean(m) => AtLeast(worker.snap[m], local[m])
    /\ ingest.pc = "merged" =>
          \A m \in ingest.cur : Clean(m) => AtLeast(ingest.flags, local[m])
    /\ \A m, n \in ingest.cur : m = n
    /\ ingest.pc # "idle" => worker.pc \in {"inbound", "outbound"}
    /\ worker.pc # "purge"
    /\ worker.pc # "apply" => worker.cur = {}

LEMMA AtLeastFlags ==
    /\ \A r \in Row : AtLeast(FlagsOf(r), r)
    /\ \A f \in Flags, g \in Flags \cup Row : AtLeast(Merge(f, g), g) /\ AtLeast(Merge(g, f), g)
    /\ \A f \in Flags, g \in Flags, r \in Row : AtLeast(f, g) /\ AtLeast(g, r) => AtLeast(f, r)
    /\ \A f \in Flags, r \in Row : AtLeast(f, WithFlags(r, f))
BY DEF AtLeast, FlagsOf, Row, Flags, Merge, WithFlags

LEMMA KeepsInit == Init => KeepsInv
BY DEF Init, KeepsInv, AtRest, IngestIdle

(* A pass or a fetch that is over has nothing left to write.               *)
LEMMA KeepsRest ==
    ASSUME KeepsInv, UNCHANGED <<local, ingest>>, worker'.pc \in WorkerPC,
           worker'.pc \notin {"fetch", "apply", "purge"}, worker'.cur = {},
           ingest.pc # "idle" => worker'.pc \in {"inbound", "outbound"}
    PROVE  KeepsInv'
BY DEF KeepsInv, Clean, HasRow

LEMMA KeepsWorker ==
    ASSUME GmailAssumption, TypeOK, KeepsInv, WorkerStep
    PROVE  KeepsInv'
<1>1. CASE InboundRead
  <2> DEFINE clean == {m \in Msg : HasRow(m) /\ ~local[m].dirty}
  <2>1. ingest.pc = "idle" /\ UNCHANGED <<local, ingest>>
    BY <1>1 DEF InboundRead, Turn, GmailAssumption
  <2>2. CASE worker' = AtRest("outbound")
    BY <2>1, <2>2, KeepsRest DEF AtRest, WorkerPC
  <2>3. CASE worker' = Batch("fetch", clean, 0)
    <3>1. /\ worker'.pc = "fetch" /\ worker'.todo = clean /\ worker'.cur = {}
          /\ \A m \in clean : worker'.snap[m] = FlagsOf(local[m])
      BY <2>3 DEF Batch
    <3>2. \A m \in clean : AtLeast(worker'.snap[m], local[m])
      <4>1. \A m \in clean : local[m] \in Row
        BY DEF HasRow, TypeOK
      <4> QED BY <3>1, <4>1, AtLeastFlags
    <3> QED BY <2>1, <3>1, <3>2 DEF KeepsInv, Clean, HasRow
  <2> QED BY <1>1, <2>2, <2>3 DEF InboundRead
<1>2. CASE InboundFetch
  <2>1. PICK m \in worker.todo :
           /\ OnServer(m)
           /\ worker' = IF InboundFlags(m) = worker.snap[m]
                        THEN [worker EXCEPT !.todo = @ \ {m}]
                        ELSE [worker EXCEPT !.pc = "apply", !.todo = @ \ {m}, !.cur = {m},
                                            !.snap[m] = InboundFlags(m)]
    BY <1>2 DEF InboundFetch
  <2>2. /\ worker.pc = "fetch" /\ worker.cur = {} /\ ingest.pc = "idle"
        /\ UNCHANGED <<local, ingest>>
    BY <1>2 DEF InboundFetch, KeepsInv
  <2>3. m \in Msg /\ worker.snap[m] \in Flags /\ server[m] \in Flags
    BY <2>1 DEF TypeOK, WorkerState, OnServer
  <2>4. InboundFlags(m) \in Flags /\ AtLeast(InboundFlags(m), worker.snap[m])
    BY <2>3, AtLeastFlags, MergeFlags DEF InboundFlags, GmailAssumption
  <2>5. CASE InboundFlags(m) = worker.snap[m]
    <3>1. /\ worker'.pc = "fetch" /\ worker'.cur = {} /\ worker'.todo = worker.todo \ {m}
          /\ worker'.snap = worker.snap
      BY <2>1, <2>2, <2>5 DEF TypeOK, WorkerState
    <3> QED BY <2>2, <3>1 DEF KeepsInv, Clean, HasRow
  <2>6. CASE InboundFlags(m) # worker.snap[m]
    <3>1. /\ worker'.pc = "apply" /\ worker'.cur = {m} /\ worker'.todo = worker.todo \ {m}
          /\ worker'.snap[m] = InboundFlags(m)
          /\ \A n \in Msg \ {m} : worker'.snap[n] = worker.snap[n]
      BY <2>1, <2>2, <2>3, <2>6 DEF TypeOK, WorkerState
    <3>2. ASSUME Clean(m) PROVE AtLeast(InboundFlags(m), local[m])
      <4>1. local[m] \in Row /\ AtLeast(worker.snap[m], local[m])
        BY <2>1, <2>2, <2>3, <3>2 DEF KeepsInv, Clean, HasRow, TypeOK
      <4> QED BY <2>3, <2>4, <4>1, AtLeastFlags
    <3>3. \A n \in worker.todo : n \in Msg
      BY DEF TypeOK, WorkerState
    <3>4. \A n \in worker.todo : Clean(n) => AtLeast(worker.snap[n], local[n])
      BY <2>2 DEF KeepsInv
    <3> QED BY <2>2, <3>1, <3>2, <3>3, <3>4 DEF KeepsInv, Clean, HasRow
  <2> QED BY <2>5, <2>6
<1>3. CASE InboundApply
  <2>1. /\ worker.pc = "apply" /\ ingest.pc = "idle" /\ UNCHANGED ingest
        /\ worker'.pc = "fetch" /\ worker'.cur = {} /\ worker'.todo = worker.todo
        /\ worker'.snap = worker.snap
    BY <1>3 DEF InboundApply, KeepsInv, TypeOK, WorkerState
  <2>2. \A n \in worker.todo : n \in Msg /\ (Clean(n) => AtLeast(worker.snap[n], local[n]))
    BY <2>1 DEF KeepsInv, TypeOK, WorkerState
  <2>3. CASE UNCHANGED local
    BY <2>1, <2>2, <2>3 DEF KeepsInv, Clean, HasRow
  <2>4. CASE \E m \in worker.cur : ApplyServerEmailFlags(m, worker.snap[m])
    <3>1. PICK m \in worker.cur : ApplyServerEmailFlags(m, worker.snap[m])
      BY <2>4
    <3>2. m \in Msg /\ worker.snap[m] \in Flags
      BY DEF TypeOK, WorkerState
    <3>3. CASE UNCHANGED local
      BY <2>3, <3>3
    <3>4. CASE Clean(m) /\ local' = [local EXCEPT ![m] = WithFlags(@, worker.snap[m])]
      <4>1. local[m] \in Row
        BY <3>2, <3>4 DEF Clean, HasRow, TypeOK
      <4>2. local'[m] = WithFlags(local[m], worker.snap[m])
            /\ \A n \in Msg \ {m} : local'[n] = local[n]
        BY <3>2, <3>4 DEF TypeOK
      <4>3. AtLeast(worker.snap[m], local'[m])
        BY <3>2, <4>1, <4>2, AtLeastFlags
      <4> QED BY <2>1, <2>2, <4>2, <4>3 DEF KeepsInv, Clean, HasRow
    <3> QED BY <3>1, <3>3, <3>4 DEF ApplyServerEmailFlags, Clean
  <2> QED BY <1>3, <2>3, <2>4 DEF InboundApply
<1>4. CASE InboundEnd
  <2>1. worker' = AtRest("outbound") /\ ingest.pc = "idle" /\ UNCHANGED <<local, ingest>>
    BY <1>4 DEF InboundEnd, GmailAssumption, KeepsInv
  <2> QED BY <2>1, KeepsRest DEF AtRest, WorkerPC
<1>5. CASE InboundPurge
  BY <1>5 DEF InboundPurge, KeepsInv
<1>6. CASE OutboundRead
  <2>1. ingest.pc = "idle" /\ UNCHANGED <<local, ingest>>
        /\ worker'.pc \in {"store", "inbound"} /\ worker'.cur = {}
    BY <1>6 DEF OutboundRead, Turn, GmailAssumption, AtRest, Batch
  <2> QED BY <2>1, KeepsRest DEF WorkerPC
<1>7. CASE OutboundStore
  <2>1. ingest.pc = "idle" /\ UNCHANGED <<local, ingest>> /\ worker.cur = {} /\ worker.pc = "store"
    BY <1>7 DEF OutboundStore, KeepsInv
  <2>2. worker'.pc \in {"store", "clear", "inbound"} /\ worker'.cur = {}
    <3>1. \E ok \in BOOLEAN : worker' = AfterStore(ok)
      BY <1>7 DEF OutboundStore, TypeOK, WorkerState
    <3>2. ASSUME NEW ok \in BOOLEAN
          PROVE  AfterStore(ok).pc \in {"store", "clear", "inbound"} /\ AfterStore(ok).cur = {}
      BY <2>1 DEF AfterStore, AtRest, TypeOK, WorkerState
    <3> QED BY <3>1, <3>2
  <2> QED BY <2>1, <2>2, KeepsRest DEF WorkerPC
<1>8. CASE OutboundClear
  <2>1. ingest.pc = "idle" /\ UNCHANGED ingest /\ worker.cur = {}
    BY <1>8 DEF OutboundClear, KeepsInv
  <2>2. worker'.pc \in {"clear", "inbound"} /\ worker'.cur = {}
    BY <1>8, <2>1 DEF OutboundClear, AtRest, TypeOK, WorkerState
  <2> QED BY <2>1, <2>2 DEF KeepsInv
<1> QED BY <1>1, <1>2, <1>3, <1>4, <1>5, <1>6, <1>7, <1>8 DEF WorkerStep

LEMMA KeepsNext ==
    ASSUME GmailAssumption
    PROVE  TypeOK /\ KeepsInv /\ [Next]_vars => KeepsInv'
<1> SUFFICES ASSUME TypeOK, KeepsInv, [Next]_vars PROVE KeepsInv'
  OBVIOUS
<1>1. ASSUME NEW m \in Msg, UserEdit(m) PROVE KeepsInv'
  <2>1. PICK r \in Row : /\ r.dirty /\ local' = [local EXCEPT ![m] = r]
                         /\ UNCHANGED <<worker, ingest>>
    BY <1>1, UserEdits DEF Edit
  <2>2. /\ local'[m] = r /\ r # NoRow
        /\ \A n \in Msg \ {m} : local'[n] = local[n]
    BY ConstantsAssumption, <2>1 DEF ConstantsAssumption, TypeOK
  <2>3. \A n \in Msg : Clean(n)' => Clean(n) /\ local'[n] = local[n]
    BY <2>1, <2>2 DEF Clean, HasRow
  <2>4. worker.todo \cup worker.cur \subseteq Msg /\ ingest.cur \subseteq Msg
    BY DEF TypeOK, WorkerState, IngestState
  <2> QED BY <2>1, <2>3, <2>4 DEF KeepsInv
<1>2. CASE WorkerStep
  BY <1>2, KeepsWorker
<1>3. CASE Stop
  BY <1>3 DEF Stop, KeepsInv, AtRest, IngestIdle
<1>4. CASE IngestFetch
  <2>1. /\ worker.pc \in {"inbound", "outbound"} /\ ingest'.pc = "fetched"
        /\ UNCHANGED <<local, worker>> /\ \E m \in Msg : ingest'.cur = {m}
    BY <1>4 DEF IngestFetch, GmailAssumption
  <2> QED BY <2>1 DEF KeepsInv, Clean, HasRow
<1>5. CASE IngestMerge
  <2>1. PICK m \in ingest.cur :
           /\ HasRow(m)
           /\ ingest' = LET merged == Merge(local[m], ingest.flags)
                        IN IF merged = FlagsOf(local[m]) THEN IngestIdle
                           ELSE [ingest EXCEPT !.pc = "merged", !.flags = merged]
    BY <1>5 DEF IngestMerge
  <2>2. UNCHANGED <<local, worker>> /\ ingest.pc = "fetched" /\ ingest.cur \subseteq Msg
        /\ worker.pc \in {"inbound", "outbound"}
    BY <1>5 DEF IngestMerge, KeepsInv, TypeOK, IngestState
  <2>3. ingest'.pc = "merged" => ingest'.cur = ingest.cur /\ ingest'.flags = Merge(local[m], ingest.flags)
    BY <2>1 DEF IngestIdle, TypeOK, IngestState
  <2>4. ASSUME NEW n \in ingest.cur, Clean(n), ingest'.pc = "merged"
        PROVE  AtLeast(ingest'.flags, local[n])
    <3>1. n = m /\ local[n] \in Row /\ ingest.flags \in Flags
      BY <2>1, <2>2, <2>4 DEF KeepsInv, Clean, HasRow, TypeOK, IngestState
    <3> QED BY <2>3, <2>4, <3>1, AtLeastFlags
  <2>5. ingest'.cur \subseteq ingest.cur
    BY <2>1 DEF IngestIdle, TypeOK, IngestState
  <2> QED BY <2>2, <2>3, <2>4, <2>5 DEF KeepsInv, Clean, HasRow
<1>6. CASE IngestApply \/ IngestSave
  <2>1. worker.pc \in {"inbound", "outbound"} /\ ingest' = IngestIdle /\ UNCHANGED worker
    BY <1>6 DEF IngestApply, IngestSave, KeepsInv
  <2> QED BY <2>1 DEF KeepsInv, IngestIdle
<1>7. CASE UNCHANGED <<local, worker, ingest>>
  BY <1>7 DEF KeepsInv, Clean, HasRow
<1>8. ASSUME NEW m \in Msg, Hide(m) PROVE KeepsInv'
  <2>1. UNCHANGED <<worker, ingest>>
    BY <1>8 DEF Hide
  <2>2. \A n \in Msg : /\ Clean(n)' <=> Clean(n)
                        /\ local'[n].seen = local[n].seen /\ local'[n].flagged = local[n].flagged
    BY <1>8, HideRow DEF Clean
  <2>3. worker.todo \cup worker.cur \subseteq Msg /\ ingest.cur \subseteq Msg
    BY DEF TypeOK, WorkerState, IngestState
  <2> QED BY <2>1, <2>2, <2>3 DEF KeepsInv, AtLeast
<1> QED BY <1>1, <1>2, <1>3, <1>4, <1>5, <1>6, <1>7, <1>8
        DEF Next, UserEdit, IngestStep, vars, RefreshUnreadCounts, RemoteChange, Expunge

LEMMA FlagsKept ==
    ASSUME GmailAssumption, TypeOK, KeepsInv, [Next]_vars, NEW m \in Msg,
           HasRow(m), HasRow(m)', spent'.edits = spent.edits
    PROVE  AtLeast(local'[m], local[m])
<1>1. local[m] \in Row
  BY DEF HasRow, TypeOK
<1>2. CASE local'[m] = local[m]
  BY <1>2 DEF AtLeast
<1>3. ASSUME NEW n \in Msg, UserEdit(n) PROVE FALSE
  <2>1. Spend("edits", MaxEdits)
    BY <1>3 DEF UserEdit, MarkEmailRead, BulkMarkEmails, ToggleFlagEmail, ToggleMuteEmail, Edit
  <2> QED BY <2>1 DEF Spend, TypeOK
<1>4. ASSUME NEW n \in Msg, NEW f \in Flags, ApplyServerEmailFlags(n, f),
             Clean(n) => AtLeast(f, local[n])
      PROVE  AtLeast(local'[m], local[m])
  <2>1. CASE n = m /\ Clean(m)
    <3>1. local'[m] = WithFlags(local[m], f) /\ WithFlags(local[m], f).seen = f.seen
          /\ WithFlags(local[m], f).flagged = f.flagged
      BY <1>1, <1>4, <2>1 DEF ApplyServerEmailFlags, Clean, TypeOK, WithFlags, Row, Flags
    <3> QED BY <1>4, <2>1, <3>1 DEF AtLeast
  <2>2. CASE ~(n = m /\ Clean(m))
    BY <1>2, <1>4, <2>2 DEF ApplyServerEmailFlags, Clean, TypeOK
  <2> QED BY <2>1, <2>2
<1>5. CASE InboundApply
  <2>1. \/ UNCHANGED local
        \/ \E n \in worker.cur : ApplyServerEmailFlags(n, worker.snap[n])
    BY <1>5 DEF InboundApply
  <2>2. \A n \in worker.cur : /\ n \in Msg /\ worker.snap[n] \in Flags
                              /\ Clean(n) => AtLeast(worker.snap[n], local[n])
    BY <1>5 DEF InboundApply, KeepsInv, TypeOK, WorkerState
  <2> QED BY <1>2, <1>4, <2>1, <2>2
<1>6. CASE IngestApply
  <2>1. \/ UNCHANGED local
        \/ \E n \in ingest.cur : ApplyServerEmailFlags(n, ingest.flags)
    BY <1>6 DEF IngestApply
  <2>2. \A n \in ingest.cur : /\ n \in Msg /\ ingest.flags \in Flags
                              /\ Clean(n) => AtLeast(ingest.flags, local[n])
    BY <1>6 DEF IngestApply, KeepsInv, TypeOK, IngestState
  <2> QED BY <1>2, <1>4, <2>1, <2>2
<1>7. CASE InboundPurge
  BY <1>7 DEF InboundPurge, KeepsInv
<1>8. CASE OutboundClear
  <2>1. PICK n \in worker.todo :
           \/ local' = IF HasRow(n) THEN [local EXCEPT ![n].dirty = FALSE] ELSE local
           \/ UNCHANGED local
    BY <1>8 DEF OutboundClear
  <2>2. local'[m] = local[m] \/ local'[m] = [local[m] EXCEPT !.dirty = FALSE]
    BY <2>1 DEF TypeOK
  <2>3. local'[m].seen = local[m].seen /\ local'[m].flagged = local[m].flagged
    BY <1>1, <2>2 DEF Row
  <2> QED BY <2>3 DEF AtLeast
<1>9. CASE IngestSave
  <2>1. \E n \in ingest.cur : ~HasRow(n) /\ \E r : local' = [local EXCEPT ![n] = r]
    BY <1>9 DEF IngestSave, GmailAssumption
  <2> QED BY <1>2, <2>1 DEF TypeOK
<1>10. CASE UNCHANGED local
  BY <1>2, <1>10
<1>11. ASSUME NEW n \in Msg, Hide(n) PROVE AtLeast(local'[m], local[m])
  BY <1>11, HideRow DEF AtLeast
<1> QED BY <1>3, <1>5, <1>6, <1>7, <1>8, <1>9, <1>10, <1>11
        DEF Next, UserEdit, WorkerStep, IngestStep, vars, RefreshUnreadCounts, InboundRead,
            InboundFetch, InboundEnd, OutboundRead, OutboundStore, Stop, IngestFetch,
            IngestMerge, RemoteChange, Expunge

(* On Gmail, where no fetcher runs beside the worker, only the user takes  *)
(* a flag away.                                                            *)
THEOREM OnlyUsersClearFlags ==
    ASSUME GmailAssumption
    PROVE  Spec => GmailNeverDowngrades
<1>1. Init => TypeOK /\ KeepsInv
  BY TypeInit, KeepsInit
<1>2. TypeOK /\ KeepsInv /\ [Next]_vars => (TypeOK /\ KeepsInv)'
  BY TypeNext, KeepsNext
<1>3. TypeOK /\ KeepsInv /\ [Next]_vars
        => [\A m \in Msg :
              HasRow(m) /\ HasRow(m)' /\ spent'.edits = spent.edits =>
                  /\ local[m].seen => local'[m].seen
                  /\ local[m].flagged => local'[m].flagged]_vars
  BY FlagsKept DEF AtLeast
<1> QED BY <1>1, <1>2, <1>3, PTL DEF Spec, GmailNeverDowngrades

=============================================================================
