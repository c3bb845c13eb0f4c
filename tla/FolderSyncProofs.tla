-------------------------- MODULE FolderSyncProofs --------------------------
(***************************************************************************)
(* Theorems about FolderSync, for any number of syncers, messages and UIDs.*)
(***************************************************************************)
EXTENDS FolderSync, FiniteSetTheorems, TLAPS

LEMMA IdleType == Idle \in SyncerState
BY ConstantsAssumption DEF Idle, SyncerState, SyncerPC, UID

LEMMA FaultType ==
    ASSUME TypeOK, NEW hazard, Fault(hazard) \/ UNCHANGED faults
    PROVE  faults' \in Nat
BY DEF Fault, TypeOK

LEMMA OnServerCount ==
    ASSUME TypeOK
    PROVE  /\ OnServer \in SUBSET UID
           /\ Cardinality(OnServer) \in 0 .. MaxUID
<1>1. OnServer \in SUBSET UID
  BY DEF OnServer
<1>2. IsFiniteSet(UID) /\ Cardinality(UID) = MaxUID
  BY FS_Interval, ConstantsAssumption DEF UID
<1>3. IsFiniteSet(OnServer) /\ Cardinality(OnServer) <= MaxUID
  BY <1>1, <1>2, FS_Subset
<1> QED BY <1>1, <1>3, FS_CardinalityType, ConstantsAssumption

LEMMA ValidityRange ==
    ASSUME TypeOK
    PROVE  server.validity \in 0 .. MaxValidity
<1>1. server.validity \in 1 .. MaxValidity /\ MaxValidity \in Nat
  BY ConstantsAssumption DEF TypeOK, Server
<1> QED BY <1>1

LEMMA LastUIDType ==
    ASSUME TypeOK
    PROVE  LastUID \in 0 .. MaxUID
BY ConstantsAssumption DEF TypeOK, Server, LastUID

LEMMA BecomesType ==
    ASSUME TypeOK, NEW s \in Syncer, NEW r \in SyncerState, Becomes(s, r)
    PROVE  syncer' \in [Syncer -> SyncerState]
BY DEF TypeOK, Becomes

LEMMA GotoType ==
    ASSUME TypeOK, NEW s \in Syncer, NEW pc \in SyncerPC, Goto(s, pc)
    PROVE  syncer' \in [Syncer -> SyncerState]
<1>1. [syncer[s] EXCEPT !.pc = pc] \in SyncerState
  BY DEF TypeOK, SyncerState
<1> QED BY <1>1, BecomesType DEF Goto

LEMMA AfterReconcileType ==
    ASSUME TypeOK, NEW s \in Syncer
    PROVE  AfterReconcile(s) \in SyncerState
<1>1. syncer[s] \in SyncerState /\ {} \in SUBSET (UID \X Msg) /\ "find" \in SyncerPC
  BY DEF TypeOK, SyncerPC
<1>2. [syncer[s] EXCEPT !.pc = "find", !.listed = {}] \in SyncerState
  BY <1>1 DEF SyncerState
<1> QED BY <1>2, IdleType DEF AfterReconcile

LEMMA DeleteRowsType ==
    ASSUME TypeOK, NEW M, DeleteRows(M)
    PROVE  /\ rows' \in [Msg -> 0 .. MaxUID]
           /\ syncer' \in [Syncer -> SyncerState]
<1>1. rows' \in [Msg -> 0 .. MaxUID]
  BY ConstantsAssumption DEF DeleteRows, TypeOK
<1>2. ASSUME NEW s \in Syncer
      PROVE  [syncer[s] EXCEPT !.listed = {e \in @ : e[2] \notin M}] \in SyncerState
  <2>1. {e \in syncer[s].listed : e[2] \notin M} \in SUBSET (UID \X Msg)
    BY DEF TypeOK, SyncerState
  <2> QED BY <2>1 DEF TypeOK, SyncerState
<1> QED BY <1>1, <1>2 DEF DeleteRows

LEMMA WayType == \A last, end : Way(last, end) \in SyncerPC
BY DEF Way, SyncerPC

LEMMA SetCursorType ==
    ASSUME TypeOK, NEW n \in 0 .. MaxUID, SetCursor(n)
    PROVE  folder' \in Folder /\ faults' \in Nat
BY FaultType DEF SetCursor, TypeOK, Folder

------------------------------------------------------------------------------
(* The steps of a pass.                                                    *)

LEMMA ListType ==
    ASSUME TypeOK, NEW s \in Syncer, List(s)
    PROVE  TypeOK'
<1>1. [Idle EXCEPT !.pc = "select", !.id = folder.known, !.last = folder.last,
                   !.stored = folder.validity] \in SyncerState
  BY IdleType DEF TypeOK, Folder, SyncerState, SyncerPC
<1>2. [Idle EXCEPT !.pc = "select"] \in SyncerState
  BY IdleType DEF SyncerState, SyncerPC
<1>3. syncer' \in [Syncer -> SyncerState]
  BY <1>1, <1>2, BecomesType DEF List
<1> QED BY <1>3, FaultType DEF List, TypeOK, history

LEMMA SelectType ==
    ASSUME TypeOK, NEW s \in Syncer, Select(s)
    PROVE  TypeOK'
<1>1. folder' \in Folder
  BY DEF Select, TypeOK, Folder
<1>2. ASSUME NEW pc \in SyncerPC, NEW b \in BOOLEAN
      PROVE  [syncer[s] EXCEPT !.pc = pc, !.id = b, !.session = server.validity,
                 !.end = LastUID, !.count = Cardinality(OnServer)] \in SyncerState
  <2>1. syncer[s] \in SyncerState
    BY DEF TypeOK
  <2>2. /\ server.validity \in 0 .. MaxValidity
        /\ LastUID \in 0 .. MaxUID /\ Cardinality(OnServer) \in 0 .. MaxUID
    BY ValidityRange, LastUIDType, OnServerCount
  <2> QED BY <2>1, <2>2 DEF SyncerState
<1>3. syncer' \in [Syncer -> SyncerState]
  <2> DEFINE n == Cardinality(OnServer)
             b == syncer[s].id \/ (n = 0 /\ folder.known)
             pc == IF n = 0 THEN "reconcile" ELSE "validity"
  <2>1. b \in BOOLEAN
    OBVIOUS
  <2>2. pc \in SyncerPC
    BY DEF SyncerPC
  <2>3. Becomes(s, [syncer[s] EXCEPT !.pc = pc, !.id = b, !.session = server.validity,
                                     !.end = LastUID, !.count = n])
    BY Zenon DEF Select
  <2> HIDE DEF b, pc
  <2> QED BY <1>2, <2>1, <2>2, <2>3, BecomesType
<1> QED BY <1>1, <1>3 DEF Select, TypeOK, history

LEMMA ValidityType ==
    ASSUME TypeOK, NEW s \in Syncer, Validity(s)
    PROVE  TypeOK'
<1>1. CASE Fault("lookup") /\ Goto(s, Way(syncer[s].last, syncer[s].end))
  <2>1. syncer' \in [Syncer -> SyncerState]
    BY <1>1, WayType, GotoType
  <2> QED BY <1>1, <2>1, FaultType DEF Validity, TypeOK, history
<1>2. CASE ~(Fault("lookup") /\ Goto(s, Way(syncer[s].last, syncer[s].end)))
  <2> DEFINE last == IF syncer[s].id THEN syncer[s].last ELSE folder.last
             stored == IF syncer[s].id THEN syncer[s].stored ELSE folder.validity
             reset == [syncer[s] EXCEPT !.pc = "clear", !.id = TRUE, !.last = 0]
             same == [syncer[s] EXCEPT !.pc = "stamp", !.id = TRUE, !.last = last]
  <2>1. last \in 0 .. MaxUID /\ 0 \in 0 .. MaxUID
    BY ConstantsAssumption DEF TypeOK, Folder, SyncerState
  <2>2. reset \in SyncerState /\ same \in SyncerState
    <3>1. syncer[s] \in SyncerState /\ TRUE \in BOOLEAN
      BY DEF TypeOK
    <3>2. "clear" \in SyncerPC /\ "stamp" \in SyncerPC
      BY DEF SyncerPC
    <3> HIDE DEF last
    <3>3. reset \in SyncerState
      BY <2>1, <3>1, <3>2 DEF SyncerState
    <3>4. same \in SyncerState
      BY <2>1, <3>1, <3>2 DEF SyncerState
    <3> QED BY <3>3, <3>4
  <2>3. /\ Becomes(s, IF Mismatch(stored, syncer[s].session) THEN reset ELSE same)
        /\ UNCHANGED faults
    BY <1>2, Zenon DEF Validity
  <2> HIDE DEF reset, same
  <2>4. syncer' \in [Syncer -> SyncerState]
    BY <2>2, <2>3, BecomesType
  <2> QED BY <2>3, <2>4 DEF Validity, TypeOK, history
<1> QED BY <1>1, <1>2

LEMMA ResetType ==
    ASSUME TypeOK, NEW s \in Syncer,
           ClearQueue(s) \/ PurgeRows(s) \/ ZeroCursor(s) \/ Stamp(s)
    PROVE  TypeOK'
<1>1. (Torn \/ Whole) => torn' \in BOOLEAN /\ faults' \in Nat
  BY FaultType DEF Torn, Whole, TypeOK
<1>2. CASE ClearQueue(s)
  <2>1. queue' \in [UID -> {"absent", "pending", "done"}]
    BY <1>2 DEF ClearQueue, Emptied, TypeOK
  <2>2. syncer' \in [Syncer -> SyncerState]
    BY <1>2, GotoType DEF ClearQueue, SyncerPC
  <2> QED BY <1>1, <1>2, <2>1, <2>2 DEF ClearQueue, TypeOK
<1>3. CASE PurgeRows(s)
  <2>1. rows' \in [Msg -> 0 .. MaxUID]
    BY <1>3, ConstantsAssumption DEF PurgeRows, TypeOK
  <2>2. CASE Goto(s, "zero")
    <3>1. syncer' \in [Syncer -> SyncerState]
      BY <2>2, GotoType DEF SyncerPC
    <3> QED BY <1>1, <1>3, <2>1, <3>1 DEF PurgeRows, TypeOK
  <2>3. CASE /\ Whole
             /\ syncer' = [x \in Syncer |->
                   IF x = s THEN [syncer[s] EXCEPT !.pc = "zero"]
                   ELSE [syncer[x] EXCEPT !.listed =
                            {e \in @ : e[2] \notin {m \in Msg : rows[m] # 0}}]]
    <3>1. ASSUME NEW x \in Syncer
          PROVE  /\ [syncer[x] EXCEPT !.pc = "zero"] \in SyncerState
                 /\ [syncer[x] EXCEPT !.listed =
                       {e \in @ : e[2] \notin {m \in Msg : rows[m] # 0}}] \in SyncerState
      <4>1. {e \in syncer[x].listed : e[2] \notin {m \in Msg : rows[m] # 0}}
               \in SUBSET (UID \X Msg)
        BY DEF TypeOK, SyncerState
      <4> QED BY <4>1 DEF TypeOK, SyncerState, SyncerPC
    <3>2. syncer' \in [Syncer -> SyncerState]
      BY <2>3, <3>1
    <3> QED BY <1>1, <1>3, <2>1, <2>3, <3>2 DEF PurgeRows, TypeOK
  <2> QED BY <1>3, <2>2, <2>3 DEF PurgeRows
<1>4. CASE ZeroCursor(s)
  <2>1. folder' \in Folder
    BY <1>4, ConstantsAssumption DEF ZeroCursor, TypeOK, Folder
  <2>2. syncer' \in [Syncer -> SyncerState]
    BY <1>4, GotoType DEF ZeroCursor, SyncerPC
  <2> QED BY <1>1, <1>4, <2>1, <2>2 DEF ZeroCursor, TypeOK
<1>5. CASE Stamp(s)
  <2>1. folder' \in Folder
    BY <1>5 DEF Stamp, TypeOK, Folder, SyncerState
  <2>2. syncer' \in [Syncer -> SyncerState]
    BY <1>5, GotoType, WayType DEF Stamp
  <2> QED BY <1>1, <1>5, <2>1, <2>2 DEF Stamp, TypeOK
<1> QED BY <1>2, <1>3, <1>4, <1>5

LEMMA FullType ==
    ASSUME TypeOK, NEW s \in Syncer, FullFetch(s) \/ FullSave(s) \/ FullEnd(s)
    PROVE  TypeOK'
<1>s. syncer[s] \in SyncerState
  BY DEF TypeOK
<1>1. CASE FullFetch(s)
  <2>1. PICK u \in Ahead(s) :
           Becomes(s, [syncer[s] EXCEPT !.pc = "save", !.pos = u,
                                        !.held = {<<u, server.box[u]>>}])
    BY <1>1 DEF FullFetch
  <2>2. u \in UID /\ u \in 0 .. MaxUID /\ server.box[u] \in Msg
    BY ConstantsAssumption DEF Ahead, OnServer, TypeOK, Server, UID
  <2>3. {<<u, server.box[u]>>} \in SUBSET (UID \X Msg) /\ "save" \in SyncerPC
    BY <2>2 DEF SyncerPC
  <2>4. [syncer[s] EXCEPT !.pc = "save", !.pos = u,
                          !.held = {<<u, server.box[u]>>}] \in SyncerState
    BY <1>s, <2>2, <2>3 DEF SyncerState
  <2> QED BY <1>1, <2>1, <2>4, BecomesType DEF FullFetch, TypeOK, history
<1>2. CASE FullSave(s)
  <2> DEFINE r(pc, top, batch) == [syncer[s] EXCEPT !.pc = pc, !.top = top,
                                                    !.batch = batch, !.held = {}]
  <2>1. PICK e \in syncer[s].held, ok \in BOOLEAN, reported \in BOOLEAN :
           /\ IF ok THEN rows' = [rows EXCEPT ![e[2]] = e[1]] /\ UNCHANGED <<missed, faults>>
              ELSE Fault("ingest") /\ missed' = missed \cup {e[2]} /\ UNCHANGED rows
           /\ \E due \in BOOLEAN :
                 Becomes(s, r(IF due THEN "checkpoint" ELSE "full",
                              IF reported THEN e[1] ELSE syncer[s].top, syncer[s].batch + 1))
    BY <1>2, Zenon DEF FullSave
  <2>2. e[1] \in UID /\ e[2] \in Msg /\ e[1] \in 0 .. MaxUID
    BY <1>s, ConstantsAssumption DEF SyncerState, UID
  <2>3. rows' \in [Msg -> 0 .. MaxUID] /\ missed' \subseteq Msg /\ faults' \in Nat
    BY <2>1, <2>2, FaultType DEF TypeOK
  <2>4. ASSUME NEW pc \in SyncerPC, NEW top \in 0 .. MaxUID, NEW batch \in Nat
        PROVE  r(pc, top, batch) \in SyncerState
    BY <1>s DEF SyncerState
  <2>5. /\ (IF reported THEN e[1] ELSE syncer[s].top) \in 0 .. MaxUID
        /\ syncer[s].batch + 1 \in Nat
        /\ "checkpoint" \in SyncerPC /\ "full" \in SyncerPC
    BY <1>s, <2>2 DEF SyncerState, SyncerPC
  <2> HIDE DEF r
  <2>6. syncer' \in [Syncer -> SyncerState]
    BY <2>1, <2>4, <2>5, BecomesType
  <2> QED BY <1>2, <2>3, <2>6 DEF FullSave, TypeOK
<1>3. CASE FullEnd(s)
  <2>1. syncer' \in [Syncer -> SyncerState]
    BY <1>3, GotoType DEF FullEnd, SyncerPC
  <2> QED BY <1>3, <2>1, FaultType DEF FullEnd, TypeOK, history
<1> QED BY <1>1, <1>2, <1>3

LEMMA CursorType ==
    ASSUME TypeOK, NEW s \in Syncer, TakeCheckpoint(s) \/ Advance(s)
    PROVE  TypeOK'
<1>s. syncer[s] \in SyncerState /\ syncer[s].top \in 0 .. MaxUID
  BY DEF TypeOK, SyncerState
<1>1. CASE TakeCheckpoint(s)
  <2>1. [syncer[s] EXCEPT !.pc = "full", !.batch = 0] \in SyncerState
    BY <1>s DEF SyncerState, SyncerPC
  <2>2. syncer' \in [Syncer -> SyncerState]
    BY <1>1, <2>1, BecomesType DEF TakeCheckpoint
  <2> QED BY <1>s, <1>1, <2>2, SetCursorType DEF TakeCheckpoint, TypeOK, history
<1>2. CASE Advance(s)
  <2>1. syncer' \in [Syncer -> SyncerState]
    BY <1>2, IdleType, BecomesType, GotoType DEF Advance, SyncerPC
  <2>2. folder' \in Folder /\ faults' \in Nat
    BY <1>s, <1>2, SetCursorType DEF Advance, TypeOK
  <2> QED BY <1>2, <2>1, <2>2 DEF Advance, TypeOK, history
<1> QED BY <1>1, <1>2

LEMMA FetchType ==
    ASSUME TypeOK, NEW s \in Syncer, FetchUIDs(s) \/ Enqueue(s)
    PROVE  TypeOK'
<1>s. syncer[s] \in SyncerState
  BY DEF TypeOK
<1>1. CASE FetchUIDs(s)
  <2>1. NewUIDs(s) \in SUBSET UID
    BY DEF NewUIDs, OnServer
  <2>2. /\ [syncer[s] EXCEPT !.pc = "advance", !.top = syncer[s].end] \in SyncerState
        /\ [syncer[s] EXCEPT !.pc = "enqueue", !.found = NewUIDs(s)] \in SyncerState
    BY <1>s, <2>1 DEF SyncerState, SyncerPC
  <2>3. syncer' \in [Syncer -> SyncerState]
    BY <1>1, <2>2, BecomesType DEF FetchUIDs
  <2> QED BY <1>1, <2>3 DEF FetchUIDs, TypeOK, history
<1>2. CASE Enqueue(s)
  <2>1. queue' \in [UID -> {"absent", "pending", "done"}]
    BY <1>2 DEF Enqueue, Enqueued, TypeOK
  <2>2. ASSUME NEW top \in syncer[s].found, Found(s, top)
        PROVE  syncer' \in [Syncer -> SyncerState]
    <3>1. top \in 0 .. MaxUID
      BY <1>s, ConstantsAssumption DEF SyncerState, UID
    <3>2. [syncer[s] EXCEPT !.pc = "advance", !.found = {}, !.top = top] \in SyncerState
      BY <1>s, <3>1 DEF SyncerState, SyncerPC
    <3> QED BY <2>2, <3>2, BecomesType DEF Found
  <2>3. syncer' \in [Syncer -> SyncerState]
    BY <1>2, <2>2, IdleType, BecomesType DEF Enqueue
  <2> QED BY <1>2, <2>1, <2>3, FaultType DEF Enqueue, TypeOK, history
<1> QED BY <1>1, <1>2

LEMMA ReconcileType ==
    ASSUME TypeOK, NEW s \in Syncer, Reconcile(s) \/ Search(s) \/ Delete(s)
    PROVE  TypeOK'
<1>s. syncer[s] \in SyncerState
  BY DEF TypeOK
<1>1. CASE Reconcile(s)
  <2> DEFINE U == {rows[m] : m \in Msg} \ {0}
  <2>1. U \in SUBSET UID
    BY ConstantsAssumption DEF TypeOK, UID
  <2>2. PICK f \in [U -> Msg] :
           \/ Becomes(s, AfterReconcile(s))
           \/ Becomes(s, [syncer[s] EXCEPT !.pc = "search",
                                           !.listed = {<<u, f[u]>> : u \in U}])
    BY <1>1, Zenon DEF Reconcile
  <2>3. {<<u, f[u]>> : u \in U} \in SUBSET (UID \X Msg)
    BY <2>1
  <2> HIDE DEF U
  <2>4. [syncer[s] EXCEPT !.pc = "search",
                          !.listed = {<<u, f[u]>> : u \in U}] \in SyncerState
    BY <1>s, <2>3 DEF SyncerState, SyncerPC
  <2>5. syncer' \in [Syncer -> SyncerState]
    BY <2>2, <2>4, AfterReconcileType, BecomesType
  <2> QED BY <1>1, <2>5 DEF Reconcile, TypeOK, history
<1>2. CASE Search(s)
  <2>1. {e \in syncer[s].listed : e[1] \notin OnServer} \in SUBSET (UID \X Msg)
    BY <1>s DEF SyncerState
  <2>2. [syncer[s] EXCEPT !.pc = "delete", !.listed = {e \in @ : e[1] \notin OnServer}]
           \in SyncerState
    BY <1>s, <2>1 DEF SyncerState, SyncerPC
  <2>3. syncer' \in [Syncer -> SyncerState]
    BY <1>2, <2>2, AfterReconcileType, BecomesType DEF Search
  <2> QED BY <1>2, <2>3, FaultType DEF Search, TypeOK, history
<1>3. CASE Delete(s)
  <2>1. ASSUME NEW e \in syncer[s].listed, DeleteRows({e[2]}), UNCHANGED faults
        PROVE  TypeOK'
    BY <1>3, <2>1, DeleteRowsType DEF Delete, TypeOK, history
  <2>2. ASSUME NEW e \in syncer[s].listed, Fault("write"), UNCHANGED rows,
               Becomes(s, [syncer[s] EXCEPT !.listed = @ \ {e}])
        PROVE  TypeOK'
    <3>1. [syncer[s] EXCEPT !.listed = @ \ {e}] \in SyncerState
      BY <1>s DEF SyncerState
    <3>2. syncer' \in [Syncer -> SyncerState]
      BY <2>2, <3>1, BecomesType
    <3> QED BY <1>3, <2>2, <3>2, FaultType DEF Delete, TypeOK, history
  <2>3. CASE Becomes(s, AfterReconcile(s)) /\ UNCHANGED <<rows, faults>>
    <3>1. syncer' \in [Syncer -> SyncerState]
      BY <2>3, AfterReconcileType, BecomesType
    <3> QED BY <1>3, <2>3, <3>1 DEF Delete, TypeOK, history
  <2> QED BY <1>3, <2>1, <2>2, <2>3 DEF Delete
<1> QED BY <1>1, <1>2, <1>3

LEMMA CheckType ==
    ASSUME TypeOK, NEW c \in Syncer, Check(c) \/ FindNew(c) \/ Abort(c)
    PROVE  TypeOK'
<1>1. CASE Check(c)
  <2>1. server.validity \in 0 .. MaxValidity /\ folder \in Folder
    BY ValidityRange DEF TypeOK
  <2>2. [Idle EXCEPT !.pc = "reconcile", !.id = folder.known, !.last = folder.last,
                     !.session = server.validity] \in SyncerState
    BY IdleType, <2>1 DEF Folder, SyncerState, SyncerPC
  <2>3. [Idle EXCEPT !.pc = "find", !.session = server.validity] \in SyncerState
    BY IdleType, <2>1 DEF SyncerState, SyncerPC
  <2>4. syncer' \in [Syncer -> SyncerState]
    BY <1>1, <2>2, <2>3, BecomesType DEF Check
  <2> QED BY <1>1, <2>4, FaultType DEF Check, TypeOK, history
<1>2. CASE FindNew(c)
  <2> DEFINE new == {u \in OnServer : syncer[c].last < u}
  <2>1. new \in SUBSET UID /\ syncer[c] \in SyncerState
    BY DEF OnServer, TypeOK
  <2>2. Becomes(c, IF new = {} THEN Idle
                   ELSE [syncer[c] EXCEPT !.pc = "enqueue", !.found = new])
    BY <1>2, Zenon DEF FindNew
  <2> HIDE DEF new
  <2>3. [syncer[c] EXCEPT !.pc = "enqueue", !.found = new] \in SyncerState
    BY <2>1 DEF SyncerState, SyncerPC
  <2>4. syncer' \in [Syncer -> SyncerState]
    BY <2>2, <2>3, IdleType, BecomesType
  <2> QED BY <1>2, <2>4 DEF FindNew, TypeOK, history
<1>3. CASE Abort(c)
  <2>1. syncer' \in [Syncer -> SyncerState]
    BY <1>3, IdleType, BecomesType DEF Abort
  <2> QED BY <1>3, <2>1, FaultType DEF Abort, TypeOK, history
<1> QED BY <1>1, <1>2, <1>3

------------------------------------------------------------------------------
(* The consumer, ResyncAccount and the server.                             *)

LEMMA ConsumerType ==
    ASSUME TypeOK, NEW w \in Worker, ConsumerStep(w)
    PROVE  TypeOK'
<1>1. ASSUME NEW u \in UID, Take(w, u)
      PROVE  TypeOK'
  <2>1. server.box[u] \in Msg \cup {NoMsg}
    BY DEF TypeOK, Server
  <2>2. hand' \in [Worker -> SUBSET [uid : UID, msg : Msg \cup {NoMsg}]]
    BY <1>1, <2>1 DEF Take, TypeOK
  <2> QED BY <1>1, <2>2 DEF Take, TypeOK, history
<1>2. CASE Settle(w)
  <2>1. PICK t \in hand[w] :
           /\ IF t.msg # NoMsg
              THEN /\ rows' = [rows EXCEPT ![t.msg] = t.uid]
                   /\ folder' = [folder EXCEPT !.known = TRUE]
                   /\ UNCHANGED syncer
              ELSE /\ IF \E m \in Msg : rows[m] = t.uid
                      THEN \E m \in Msg : rows[m] = t.uid /\ DeleteRows({m})
                      ELSE UNCHANGED <<rows, syncer>>
                   /\ UNCHANGED folder
           /\ queue' = [queue EXCEPT ![t.uid] = IF @ = "pending" THEN "done" ELSE @]
    BY <1>2 DEF Settle
  <2>2. t.uid \in UID /\ t.uid \in 0 .. MaxUID /\ t.msg \in Msg \cup {NoMsg}
    BY ConstantsAssumption DEF TypeOK, UID
  <2>3. rows' \in [Msg -> 0 .. MaxUID] /\ syncer' \in [Syncer -> SyncerState]
    BY <2>1, <2>2, DeleteRowsType DEF TypeOK
  <2>4. folder' \in Folder
    BY <2>1 DEF TypeOK, Folder
  <2>5. queue' \in [UID -> {"absent", "pending", "done"}]
    BY <2>1, <2>2 DEF TypeOK
  <2>6. hand' \in [Worker -> SUBSET [uid : UID, msg : Msg \cup {NoMsg}]]
    BY <1>2 DEF Settle, TypeOK
  <2> QED BY <1>2, <2>3, <2>4, <2>5, <2>6 DEF Settle, TypeOK, history
<1> QED BY <1>1, <1>2 DEF ConsumerStep

LEMMA ResyncType ==
    ASSUME TypeOK, ResyncAccount \/ ResetStep
    PROVE  TypeOK'
<1>1. CASE ResyncAccount
  <2>1. syncer' \in [Syncer -> SyncerState]
    BY <1>1, IdleType DEF ResyncAccount, TypeOK
  <2>2. hand' \in [Worker -> SUBSET [uid : UID, msg : Msg \cup {NoMsg}]]
    BY <1>1 DEF ResyncAccount
  <2> QED BY <1>1, <2>1, <2>2, FaultType DEF ResyncAccount, TypeOK, history
<1>2. CASE ResetRows
  BY <1>2, DeleteRowsType DEF ResetRows, TypeOK, history
<1>3. CASE ResetQueue
  BY <1>3 DEF ResetQueue, Emptied, TypeOK, history
<1>4. CASE ResetFolder
  <2>1. folder' \in Folder
    <3>1. 0 \in 0 .. MaxUID /\ 0 \in 0 .. MaxValidity
      BY ConstantsAssumption
    <3>2. folder \in Folder /\ folder' = [folder EXCEPT !.last = 0, !.validity = 0]
      BY <1>4 DEF ResetFolder, TypeOK
    <3> QED BY <3>1, <3>2 DEF Folder
  <2> QED BY <1>4, <2>1 DEF ResetFolder, TypeOK, history
<1>5. CASE CutReset
  BY <1>5, FaultType DEF CutReset, TypeOK
<1> QED BY <1>1, <1>2, <1>3, <1>4, <1>5 DEF ResetStep

LEMMA ServerType ==
    ASSUME TypeOK,
           \/ \E m \in Msg : Deliver(m)
           \/ \E u \in UID : Expunge(u)
           \/ Renumber
    PROVE  TypeOK'
<1>b. /\ server.box \in [UID -> Msg \cup {NoMsg}]
      /\ server.next \in 1 .. MaxUID + 1
      /\ server.validity \in 1 .. MaxValidity
      /\ MaxUID \in Nat /\ MaxValidity \in Nat
  BY ConstantsAssumption DEF TypeOK, Server
<1>1. ASSUME NEW m \in Msg, Deliver(m)
      PROVE  TypeOK'
  <2>1. server.next + 1 \in 1 .. MaxUID + 1
    <3>1. server.next <= MaxUID
      BY <1>1 DEF Deliver
    <3> QED BY <1>b, <3>1
  <2>2. server' \in Server
    BY <1>1, <1>b, <2>1 DEF Deliver, Server, TypeOK
  <2> QED BY <1>1, <2>2 DEF Deliver, TypeOK
<1>2. ASSUME NEW u \in UID, Expunge(u)
      PROVE  TypeOK'
  <2>1. server' \in Server
    BY <1>2 DEF Expunge, Server, TypeOK
  <2> QED BY <1>2, <2>1 DEF Expunge, TypeOK, history
<1>3. CASE Renumber
  <2> DEFINE n == Cardinality(OnServer)
  <2>1. n \in 0 .. MaxUID
    BY OnServerCount
  <2>2. PICK f \in [1 .. n -> {server.box[u] : u \in OnServer}] :
           server' = [box |-> [u \in UID |-> IF u <= n THEN f[u] ELSE NoMsg],
                      next |-> n + 1, validity |-> server.validity + 1]
    BY <1>3 DEF Renumber
  <2>3. {server.box[u] : u \in OnServer} \subseteq Msg
    BY <1>b DEF OnServer
  <2>4. server.validity + 1 \in 1 .. MaxValidity
    BY <1>b, <1>3 DEF Renumber
  <2> HIDE DEF n
  <2>5. [u \in UID |-> IF u <= n THEN f[u] ELSE NoMsg] \in [UID -> Msg \cup {NoMsg}]
    BY <1>b, <2>1, <2>2, <2>3 DEF UID
  <2>6. n + 1 \in 1 .. MaxUID + 1
    BY <1>b, <2>1
  <2>7. server' \in Server
    BY <2>2, <2>4, <2>5, <2>6 DEF Server
  <2> QED BY <1>3, <2>7 DEF Renumber, TypeOK, history
<1> QED BY <1>1, <1>2, <1>3

(* Every state has the declared shape: cursors and rows hold UIDs of the   *)
(* folder, what syncers write and delete comes from UIDs they have read,   *)
(* and UIDNEXT - 1 is never negative.                                      *)
THEOREM FolderTypeCorrect == Spec => []TypeOK
<1>1. Init => TypeOK
  <2> SUFFICES ASSUME Init PROVE TypeOK
    OBVIOUS
  <2>1. server \in Server /\ folder \in Folder
    BY ConstantsAssumption DEF Init, Server, Folder
  <2>2. syncer \in [Syncer -> SyncerState]
    BY IdleType DEF Init
  <2>3. rows \in [Msg -> 0 .. MaxUID]
    BY ConstantsAssumption DEF Init
  <2> QED BY <2>1, <2>2, <2>3 DEF Init, TypeOK
<1>2. TypeOK /\ [Next]_vars => TypeOK'
  <2> SUFFICES ASSUME TypeOK, [Next]_vars PROVE TypeOK'
    OBVIOUS
  <2>1. ASSUME NEW s \in Syncer, PassStep(s)
        PROVE  TypeOK'
    BY <2>1, ListType, SelectType, ValidityType, ResetType, FullType, CursorType,
       FetchType, ReconcileType, CheckType DEF PassStep
  <2>2. ASSUME NEW w \in Worker, ConsumerStep(w)
        PROVE  TypeOK'
    BY <2>2, ConsumerType
  <2>3. ASSUME NEW u \in UID, Collect(u)
        PROVE  TypeOK'
    BY <2>3 DEF Collect, TypeOK, history
  <2>4. CASE ResyncAccount \/ ResetStep
    BY <2>4, ResyncType
  <2>5. CASE \/ \E m \in Msg : Deliver(m)
             \/ \E u \in UID : Expunge(u)
             \/ Renumber
    BY <2>5, ServerType
  <2>6. CASE UNCHANGED vars
    BY <2>6 DEF vars, history, TypeOK
  <2> QED BY <2>1, <2>2, <2>3, <2>4, <2>5, <2>6 DEF Next
<1> QED BY <1>1, <1>2, PTL DEF Spec

------------------------------------------------------------------------------
(* Several syncers beside each other.  The cursor passes over no message   *)
(* as long as the folder keeps its UIDVALIDITY, no message comes back      *)
(* under a second UID, and nobody resets the account under a priority      *)
(* check: those are the three ways in which one syncer changes what        *)
(* another one has read.                                                   *)
Steady ==
    /\ MaxValidity = 1
    /\ "return" \notin Hazards
    /\ Priority = {} \/ "resync" \notin Hazards

(* u is, if it still names a message, the only UID of m, now and for ever. *)
At(u, m) ==
    /\ u < server.next /\ m \notin fresh
    /\ \A v \in OnServer : server.box[v] = m <=> v = u

(* A message that needs no syncer any more.                                *)
Good(u) == u \in OnServer => \/ rows[server.box[u]] # 0
                             \/ queue[u] = "pending"
                             \/ server.box[u] \in missed

GoodTo(n) == n < server.next /\ \A u \in UID : u <= n => Good(u)

Sound == resync = "done" /\ ~torn

(* What a syncer with the progress r knows, whatever others do.            *)
Passing(r) ==
    /\ r.pc \notin {"clear", "purge", "zero"}
    /\ r.pc = "validity" => r.session = 1
    /\ r.pc \in {"select", "validity", "stamp"} =>
           r.pos = 0 /\ r.top = 0 /\ r.found = {}
    /\ r.pc \in {"full", "save", "checkpoint"} => r.top <= r.pos
    /\ r.end < server.next
    /\ \A e \in r.held : e[1] = r.pos
    /\ \A e \in r.held : At(e[1], e[2])
    /\ \A e \in r.listed : At(e[1], e[2])
    /\ r.pc = "delete" => \A e \in r.listed : e[1] \notin OnServer
    /\ \A v \in r.found : v < server.next
    /\ \A v \in r.found : \A u \in OnServer : r.last < u /\ u <= v => u \in r.found

(* How far it has seen to the messages.                                    *)
Covers(r) ==
    /\ GoodTo(r.last)
    /\ r.pc = "save" => GoodTo(r.pos - 1)
    /\ r.pc \in {"full", "checkpoint"} => GoodTo(r.pos)
    /\ r.pc = "advance" => GoodTo(r.top)

(* A task in hand belongs to the message that had its UID; one without a   *)
(* message is about an expunged one.                                       *)
Task(t) == /\ t.uid < server.next
           /\ IF t.msg = NoMsg THEN t.uid \notin OnServer ELSE At(t.uid, t.msg)

Filed ==
    /\ server.validity = 1
    /\ \A u \in OnServer : At(u, server.box[u])
    /\ \A m \in Msg : rows[m] # 0 => At(rows[m], m)
    /\ \A u \in UID : queue[u] # "absent" => u < server.next
    /\ \A w \in Worker : \A t \in hand[w] : Task(t)

Resetting ==
    /\ resync # "done" => /\ Priority = {}
                          /\ \A s \in Syncer : syncer[s] = Idle
                          /\ \A w \in Worker : hand[w] = {}
    /\ resync = "folder" /\ ~torn => queue = Emptied

Settled ==
    /\ GoodTo(folder.last)
    /\ \A u \in UID : queue[u] = "done" => Good(u)

BesideInv ==
    /\ Filed
    /\ Resetting
    /\ \A s \in Syncer : Passing(syncer[s])
    /\ Sound => Settled /\ \A s \in Syncer : Covers(syncer[s])

LEMMA IdlePasses ==
    ASSUME TypeOK
    PROVE  Passing(Idle) /\ GoodTo(0) /\ Covers(Idle)
<1>1. 0 < server.next /\ \A u \in UID : ~(u <= 0)
  BY ConstantsAssumption DEF TypeOK, Server, UID
<1> QED BY <1>1 DEF Passing, Covers, GoodTo, Idle

LEMMA BesideInit == Init => BesideInv
<1> SUFFICES ASSUME Init PROVE BesideInv
  OBVIOUS
<1>1. OnServer = {} /\ server.next = 1 /\ server.validity = 1
  BY DEF Init, OnServer
<1>2. Filed /\ Resetting
  BY <1>1 DEF Init, Filed, Resetting
<1>3. \A u \in UID : ~(u <= 0)
  BY ConstantsAssumption DEF UID
<1>4. Settled
  BY <1>1, <1>3 DEF Init, Settled, GoodTo
<1>5. \A s \in Syncer : syncer[s] = Idle
  BY DEF Init
<1>6. Passing(Idle) /\ Covers(Idle)
  BY <1>1, <1>3 DEF Passing, Covers, GoodTo, Idle
<1> QED BY <1>2, <1>4, <1>5, <1>6 DEF BesideInv

(* A step of one syncer that only reads, or writes the cursor.             *)
LEMMA ReadFrame ==
    ASSUME TypeOK, BesideInv, NEW s \in Syncer, NEW r, Becomes(s, r),
           UNCHANGED <<server, rows, queue, hand, resync, fresh, missed>>,
           torn => torn', resync = "done",
           Passing(r),
           Sound' => Covers(r) /\ GoodTo(folder'.last)
    PROVE  BesideInv'
<1>1. OnServer' = OnServer
  BY DEF OnServer
<1>2. \A u, m : At(u, m) => At(u, m)'
  BY <1>1 DEF At
<1>3. \A u \in UID : Good(u) => Good(u)'
  BY <1>1 DEF Good
<1>4. Filed' /\ Resetting'
  BY <1>1, <1>2 DEF BesideInv, Filed, Resetting, Task, At
<1>5. ASSUME NEW x \in Syncer PROVE syncer'[x] = IF x = s THEN r ELSE syncer[x]
  BY DEF TypeOK, Becomes
<1>6. ASSUME NEW x \in Syncer PROVE Passing(syncer[x])'
  <2>1. PICK q : q = syncer'[x]
    OBVIOUS
  <2>2. Passing(q)
    BY <1>5, <2>1 DEF BesideInv
  <2>3. Passing(q)'
    BY <1>1, <2>2 DEF Passing, At
  <2> QED BY <2>1, <2>3 DEF Passing
<1>7. ASSUME Sound', NEW x \in Syncer PROVE Covers(syncer[x])'
  <2>0. Sound
    BY <1>7 DEF Sound
  <2>1. PICK q : q = syncer'[x]
    OBVIOUS
  <2>2. Covers(q)
    BY <1>5, <1>7, <2>0, <2>1 DEF BesideInv
  <2>3. Covers(q)'
    BY <1>1, <1>3, <2>2 DEF Covers, GoodTo
  <2> QED BY <2>1, <2>3 DEF Covers
<1>8. ASSUME Sound' PROVE Settled'
  <2>0. Sound
    BY <1>8 DEF Sound
  <2>1. PICK n : n = folder'.last
    OBVIOUS
  <2>2. GoodTo(n)
    BY <1>8, <2>1
  <2>3. GoodTo(folder.last)'
    BY <1>1, <1>3, <2>1, <2>2 DEF GoodTo
  <2> QED BY <1>1, <1>3, <2>0, <2>3 DEF Settled, BesideInv
<1> QED BY <1>4, <1>6, <1>7, <1>8 DEF BesideInv

LEMMA OneAtATime ==
    ASSUME BesideInv, NEW s \in Syncer, syncer[s].pc # "idle" \/ Allowed(s)
    PROVE  resync = "done"
BY DEF BesideInv, Resetting, Allowed, Idle

(* What the syncer knows, its fields taken apart.                          *)
LEMMA PassFacts ==
    ASSUME TypeOK, BesideInv, NEW s \in Syncer
    PROVE  /\ syncer[s] \in SyncerState
           /\ Passing(syncer[s])
           /\ Sound => Covers(syncer[s]) /\ Settled
BY DEF TypeOK, BesideInv

LEMMA ListBeside ==
    ASSUME TypeOK, BesideInv, Steady, NEW s \in Syncer, List(s)
    PROVE  BesideInv'
<1>0. resync = "done"
  BY OneAtATime DEF List
<1>1. PICK r : Becomes(s, r) /\ r \in {[Idle EXCEPT !.pc = "select", !.id = folder.known,
                                        !.last = folder.last, !.stored = folder.validity],
                                       [Idle EXCEPT !.pc = "select"]}
  BY DEF List
<1>2. /\ r.pc = "select" /\ r.held = {} /\ r.listed = {} /\ r.found = {}
      /\ r.end = 0 /\ r.pos = 0 /\ r.top = 0
      /\ r.last = folder.last \/ r.last = 0
  BY <1>1 DEF Idle
<1>3. Passing(r)
  <2>1. 0 < server.next
    BY DEF TypeOK, Server
  <2> QED BY <1>2, <2>1 DEF Passing
<1>4. Sound => Covers(r)
  BY <1>2, IdlePasses DEF Covers, BesideInv, Settled
<1>5. /\ UNCHANGED <<folder, server, rows, queue, hand, resync, fresh, missed, torn>>
      /\ Sound' = Sound
  BY DEF List, history, Sound
<1>6. Sound => GoodTo(folder.last)
  BY DEF BesideInv, Settled
<1> QED BY <1>0, <1>1, <1>3, <1>4, <1>5, <1>6, ReadFrame

LEMMA SelectBeside ==
    ASSUME TypeOK, BesideInv, Steady, NEW s \in Syncer, Select(s)
    PROVE  BesideInv'
<1> DEFINE n == Cardinality(OnServer)
           r == [syncer[s] EXCEPT !.pc = IF n = 0 THEN "reconcile" ELSE "validity",
                                  !.id = @ \/ (n = 0 /\ folder.known),
                                  !.session = server.validity,
                                  !.end = LastUID, !.count = n]
<1>0. resync = "done" /\ syncer[s].pc = "select"
  BY OneAtATime DEF Select
<1>1. Becomes(s, r)
  BY Zenon DEF Select
<1>2. /\ r.pc \in {"reconcile", "validity"} /\ r.held = syncer[s].held
      /\ r.listed = syncer[s].listed /\ r.found = syncer[s].found
      /\ r.end = LastUID /\ r.pos = syncer[s].pos /\ r.top = syncer[s].top
      /\ r.last = syncer[s].last /\ r.session = server.validity
  BY PassFacts DEF SyncerState
<1> HIDE DEF r
<1>3. Passing(r)
  <2>1. LastUID < server.next /\ server.validity = 1
    BY DEF TypeOK, Server, LastUID, BesideInv, Filed
  <2> QED BY <1>0, <1>2, <2>1, PassFacts DEF Passing
<1>4. Sound => Covers(r)
  BY <1>2, PassFacts DEF Covers
<1>5. /\ UNCHANGED <<server, rows, queue, hand, resync, fresh, missed, torn>>
      /\ Sound' = Sound /\ folder'.last = folder.last
  BY DEF Select, history, Sound, TypeOK, Folder
<1>6. Sound => GoodTo(folder.last)
  BY DEF BesideInv, Settled
<1> QED BY <1>0, <1>1, <1>3, <1>4, <1>5, <1>6, ReadFrame

LEMMA ValidityBeside ==
    ASSUME TypeOK, BesideInv, Steady, NEW s \in Syncer, Validity(s)
    PROVE  BesideInv'
<1> DEFINE me == syncer[s]
           last == IF me.id THEN me.last ELSE folder.last
           stored == IF me.id THEN me.stored ELSE folder.validity
<1>0. resync = "done" /\ me.pc = "validity" /\ me.session = 1 /\ me \in SyncerState
  BY OneAtATime, PassFacts DEF Validity, Passing
<1>1. ~Mismatch(stored, me.session)
  <2>1. stored \in 0 .. 1
    BY <1>0 DEF Steady, TypeOK, Folder, SyncerState
  <2> QED BY <1>0, <2>1 DEF Mismatch
<1>2. PICK r : Becomes(s, r) /\ r \in {[me EXCEPT !.pc = "stamp", !.id = TRUE, !.last = last],
                                       [me EXCEPT !.pc = Way(me.last, me.end)]}
  BY <1>1, Zenon DEF Validity, Goto
<1>3. /\ r.pc \in {"stamp", "reconcile", "full", "fetch"} /\ r.held = me.held
      /\ r.listed = me.listed /\ r.found = me.found
      /\ r.end = me.end /\ r.pos = me.pos /\ r.top = me.top
      /\ r.last = me.last \/ r.last = folder.last
  BY <1>0, <1>2 DEF SyncerState, Way
<1>4. Passing(r)
  BY <1>0, <1>3, PassFacts DEF Passing
<1>5. /\ UNCHANGED <<folder, server, rows, queue, hand, resync, fresh, missed, torn>>
      /\ Sound' = Sound
  BY DEF Validity, history, Sound
<1>6. Sound => GoodTo(folder.last)
  BY DEF BesideInv, Settled
<1>7. Sound => Covers(r)
  <2>1. me.pos = 0
    BY <1>0, PassFacts DEF Passing
  <2> QED BY <1>3, <1>6, <2>1, PassFacts, IdlePasses DEF Covers
<1> QED BY <1>0, <1>2, <1>4, <1>5, <1>6, <1>7, ReadFrame

(* The resets of a renumbered folder do not come about.                    *)
LEMMA StampBeside ==
    ASSUME TypeOK, BesideInv, Steady, NEW s \in Syncer,
           ClearQueue(s) \/ PurgeRows(s) \/ ZeroCursor(s) \/ Stamp(s)
    PROVE  BesideInv'
<1> DEFINE me == syncer[s]
<1>1. Stamp(s)
  BY PassFacts DEF ClearQueue, PurgeRows, ZeroCursor, Passing
<1>0. resync = "done" /\ me.pc = "stamp" /\ me \in SyncerState
  BY <1>1, OneAtATime, PassFacts DEF Stamp
<1>2. PICK r : Becomes(s, r) /\ r = [me EXCEPT !.pc = Way(me.last, me.end)]
  BY <1>1 DEF Stamp, Goto
<1>3. /\ r.pc \in {"reconcile", "full", "fetch"} /\ r.held = me.held
      /\ r.listed = me.listed /\ r.found = me.found
      /\ r.end = me.end /\ r.pos = me.pos /\ r.top = me.top
      /\ r.last = me.last
  BY <1>0, <1>2 DEF SyncerState, Way
<1>4. Passing(r)
  BY <1>0, <1>3, PassFacts DEF Passing
<1>5. /\ UNCHANGED <<server, rows, queue, hand, resync, fresh, missed>>
      /\ torn => torn'
      /\ Sound' => Sound /\ folder'.last = folder.last
  BY <1>1 DEF Stamp, Sound, Torn, Whole, TypeOK, Folder
<1>6. Sound => GoodTo(folder.last)
  BY DEF BesideInv, Settled
<1>7. Sound => Covers(r)
  <2>1. me.pos = 0
    BY <1>0, PassFacts DEF Passing
  <2> QED BY <1>3, <2>1, PassFacts, IdlePasses DEF Covers
<1> QED BY <1>0, <1>2, <1>4, <1>5, <1>6, <1>7, ReadFrame

LEMMA FullFetchBeside ==
    ASSUME TypeOK, BesideInv, Steady, NEW s \in Syncer, FullFetch(s)
    PROVE  BesideInv'
<1> DEFINE me == syncer[s]
<1>0. resync = "done" /\ me.pc = "full" /\ me \in SyncerState
  BY OneAtATime, PassFacts DEF FullFetch
<1>a. PICK u \in Ahead(s) :
         /\ \A v \in Ahead(s) : u <= v
         /\ Becomes(s, [me EXCEPT !.pc = "save", !.pos = u, !.held = {<<u, server.box[u]>>}])
  BY DEF FullFetch
<1>1. PICK r : /\ r = [me EXCEPT !.pc = "save", !.pos = u, !.held = {<<u, server.box[u]>>}]
               /\ Becomes(s, r)
  BY <1>a
<1>2. u \in OnServer /\ me.pos < u /\ u <= me.end /\ u \in UID /\ UID \subseteq Nat
      /\ me.pos \in Nat /\ me.end \in Nat /\ me.top \in Nat
  BY <1>0, ConstantsAssumption DEF Ahead, OnServer, UID, SyncerState
<1>3. /\ r.pc = "save" /\ r.held = {<<u, server.box[u]>>} /\ r.pos = u
      /\ r.listed = me.listed /\ r.found = me.found
      /\ r.end = me.end /\ r.top = me.top /\ r.last = me.last
  BY <1>0, <1>1 DEF SyncerState
<1>4. Passing(r)
  <2>1. At(u, server.box[u])
    BY <1>2 DEF BesideInv, Filed
  <2>2. Passing(me)
    BY PassFacts
  <2>3. me.top <= u
    BY <1>0, <1>2, <2>2 DEF Passing
  <2>4. \A e \in r.held : e[1] = r.pos /\ At(e[1], e[2])
    BY <1>3, <2>1
  <2>5. r.end < server.next /\ r.top <= r.pos
    BY <1>3, <2>2, <2>3 DEF Passing
  <2> QED BY <1>0, <1>3, <2>2, <2>4, <2>5 DEF Passing
<1>5. /\ UNCHANGED <<folder, server, rows, queue, hand, resync, fresh, missed, torn>>
      /\ Sound' = Sound
  BY DEF FullFetch, history, Sound
<1>6. Sound => GoodTo(folder.last)
  BY DEF BesideInv, Settled
<1>7. ASSUME Sound PROVE Covers(r)
  <2>1. GoodTo(me.pos) /\ GoodTo(me.last)
    BY <1>0, <1>7, PassFacts DEF Covers
  <2>2. ASSUME NEW v \in UID, v <= u - 1 PROVE Good(v)
    <3>1. CASE v <= me.pos
      BY <2>1, <3>1 DEF GoodTo
    <3>2. CASE ~(v <= me.pos)
      <4>1. v \in Nat /\ me.pos < v /\ v < u /\ v <= me.end
        BY <1>2, <2>2, <3>2
      <4>2. v \notin Ahead(s)
        BY <1>a, <1>2, <4>1
      <4> QED BY <4>1, <4>2 DEF Ahead, Good
    <3> QED BY <3>1, <3>2
  <2>3. u - 1 < server.next
    BY <1>2, <1>0, PassFacts DEF Passing, TypeOK, Server
  <2> QED BY <1>3, <2>1, <2>2, <2>3 DEF Covers, GoodTo
<1> QED BY <1>0, <1>1, <1>4, <1>5, <1>6, <1>7, ReadFrame

LEMMA CursorBeside ==
    ASSUME TypeOK, BesideInv, Steady, NEW s \in Syncer,
           TakeCheckpoint(s) \/ FullEnd(s) \/ Advance(s)
    PROVE  BesideInv'
<1> DEFINE me == syncer[s]
<1>0. resync = "done" /\ me.pc \in {"full", "checkpoint", "advance"} /\ me \in SyncerState
  BY OneAtATime, PassFacts DEF TakeCheckpoint, FullEnd, Advance
<1>1. /\ UNCHANGED <<server, rows, queue, hand, resync, fresh, missed, torn>>
      /\ Sound' = Sound
  BY DEF TakeCheckpoint, FullEnd, Advance, history, Sound
<1>2. PICK r : /\ Becomes(s, r)
               /\ \/ r = Idle
                  \/ me.pc \in {"full", "checkpoint"} /\ r = [me EXCEPT !.pc = "full", !.batch = 0]
                  \/ me.pc = "full" /\ r = [me EXCEPT !.pc = "advance"]
                  \/ r = [me EXCEPT !.pc = "reconcile"]
  BY DEF TakeCheckpoint, FullEnd, Advance, Goto
<1>3. \/ r = Idle
      \/ /\ \/ me.pc \in {"full", "checkpoint"} /\ r.pc = "full"
            \/ me.pc = "full" /\ r.pc = "advance"
            \/ r.pc = "reconcile"
         /\ r.held = me.held /\ r.listed = me.listed /\ r.found = me.found
         /\ r.end = me.end /\ r.top = me.top /\ r.last = me.last /\ r.pos = me.pos
  BY <1>0, <1>2 DEF SyncerState
<1>4. Passing(r)
  <2>1. CASE r = Idle
    BY <2>1, IdlePasses
  <2>2. CASE r # Idle
    BY <1>0, <1>3, <2>2, PassFacts DEF Passing
  <2> QED BY <2>1, <2>2
<1>5. ASSUME Sound PROVE GoodTo(me.top) /\ Covers(r)
  <2>1. Covers(me) /\ Passing(me)
    BY <1>5, PassFacts
  <2>2. GoodTo(me.top)
    <3>1. CASE me.pc = "advance"
      BY <2>1, <3>1 DEF Covers
    <3>2. CASE me.pc # "advance"
      <4>1. GoodTo(me.pos) /\ me.top <= me.pos
        BY <1>0, <2>1, <3>2 DEF Covers, Passing
      <4>2. me.top \in Nat /\ me.pos \in Nat /\ UID \subseteq Nat /\ server.next \in Nat
        BY <1>0, ConstantsAssumption DEF UID, SyncerState, TypeOK, Server
      <4> QED BY <4>1, <4>2 DEF GoodTo
    <3> QED BY <3>1, <3>2
  <2>3. CASE r = Idle
    BY <2>2, <2>3, IdlePasses
  <2>4. CASE r # Idle
    BY <1>0, <1>3, <2>1, <2>2, <2>4 DEF Covers
  <2> QED BY <2>2, <2>3, <2>4
<1>6. folder' = folder \/ folder'.last = me.top
  BY DEF TakeCheckpoint, FullEnd, Advance, SetCursor, TypeOK, Folder
<1>7. Sound => GoodTo(folder'.last)
  BY <1>5, <1>6, PassFacts DEF Settled
<1> QED BY <1>0, <1>1, <1>2, <1>4, <1>5, <1>7, ReadFrame

LEMMA AfterReconcileKnows ==
    ASSUME TypeOK, BesideInv, NEW s \in Syncer
    PROVE  /\ Passing(AfterReconcile(s))
           /\ Sound => Covers(AfterReconcile(s))
<1>1. CASE s \in Checker
  <2> DEFINE r == [syncer[s] EXCEPT !.pc = "find", !.listed = {}]
  <2>1. /\ r.pc = "find" /\ r.listed = {} /\ r.held = syncer[s].held
        /\ r.found = syncer[s].found /\ r.end = syncer[s].end /\ r.last = syncer[s].last
        /\ r.pos = syncer[s].pos
    BY PassFacts DEF SyncerState
  <2>2. AfterReconcile(s) = r
    BY <1>1 DEF AfterReconcile
  <2> HIDE DEF r
  <2>3. Passing(r)
    BY <2>1, PassFacts DEF Passing
  <2>4. Sound => Covers(r)
    BY <2>1, PassFacts DEF Covers
  <2> QED BY <2>2, <2>3, <2>4
<1>2. CASE s \notin Checker
  BY <1>2, IdlePasses DEF AfterReconcile
<1> QED BY <1>1, <1>2

LEMMA FetchBeside ==
    ASSUME TypeOK, BesideInv, Steady, NEW s \in Syncer, FetchUIDs(s)
    PROVE  BesideInv'
<1> DEFINE me == syncer[s]
<1>0. resync = "done" /\ me.pc = "fetch" /\ me \in SyncerState
  BY OneAtATime, PassFacts DEF FetchUIDs
<1>1. PICK r : /\ Becomes(s, r)
               /\ \/ NewUIDs(s) = {} /\ r = [me EXCEPT !.pc = "advance", !.top = me.end]
                  \/ r = [me EXCEPT !.pc = "enqueue", !.found = NewUIDs(s)]
  BY DEF FetchUIDs
<1>2. /\ \/ NewUIDs(s) = {} /\ r.pc = "advance" /\ r.top = me.end /\ r.found = me.found
         \/ r.pc = "enqueue" /\ r.found = NewUIDs(s)
      /\ r.held = me.held /\ r.listed = me.listed /\ r.pos = me.pos
      /\ r.end = me.end /\ r.last = me.last
  BY <1>0, <1>1 DEF SyncerState
<1>n. /\ me.last \in Nat /\ me.end \in Nat /\ UID \subseteq Nat /\ server.next \in Nat
      /\ OnServer \subseteq UID
  BY <1>0, ConstantsAssumption DEF SyncerState, UID, TypeOK, Server, OnServer
<1>3. Passing(r)
  <2>1. \A v \in NewUIDs(s) : v < server.next
    <3>1. me.end < server.next
      BY PassFacts DEF Passing
    <3>2. \A v \in NewUIDs(s) : v \in Nat /\ v <= me.end
      BY <1>n DEF NewUIDs
    <3> QED BY <1>n, <3>1, <3>2
  <2>2. \A v \in NewUIDs(s) : \A u \in OnServer :
            me.last < u /\ u <= v => u \in NewUIDs(s)
    <3>1. ASSUME NEW v \in NewUIDs(s), NEW u \in OnServer, me.last < u, u <= v
          PROVE  u \in NewUIDs(s)
      <4>1. v \in Nat /\ u \in Nat /\ v <= me.end
        BY <1>n DEF NewUIDs
      <4>2. u <= me.end
        BY <1>n, <3>1, <4>1
      <4> QED BY <3>1, <4>2 DEF NewUIDs
    <3> QED BY <3>1
  <2> QED BY <1>2, <2>1, <2>2, PassFacts DEF Passing
<1>4. /\ UNCHANGED <<folder, server, rows, queue, hand, resync, fresh, missed, torn>>
      /\ Sound' = Sound
  BY DEF FetchUIDs, history, Sound
<1>5. Sound => GoodTo(folder.last)
  BY DEF BesideInv, Settled
<1>6. ASSUME Sound PROVE Covers(r)
  <2>1. GoodTo(me.last)
    BY <1>6, PassFacts DEF Covers
  <2>2. ASSUME NewUIDs(s) = {} PROVE GoodTo(me.end)
    <3>1. ASSUME NEW u \in UID, u <= me.end PROVE Good(u)
      <4>1. CASE u <= me.last
        BY <2>1, <4>1 DEF GoodTo
      <4>2. CASE ~(u <= me.last)
        <5>1. u \notin OnServer
          BY <1>n, <2>2, <3>1, <4>2 DEF NewUIDs
        <5> QED BY <5>1 DEF Good
      <4> QED BY <4>1, <4>2
    <3>2. me.end < server.next
      BY PassFacts DEF Passing
    <3> QED BY <3>1, <3>2 DEF GoodTo
  <2> QED BY <1>2, <2>1, <2>2 DEF Covers
<1> QED BY <1>0, <1>1, <1>3, <1>4, <1>5, <1>6, ReadFrame

LEMMA ReconcileBeside ==
    ASSUME TypeOK, BesideInv, Steady, NEW s \in Syncer, Reconcile(s) \/ Search(s)
    PROVE  BesideInv'
<1> DEFINE me == syncer[s]
<1>0. resync = "done" /\ me.pc \in {"reconcile", "search"} /\ me \in SyncerState
  BY OneAtATime, PassFacts DEF Reconcile, Search
<1>4. /\ UNCHANGED <<folder, server, rows, queue, hand, resync, fresh, missed, torn>>
      /\ Sound' = Sound
  <2>1. UNCHANGED <<folder, server, rows, queue, hand, resync, history>>
    BY Zenon DEF Reconcile, Search
  <2> QED BY <2>1 DEF history, Sound
<1>5. Sound => GoodTo(folder.last)
  BY DEF BesideInv, Settled
<1>1. ASSUME Becomes(s, AfterReconcile(s)) PROVE BesideInv'
  BY <1>0, <1>1, <1>4, <1>5, AfterReconcileKnows, ReadFrame
<1>2. ASSUME NEW L, NEW r, Becomes(s, r),
             \/ r = [me EXCEPT !.pc = "search", !.listed = L]
             \/ /\ r = [me EXCEPT !.pc = "delete", !.listed = L]
                /\ \A e \in L : e[1] \notin OnServer,
             \A e \in L : At(e[1], e[2])
      PROVE  BesideInv'
  <2>1. /\ r.listed = L /\ r.held = me.held /\ r.found = me.found
        /\ r.end = me.end /\ r.last = me.last /\ r.pos = me.pos
        /\ \/ r.pc = "search"
           \/ r.pc = "delete" /\ \A e \in L : e[1] \notin OnServer
    BY <1>0, <1>2 DEF SyncerState
  <2>2. Passing(r)
    BY <1>2, <2>1, PassFacts DEF Passing
  <2>3. Sound => Covers(r)
    BY <2>1, PassFacts DEF Covers
  <2> QED BY <1>0, <1>2, <1>4, <1>5, <2>2, <2>3, ReadFrame
<1>3. CASE Reconcile(s)
  <2> DEFINE U == {rows[m] : m \in Msg} \ {0}
  <2>1. PICK f \in [U -> Msg] :
           /\ \A u \in U : rows[f[u]] = u
           /\ Becomes(s, IF ~me.id \/ U = {} \/ Cardinality(U) < me.count
                         THEN AfterReconcile(s)
                         ELSE [me EXCEPT !.pc = "search", !.listed = {<<u, f[u]>> : u \in U}])
    BY <1>3, Zenon DEF Reconcile
  <2>2. \A u \in U : f[u] \in Msg /\ rows[f[u]] = u /\ u # 0
    BY <2>1
  <2> HIDE DEF U
  <2>3. \A e \in {<<u, f[u]>> : u \in U} : At(e[1], e[2])
    <3>1. \A u \in U : At(u, f[u])
      BY <2>2 DEF BesideInv, Filed
    <3> QED BY <3>1
  <2> DEFINE L == {<<u, f[u]>> : u \in U}
  <2>4. CASE Becomes(s, AfterReconcile(s))
    BY <1>1, <2>4
  <2>5. CASE Becomes(s, [me EXCEPT !.pc = "search", !.listed = L])
    <3> HIDE DEF L
    <3> QED BY <1>2, <2>3, <2>5 DEF L
  <2> QED BY <2>1, <2>4, <2>5
<1>6. CASE Search(s)
  <2> DEFINE L == {e \in me.listed : e[1] \notin OnServer}
  <2>1. \A e \in L : At(e[1], e[2]) /\ e[1] \notin OnServer
    BY PassFacts DEF Passing
  <2>2. \/ Becomes(s, AfterReconcile(s))
        \/ Becomes(s, [me EXCEPT !.pc = "delete", !.listed = L])
    BY <1>6 DEF Search
  <2> HIDE DEF L
  <2> QED BY <1>1, <1>2, <2>1, <2>2
<1> QED BY <1>3, <1>6

LEMMA CheckBeside ==
    ASSUME TypeOK, BesideInv, Steady, NEW s \in Syncer, Check(s) \/ FindNew(s) \/ Abort(s)
    PROVE  BesideInv'
<1> DEFINE me == syncer[s]
<1>0. resync = "done" /\ me \in SyncerState
  BY OneAtATime, PassFacts DEF Check, FindNew, Abort
<1>4. /\ UNCHANGED <<folder, server, rows, queue, hand, resync, fresh, missed, torn>>
      /\ Sound' = Sound
  BY DEF Check, FindNew, Abort, history, Sound
<1>5. Sound => GoodTo(folder.last)
  BY DEF BesideInv, Settled
<1>1. ASSUME Becomes(s, Idle) PROVE BesideInv'
  BY <1>0, <1>1, <1>4, <1>5, IdlePasses, ReadFrame
<1>2. CASE Check(s)
  <2>1. PICK r : /\ Becomes(s, r)
                 /\ r \in {[Idle EXCEPT !.pc = "reconcile", !.id = folder.known,
                                        !.last = folder.last, !.session = server.validity],
                           [Idle EXCEPT !.pc = "find", !.session = server.validity]}
    BY <1>2 DEF Check
  <2>2. /\ r.pc \in {"reconcile", "find"} /\ r.listed = {} /\ r.held = {} /\ r.found = {}
        /\ r.end = 0 /\ r.last \in {0, folder.last}
    BY <2>1 DEF Idle
  <2>3. 0 < server.next
    BY DEF TypeOK, Server
  <2>4. Passing(r)
    BY <2>2, <2>3 DEF Passing
  <2>5. Sound => Covers(r)
    BY <1>5, <2>2, IdlePasses DEF Covers
  <2> QED BY <1>0, <1>4, <1>5, <2>1, <2>4, <2>5, ReadFrame
<1>3. CASE FindNew(s)
  <2> DEFINE new == {u \in OnServer : me.last < u}
  <2>1. Becomes(s, IF new = {} THEN Idle ELSE [me EXCEPT !.pc = "enqueue", !.found = new])
    BY <1>3, Zenon DEF FindNew
  <2>2. /\ \A v \in new : v < server.next
        /\ \A v \in new : \A u \in OnServer : me.last < u /\ u <= v => u \in new
    BY DEF BesideInv, Filed, At
  <2> HIDE DEF new
  <2>3. CASE Becomes(s, Idle)
    BY <1>1, <2>3
  <2>4. ASSUME NEW r, Becomes(s, r), r = [me EXCEPT !.pc = "enqueue", !.found = new]
        PROVE  BesideInv'
    <3>1. /\ r.pc = "enqueue" /\ r.found = new /\ r.held = me.held
          /\ r.listed = me.listed /\ r.end = me.end /\ r.last = me.last
          /\ r.pos = me.pos
      BY <1>0, <2>4 DEF SyncerState
    <3>2. Passing(r)
      BY <2>2, <3>1, PassFacts DEF Passing
    <3>3. Sound => Covers(r)
      BY <3>1, PassFacts DEF Covers
    <3> QED BY <1>0, <1>4, <1>5, <2>4, <3>2, <3>3, ReadFrame
  <2> QED BY <2>1, <2>3, <2>4
<1>6. CASE Abort(s)
  BY <1>1, <1>6 DEF Abort
<1> QED BY <1>2, <1>3, <1>6

(* A step that writes rows or tasks.                                       *)
LEMMA WriteFrame ==
    ASSUME TypeOK, BesideInv, UNCHANGED <<server, fresh>>, Resetting',
           \A x \in Syncer : Passing(syncer'[x]),
           \A m \in Msg : rows'[m] # 0 => At(rows'[m], m),
           \A u \in UID : queue'[u] # "absent" => u < server.next,
           \A w \in Worker : \A t \in hand'[w] : Task(t),
           Sound' => Settled' /\ \A x \in Syncer : Covers(syncer[x])'
    PROVE  BesideInv'
<1>1. OnServer' = OnServer
  BY DEF OnServer
<1>2. \A u, m : At(u, m) => At(u, m)'
  BY <1>1 DEF At
<1>3. Filed'
  BY <1>1, <1>2 DEF BesideInv, Filed, Task, At
<1>4. ASSUME NEW x \in Syncer PROVE Passing(syncer[x])'
  <2>1. PICK q : q = syncer'[x]
    OBVIOUS
  <2>2. Passing(q)
    BY <2>1
  <2>3. Passing(q)'
    BY <1>1, <2>2 DEF Passing, At
  <2> QED BY <2>1, <2>3 DEF Passing
<1> QED BY <1>3, <1>4 DEF BesideInv

(* What a syncer covers stays covered, if messages stay good.              *)
LEMMA CoversStay ==
    ASSUME UNCHANGED server, \A u \in UID : Good(u) => Good(u)',
           NEW x \in Syncer, Covers(syncer'[x])
    PROVE  Covers(syncer[x])'
<1>1. PICK q : q = syncer'[x]
  OBVIOUS
<1>2. Covers(q)
  BY <1>1
<1>3. Covers(q)'
  BY <1>2 DEF Covers, GoodTo
<1> QED BY <1>1, <1>3 DEF Covers

LEMMA FewerListed ==
    ASSUME TypeOK, NEW r \in SyncerState, NEW L, L \subseteq r.listed
    PROVE  /\ Passing(r) => Passing([r EXCEPT !.listed = L])
           /\ Covers(r) => Covers([r EXCEPT !.listed = L])
<1>1. PICK q : q = [r EXCEPT !.listed = L]
  OBVIOUS
<1>2. /\ q.listed = L /\ q.pc = r.pc /\ q.held = r.held /\ q.found = r.found
      /\ q.end = r.end /\ q.last = r.last /\ q.pos = r.pos /\ q.top = r.top
      /\ q.session = r.session
  BY <1>1 DEF SyncerState
<1>3. Passing(r) => Passing(q)
  BY <1>2 DEF Passing
<1>4. Covers(r) => Covers(q)
  BY <1>2 DEF Covers
<1> QED BY <1>1, <1>3, <1>4

(* Only rows of messages that have left the server are deleted.            *)
LEMMA DeletedAreGone ==
    ASSUME TypeOK, BesideInv, NEW m \in Msg, DeleteRows({m}),
           \A v \in OnServer : server.box[v] # m,
           UNCHANGED <<server, fresh, missed>>,
           \A u \in UID : queue[u] = "pending" /\ u \in OnServer => queue'[u] = "pending"
    PROVE  /\ \A u \in UID : Good(u) => Good(u)'
           /\ \A x \in Msg : rows'[x] # 0 => At(rows'[x], x)
           /\ \A x \in Syncer : Passing(syncer'[x])
           /\ Sound => \A x \in Syncer : Covers(syncer'[x])
<1>1. \A x \in Msg : rows'[x] = IF x = m THEN 0 ELSE rows[x]
  BY DEF DeleteRows
<1>2. OnServer' = OnServer /\ \A u \in OnServer : u \in UID /\ server.box[u] \in Msg
  BY DEF OnServer, TypeOK, Server
<1>3. \A u \in UID : Good(u) => Good(u)'
  BY <1>1, <1>2 DEF Good
<1>4. \A x \in Msg : rows'[x] # 0 => At(rows'[x], x)
  BY <1>1 DEF BesideInv, Filed
<1>5. ASSUME NEW x \in Syncer
      PROVE  Passing(syncer'[x]) /\ (Sound => Covers(syncer'[x]))
  <2>1. PICK L : /\ L \subseteq syncer[x].listed
                 /\ syncer'[x] = [syncer[x] EXCEPT !.listed = L]
    BY DEF DeleteRows
  <2> QED BY <2>1, PassFacts, FewerListed
<1> QED BY <1>3, <1>4, <1>5

LEMMA EnqueueBeside ==
    ASSUME TypeOK, BesideInv, Steady, NEW s \in Syncer, Enqueue(s)
    PROVE  BesideInv'
<1> DEFINE me == syncer[s]
<1>0. resync = "done" /\ me.pc = "enqueue" /\ me \in SyncerState
  BY OneAtATime, PassFacts DEF Enqueue
<1>1. /\ UNCHANGED <<folder, server, rows, hand, resync, fresh, missed, torn>>
      /\ Sound' = Sound
  BY DEF Enqueue, history, Sound
<1>2. CASE Fault("write") /\ Becomes(s, Idle) /\ UNCHANGED queue
  <2>1. Sound => GoodTo(folder.last)
    BY DEF BesideInv, Settled
  <2> QED BY <1>0, <1>1, <1>2, <2>1, IdlePasses, ReadFrame
<1>3. ASSUME queue' = Enqueued(me.found), NEW top \in me.found, Found(s, top)
      PROVE  BesideInv'
  <2>1. PICK r : Becomes(s, r) /\ r = [me EXCEPT !.pc = "advance", !.found = {}, !.top = top]
    BY <1>3 DEF Found
  <2>2. /\ r.pc = "advance" /\ r.found = {} /\ r.top = top /\ r.held = me.held
        /\ r.listed = me.listed /\ r.end = me.end /\ r.last = me.last /\ r.pos = me.pos
    BY <1>0, <2>1 DEF SyncerState
  <2>3. Passing(r)
    BY <2>2, PassFacts DEF Passing
  <2>4. \A u \in UID : queue'[u] = IF u \in me.found /\ queue[u] # "done" THEN "pending"
                                   ELSE queue[u]
    BY <1>3 DEF Enqueued
  <2>5. OnServer' = OnServer
    BY <1>1 DEF OnServer
  <2>6. \A u \in UID : Good(u) => Good(u)'
    BY <1>1, <2>4, <2>5 DEF Good
  <2>7. ASSUME NEW x \in Syncer PROVE syncer'[x] = IF x = s THEN r ELSE syncer[x]
    BY <2>1 DEF TypeOK, Becomes
  <2>8. \A x \in Syncer : Passing(syncer'[x])
    BY <2>3, <2>7, PassFacts
  <2>9. \A u \in UID : queue'[u] # "absent" => u < server.next
    BY <2>4, PassFacts DEF Passing, BesideInv, Filed
  <2>10. ASSUME Sound PROVE Settled'
    <3>1. GoodTo(folder.last)'
      <4>1. PICK n : n = folder.last
        OBVIOUS
      <4>2. GoodTo(n)
        BY <2>10, <4>1, PassFacts DEF Settled
      <4>3. GoodTo(n)'
        BY <1>1, <2>6, <4>2 DEF GoodTo
      <4> QED BY <1>1, <4>1, <4>3 DEF GoodTo
    <3>2. \A u \in UID : queue'[u] = "done" => queue[u] = "done"
      BY <2>4
    <3> QED BY <2>6, <2>10, <3>1, <3>2, PassFacts DEF Settled
  <2>11. ASSUME Sound PROVE Covers(r)'
    <3>1. GoodTo(me.last) /\ top < server.next
      BY <1>3, <2>11, PassFacts DEF Covers, Passing
    <3>2. ASSUME NEW u \in UID, u <= top PROVE Good(u)'
      <4>1. CASE u <= me.last
        BY <2>6, <3>1, <4>1 DEF GoodTo
      <4>2. CASE u \notin OnServer
        BY <2>5, <4>2 DEF Good
      <4>3. CASE u \in OnServer /\ ~(u <= me.last)
        <5>1. me.last < u
          BY <1>0, <4>3, ConstantsAssumption DEF SyncerState, UID
        <5>2. u \in me.found
          BY <1>3, <3>2, <4>3, <5>1, PassFacts DEF Passing
        <5>3. CASE queue[u] = "done"
          <6>1. Good(u)
            BY <2>11, <5>3, PassFacts DEF Settled
          <6> QED BY <2>6, <6>1
        <5>4. CASE queue[u] # "done"
          BY <2>4, <2>5, <5>2, <5>4 DEF Good
        <5> QED BY <5>3, <5>4
      <4> QED BY <4>1, <4>2, <4>3
    <3>3. \A u \in UID : u <= me.last => Good(u)'
      BY <2>6, <3>1 DEF GoodTo
    <3> QED BY <1>1, <2>2, <3>1, <3>2, <3>3 DEF Covers, GoodTo
  <2>12. ASSUME Sound, NEW x \in Syncer PROVE Covers(syncer[x])'
    <3>1. CASE x = s
      BY <2>7, <2>11, <2>12, <3>1 DEF Covers
    <3>2. CASE x # s
      BY <1>1, <2>6, <2>7, <2>12, <3>2, PassFacts, CoversStay
    <3> QED BY <3>1, <3>2
  <2>13. Resetting'
    BY <1>0, <1>1 DEF Resetting
  <2>14. /\ \A m \in Msg : rows'[m] # 0 => At(rows'[m], m)
         /\ \A w \in Worker : \A t \in hand'[w] : Task(t)
    BY <1>1 DEF BesideInv, Filed
  <2> QED BY <1>1, <2>8, <2>9, <2>10, <2>12, <2>13, <2>14, WriteFrame
<1> QED BY <1>2, <1>3 DEF Enqueue

(* Good messages stay good, so the cursor and finished tasks stay covered. *)
LEMMA SettledStays ==
    ASSUME BesideInv, Sound, UNCHANGED server, folder'.last = folder.last,
           \A u \in UID : Good(u) => Good(u)',
           \A u \in UID : queue'[u] = "done" => queue[u] = "done" \/ Good(u)'
    PROVE  Settled'
<1>1. PICK n : n = folder.last
  OBVIOUS
<1>2. GoodTo(n)
  BY <1>1 DEF BesideInv, Settled
<1>3. GoodTo(n)'
  BY <1>2 DEF GoodTo
<1>4. GoodTo(folder.last)'
  BY <1>1, <1>3 DEF GoodTo
<1> QED BY <1>4 DEF BesideInv, Settled

LEMMA FullSaveBeside ==
    ASSUME TypeOK, BesideInv, Steady, NEW s \in Syncer, FullSave(s)
    PROVE  BesideInv'
<1> DEFINE me == syncer[s]
           r(pc, top) == [me EXCEPT !.pc = pc, !.top = top, !.batch = me.batch + 1, !.held = {}]
<1>0. resync = "done" /\ me.pc = "save" /\ me \in SyncerState
  BY OneAtATime, PassFacts DEF FullSave
<1>1. /\ UNCHANGED <<folder, server, queue, hand, resync, fresh, torn>>
      /\ Sound' = Sound
  BY DEF FullSave, Sound
<1>2. PICK e \in me.held, ok \in BOOLEAN, reported \in BOOLEAN :
         /\ IF ok THEN rows' = [rows EXCEPT ![e[2]] = e[1]] /\ UNCHANGED <<missed, faults>>
            ELSE Fault("ingest") /\ missed' = missed \cup {e[2]} /\ UNCHANGED rows
         /\ \E due \in BOOLEAN :
               Becomes(s, r(IF due THEN "checkpoint" ELSE "full",
                            IF reported THEN e[1] ELSE me.top))
  BY Zenon DEF FullSave
<1>3. /\ e[1] \in UID /\ e[2] \in Msg /\ e[1] = me.pos /\ e[1] # 0 /\ At(e[1], e[2])
      /\ me.pos \in Nat /\ UID \subseteq Nat /\ me.top \in Nat
  BY <1>0, <1>2, PassFacts, ConstantsAssumption DEF SyncerState, UID, Passing
<1>4. PICK pc \in {"checkpoint", "full"}, top \in {e[1], me.top} : Becomes(s, r(pc, top))
  BY <1>2
<1>5. PICK q : q = r(pc, top) /\ Becomes(s, q)
  BY <1>4
<1>6. /\ q.pc = pc /\ q.top = top /\ q.held = {} /\ q.found = me.found
      /\ q.listed = me.listed /\ q.end = me.end /\ q.last = me.last /\ q.pos = me.pos
  BY <1>0, <1>5 DEF SyncerState
<1> HIDE DEF r
<1>7. Passing(q)
  <2>1. top <= me.pos
    BY <1>0, <1>3, <1>4, PassFacts DEF Passing
  <2> QED BY <1>4, <1>6, <2>1, PassFacts DEF Passing
<1>8. /\ \A m \in Msg : rows'[m] = IF ok /\ m = e[2] THEN e[1] ELSE rows[m]
      /\ missed \subseteq missed' /\ (ok \/ e[2] \in missed')
  BY <1>2, <1>3 DEF TypeOK
<1>9. OnServer' = OnServer /\ \A u \in OnServer : server.box[u] \in Msg
  BY <1>1 DEF OnServer, TypeOK, Server
<1>10. \A u \in UID : Good(u) => Good(u)'
  BY <1>1, <1>3, <1>8, <1>9 DEF Good
<1>11. Good(e[1])'
  <2>1. e[1] \in OnServer => server.box[e[1]] = e[2]
    BY <1>3 DEF At
  <2> QED BY <1>1, <1>3, <1>8, <1>9, <2>1 DEF Good
<1>12. ASSUME NEW x \in Syncer PROVE syncer'[x] = IF x = s THEN q ELSE syncer[x]
  BY <1>5 DEF TypeOK, Becomes
<1>13. ASSUME Sound PROVE Covers(q)'
  <2>1. GoodTo(me.last) /\ GoodTo(me.pos - 1)
    BY <1>0, <1>13, PassFacts DEF Covers
  <2>2. ASSUME NEW u \in UID, u <= me.pos PROVE Good(u)'
    <3>1. u \in Nat /\ (u <= me.pos - 1 \/ u = e[1])
      BY <1>3, <2>2
    <3> QED BY <1>10, <1>11, <2>1, <3>1 DEF GoodTo
  <2>3. \A u \in UID : u <= me.last => Good(u)'
    BY <1>10, <2>1 DEF GoodTo
  <2>4. me.pos < server.next /\ me.last < server.next
    BY <1>3, <2>1 DEF At, GoodTo
  <2> QED BY <1>1, <1>4, <1>6, <2>2, <2>3, <2>4 DEF Covers, GoodTo
<1>14. ASSUME Sound, NEW x \in Syncer PROVE Covers(syncer[x])'
  <2>1. CASE x = s
    BY <1>12, <1>13, <1>14, <2>1 DEF Covers
  <2>2. CASE x # s
    BY <1>1, <1>10, <1>12, <1>14, <2>2, PassFacts, CoversStay
  <2> QED BY <2>1, <2>2
<1>15. \A x \in Syncer : Passing(syncer'[x])
  BY <1>7, <1>12, PassFacts
<1>16. Resetting'
  BY <1>0, <1>1 DEF Resetting
<1>17. \A m \in Msg : rows'[m] # 0 => At(rows'[m], m)
  BY <1>3, <1>8 DEF BesideInv, Filed
<1>18. /\ \A u \in UID : queue'[u] # "absent" => u < server.next
       /\ \A w \in Worker : \A t \in hand'[w] : Task(t)
  BY <1>1 DEF BesideInv, Filed
<1>19. Sound => Settled'
  BY <1>1, <1>10, SettledStays
<1> QED BY <1>1, <1>14, <1>15, <1>16, <1>17, <1>18, <1>19, WriteFrame

LEMMA DeleteBeside ==
    ASSUME TypeOK, BesideInv, Steady, NEW s \in Syncer, Delete(s)
    PROVE  BesideInv'
<1> DEFINE me == syncer[s]
<1>0. resync = "done" /\ me.pc = "delete" /\ me \in SyncerState
  BY OneAtATime, PassFacts DEF Delete
<1>1. /\ UNCHANGED <<folder, server, queue, hand, resync, fresh, missed, torn>>
      /\ Sound' = Sound
  BY DEF Delete, Sound, history
<1>2. Sound => GoodTo(folder.last)
  BY DEF BesideInv, Settled
<1>3. CASE Becomes(s, AfterReconcile(s)) /\ UNCHANGED rows
  BY <1>0, <1>1, <1>2, <1>3, AfterReconcileKnows, ReadFrame
<1>4. ASSUME NEW e \in me.listed, UNCHANGED rows,
             Becomes(s, [me EXCEPT !.listed = @ \ {e}])
      PROVE  BesideInv'
  <2> DEFINE r == [me EXCEPT !.listed = me.listed \ {e}]
  <2>1. Passing(r) /\ (Sound => Covers(r))
    BY <1>0, PassFacts, FewerListed
  <2>2. Becomes(s, r)
    BY <1>4
  <2> HIDE DEF r
  <2> QED BY <1>0, <1>1, <1>2, <1>4, <2>1, <2>2, ReadFrame
<1>5. ASSUME NEW e \in me.listed, DeleteRows({e[2]}) PROVE BesideInv'
  <2>1. e[2] \in Msg /\ At(e[1], e[2]) /\ e[1] \notin OnServer
    BY <1>0, PassFacts DEF SyncerState, Passing
  <2>2. \A v \in OnServer : server.box[v] # e[2]
    BY <2>1 DEF At
  <2>3. /\ \A u \in UID : Good(u) => Good(u)'
        /\ \A x \in Msg : rows'[x] # 0 => At(rows'[x], x)
        /\ \A x \in Syncer : Passing(syncer'[x])
        /\ Sound => \A x \in Syncer : Covers(syncer'[x])
    BY <1>1, <1>5, <2>1, <2>2, DeletedAreGone
  <2>4. Sound => \A x \in Syncer : Covers(syncer[x])'
    BY <1>1, <2>3, CoversStay
  <2>5. Sound => Settled'
    BY <1>1, <2>3, SettledStays
  <2>6. Resetting'
    BY <1>0, <1>1 DEF Resetting
  <2>7. /\ \A u \in UID : queue'[u] # "absent" => u < server.next
        /\ \A w \in Worker : \A t \in hand'[w] : Task(t)
    BY <1>1 DEF BesideInv, Filed
  <2> QED BY <1>1, <2>3, <2>4, <2>5, <2>6, <2>7, WriteFrame
<1> QED BY <1>3, <1>4, <1>5 DEF Delete

LEMMA PassBeside ==
    ASSUME TypeOK, BesideInv, Steady, NEW s \in Syncer, PassStep(s)
    PROVE  BesideInv'
BY ListBeside, SelectBeside, ValidityBeside, StampBeside, FullFetchBeside, FullSaveBeside,
   CursorBeside, FetchBeside, EnqueueBeside, ReconcileBeside, DeleteBeside, CheckBeside
   DEF PassStep

LEMMA TakeBeside ==
    ASSUME TypeOK, BesideInv, NEW w \in Worker, NEW u \in UID, Take(w, u)
    PROVE  BesideInv'
<1>0. resync = "done"
  <2>1. w \in Syncer
    BY DEF Syncer
  <2> QED BY <2>1, OneAtATime DEF Take
<1>1. /\ UNCHANGED <<folder, server, rows, queue, syncer, resync, fresh, missed, torn>>
      /\ Sound' = Sound
  BY DEF Take, Sound, history
<1> DEFINE t == [uid |-> u, msg |-> server.box[u]]
<1>2. Task(t)
  <2>1. u < server.next
    BY DEF Take, BesideInv, Filed
  <2>2. IF server.box[u] = NoMsg THEN u \notin OnServer ELSE At(u, server.box[u])
    BY DEF OnServer, BesideInv, Filed
  <2> QED BY <2>1, <2>2 DEF Task
<1>3. \A x \in Worker : \A y \in hand'[x] : Task(y)
  <2>1. \A x \in Worker : hand'[x] = IF x = w THEN {t} ELSE hand[x]
    BY DEF Take, TypeOK
  <2> HIDE DEF t
  <2> QED BY <1>2, <2>1 DEF BesideInv, Filed
<1>4. \A u1 \in UID : Good(u1) => Good(u1)'
  BY <1>1 DEF Good, OnServer
<1>5. \A x \in Syncer : syncer'[x] = syncer[x]
  BY <1>1
<1>6. Sound => Settled' /\ \A x \in Syncer : Covers(syncer[x])'
  BY <1>1, <1>4, <1>5, PassFacts, SettledStays, CoversStay
<1>7. Resetting'
  BY <1>0, <1>1 DEF Resetting
<1>8. /\ \A m \in Msg : rows'[m] # 0 => At(rows'[m], m)
      /\ \A u1 \in UID : queue'[u1] # "absent" => u1 < server.next
  BY <1>1 DEF BesideInv, Filed
<1>9. \A x \in Syncer : Passing(syncer'[x])
  BY <1>5, PassFacts
<1> QED BY <1>1, <1>3, <1>6, <1>7, <1>8, <1>9, WriteFrame

LEMMA CollectBeside ==
    ASSUME TypeOK, BesideInv, NEW u \in UID, Collect(u)
    PROVE  BesideInv'
<1>1. /\ UNCHANGED <<folder, server, rows, syncer, hand, resync, fresh, missed, torn>>
      /\ Sound' = Sound
  BY DEF Collect, Sound, history
<1>2. queue[u] = "done" /\ \A v \in UID : queue'[v] = IF v = u THEN "absent" ELSE queue[v]
  BY DEF Collect, TypeOK
<1>3. \A v \in UID : Good(v) => Good(v)'
  BY <1>1, <1>2 DEF Good, OnServer
<1>4. \A v \in UID : queue'[v] = "done" => queue[v] = "done"
  BY <1>2
<1>5. \A x \in Syncer : syncer'[x] = syncer[x]
  BY <1>1
<1>6. Sound => Settled' /\ \A x \in Syncer : Covers(syncer[x])'
  BY <1>1, <1>3, <1>4, <1>5, PassFacts, SettledStays, CoversStay
<1>7. Resetting'
  <2>1. ~(resync = "folder" /\ ~torn)
    BY <1>2 DEF BesideInv, Resetting, Emptied
  <2> QED BY <1>1, <2>1 DEF BesideInv, Resetting
<1>8. /\ \A m \in Msg : rows'[m] # 0 => At(rows'[m], m)
      /\ \A v \in UID : queue'[v] # "absent" => v < server.next
      /\ \A w \in Worker : \A t \in hand'[w] : Task(t)
  BY <1>1, <1>2 DEF BesideInv, Filed
<1>9. \A x \in Syncer : Passing(syncer'[x])
  BY <1>5, PassFacts
<1> QED BY <1>1, <1>6, <1>7, <1>8, <1>9, WriteFrame

LEMMA SettleBeside ==
    ASSUME TypeOK, BesideInv, NEW w \in Worker, Settle(w)
    PROVE  BesideInv'
<1>1. PICK t \in hand[w] :
         /\ IF t.msg # NoMsg
            THEN /\ rows' = [rows EXCEPT ![t.msg] = t.uid]
                 /\ folder' = [folder EXCEPT !.known = TRUE]
                 /\ UNCHANGED syncer
            ELSE /\ IF \E m \in Msg : rows[m] = t.uid
                    THEN \E m \in Msg : rows[m] = t.uid /\ DeleteRows({m})
                    ELSE UNCHANGED <<rows, syncer>>
                 /\ UNCHANGED folder
         /\ queue' = [queue EXCEPT ![t.uid] = IF @ = "pending" THEN "done" ELSE @]
  BY DEF Settle
<1>2. /\ UNCHANGED <<server, resync, fresh, missed, torn>> /\ Sound' = Sound
      /\ \A x \in Worker : hand'[x] = IF x = w THEN {} ELSE hand[x]
  BY DEF Settle, Sound, history, TypeOK
<1>3. t.uid \in UID /\ t.msg \in Msg \cup {NoMsg} /\ Task(t) /\ t.uid # 0
  BY ConstantsAssumption DEF TypeOK, BesideInv, Filed, UID
<1>4. Resetting'
  <2>1. resync = "done"
    BY DEF BesideInv, Resetting, Settle
  <2> QED BY <1>2, <2>1 DEF Resetting
<1>5. OnServer' = OnServer /\ \A u \in OnServer : u \in UID /\ server.box[u] \in Msg
  BY <1>2 DEF OnServer, TypeOK, Server
<1>6. \A u \in UID : queue'[u] = IF u = t.uid /\ queue[u] = "pending" THEN "done" ELSE queue[u]
  BY <1>1 DEF TypeOK
<1>7. folder'.last = folder.last
  BY <1>1 DEF TypeOK, Folder
<1>8. /\ \A u \in UID : queue'[u] # "absent" => u < server.next
      /\ \A x \in Worker : \A y \in hand'[x] : Task(y)
  BY <1>2, <1>6 DEF BesideInv, Filed
<1>9. CASE t.msg # NoMsg
  <2>1. \A m \in Msg : rows'[m] = IF m = t.msg THEN t.uid ELSE rows[m]
    BY <1>1, <1>3, <1>9 DEF TypeOK
  <2>2. At(t.uid, t.msg)
    BY <1>3, <1>9 DEF Task
  <2>3. Good(t.uid)'
    BY <1>2, <1>3, <1>5, <1>9, <2>1, <2>2 DEF Good, At
  <2>4. \A u \in UID : u # t.uid /\ Good(u) => Good(u)'
    BY <1>2, <1>3, <1>5, <1>6, <2>1 DEF Good
  <2>5. \A u \in UID : Good(u) => Good(u)'
    BY <2>3, <2>4
  <2>6. \A x \in Syncer : syncer'[x] = syncer[x]
    BY <1>1, <1>9
  <2>7. \A u \in UID : queue'[u] = "done" => queue[u] = "done" \/ Good(u)'
    BY <1>6, <2>3
  <2>8. Sound => Settled' /\ \A x \in Syncer : Covers(syncer[x])'
    BY <1>2, <1>7, <2>5, <2>6, <2>7, PassFacts, SettledStays, CoversStay
  <2>9. \A m \in Msg : rows'[m] # 0 => At(rows'[m], m)
    BY <2>1, <2>2 DEF BesideInv, Filed
  <2>10. \A x \in Syncer : Passing(syncer'[x])
    BY <2>6, PassFacts
  <2> QED BY <1>2, <1>4, <1>8, <2>8, <2>9, <2>10, WriteFrame
<1>10. CASE t.msg = NoMsg
  <2>1. t.uid \notin OnServer
    BY <1>3, <1>10 DEF Task
  <2>2. \A u \in UID : queue[u] = "pending" /\ u \in OnServer => queue'[u] = "pending"
    BY <1>6, <2>1
  <2>3. \A u \in UID : queue'[u] = "done" => queue[u] = "done" \/ Good(u)'
    BY <1>5, <1>6, <2>1 DEF Good
  <2>4. /\ \A u \in UID : Good(u) => Good(u)'
        /\ \A x \in Msg : rows'[x] # 0 => At(rows'[x], x)
        /\ \A x \in Syncer : Passing(syncer'[x])
        /\ Sound => \A x \in Syncer : Covers(syncer'[x])
    <3>1. CASE UNCHANGED <<rows, syncer>>
      <4>1. \A u \in UID : Good(u) => Good(u)'
        BY <1>2, <1>5, <2>2, <3>1 DEF Good
      <4>2. \A x \in Msg : rows'[x] # 0 => At(rows'[x], x)
        BY <3>1 DEF BesideInv, Filed
      <4>3. \A x \in Syncer : syncer'[x] = syncer[x]
        BY <3>1
      <4> QED BY <4>1, <4>2, <4>3, PassFacts
    <3>2. ASSUME NEW m \in Msg, rows[m] = t.uid, DeleteRows({m})
          PROVE  <2>4!:
      <4>1. At(t.uid, m)
        BY <1>3, <3>2 DEF BesideInv, Filed
      <4>2. \A v \in OnServer : server.box[v] # m
        BY <2>1, <4>1 DEF At
      <4> QED BY <1>2, <2>2, <3>2, <4>2, DeletedAreGone
    <3> QED BY <1>1, <1>10, <3>1, <3>2
  <2>5. Sound => Settled' /\ \A x \in Syncer : Covers(syncer[x])'
    BY <1>2, <1>7, <2>3, <2>4, SettledStays, CoversStay
  <2> QED BY <1>2, <1>4, <1>8, <2>4, <2>5, WriteFrame
<1> QED BY <1>9, <1>10

LEMMA ResyncBeside ==
    ASSUME TypeOK, BesideInv, Steady, ResyncAccount \/ ResetStep
    PROVE  BesideInv'
<1>i. Passing(Idle)
  BY IdlePasses
<1>1. CASE ResyncAccount
  <2>1. Priority = {}
    BY <1>1 DEF ResyncAccount, Fault, Steady
  <2>2. /\ \A x \in Syncer : syncer'[x] = Idle
        /\ \A w \in Worker : hand'[w] = {}
        /\ resync' = "rows"
        /\ UNCHANGED <<server, folder, rows, queue, fresh, missed, torn>>
    BY <1>1, <2>1 DEF ResyncAccount, history
  <2>3. Resetting' /\ ~Sound'
    BY <2>1, <2>2 DEF Resetting, Sound
  <2>4. /\ \A m \in Msg : rows'[m] # 0 => At(rows'[m], m)
        /\ \A u \in UID : queue'[u] # "absent" => u < server.next
        /\ \A w \in Worker : \A t \in hand'[w] : Task(t)
    BY <2>2 DEF BesideInv, Filed
  <2>5. \A x \in Syncer : Passing(syncer'[x])
    BY <1>i, <2>2
  <2> QED BY <2>2, <2>3, <2>4, <2>5, WriteFrame
<1>2. ASSUME resync # "done", UNCHANGED <<server, fresh, hand>>,
             \A x \in Syncer : syncer'[x] = Idle, Resetting',
             \A m \in Msg : rows'[m] \in {rows[m], 0},
             \A u \in UID : queue'[u] \in {queue[u], "absent"},
             ~Sound'
      PROVE  BesideInv'
  <2>1. /\ \A m \in Msg : rows'[m] # 0 => At(rows'[m], m)
        /\ \A u \in UID : queue'[u] # "absent" => u < server.next
        /\ \A w \in Worker : \A t \in hand'[w] : Task(t)
    BY <1>2 DEF BesideInv, Filed
  <2> QED BY <1>i, <1>2, <2>1, WriteFrame
<1>3. ASSUME resync # "done"
      PROVE  /\ Priority = {}
             /\ \A s \in Syncer : syncer[s] = Idle
             /\ \A w \in Worker : hand[w] = {}
  BY <1>3 DEF BesideInv, Resetting
<1>4. CASE ResetRows
  <2>1. ASSUME NEW x \in Syncer PROVE syncer'[x] = Idle
    <3>1. /\ syncer'[x] = [syncer[x] EXCEPT !.listed = {e \in @ : e[2] \notin Msg}]
          /\ syncer[x] = Idle
      BY <1>3, <1>4 DEF ResetRows, DeleteRows
    <3>2. {e \in Idle.listed : e[2] \notin Msg} = {}
      BY DEF Idle
    <3>3. [Idle EXCEPT !.listed = {}] = Idle
      BY DEF Idle
    <3> QED BY <3>1, <3>2, <3>3
  <2>2. /\ resync = "rows" /\ resync' = "queue"
        /\ UNCHANGED <<server, folder, queue, hand, fresh, missed, torn>>
        /\ \A m \in Msg : rows'[m] = 0
    BY <1>4 DEF ResetRows, DeleteRows, history
  <2>3. Resetting'
    BY <1>3, <2>1, <2>2 DEF Resetting
  <2> QED BY <1>2, <2>1, <2>2, <2>3 DEF Sound
<1>5. CASE ResetQueue
  <2>1. /\ resync = "queue" /\ resync' = "folder" /\ queue' = Emptied
        /\ UNCHANGED <<server, folder, rows, syncer, hand, fresh, missed, torn>>
    BY <1>5 DEF ResetQueue, history
  <2>2. Resetting'
    BY <1>3, <2>1 DEF Resetting, Emptied
  <2>3. /\ \A u \in UID : queue'[u] = "absent"
        /\ \A x \in Syncer : syncer'[x] = Idle
    BY <1>3, <2>1 DEF Emptied
  <2> QED BY <1>2, <2>1, <2>2, <2>3 DEF Sound
<1>6. CASE CutReset
  <2>1. /\ resync # "done" /\ resync' = "done" /\ torn'
        /\ UNCHANGED <<server, folder, rows, queue, syncer, hand, fresh, missed>>
    BY <1>6 DEF CutReset
  <2>2. Resetting' /\ \A x \in Syncer : syncer'[x] = Idle
    BY <1>3, <2>1 DEF Resetting
  <2> QED BY <1>2, <2>1, <2>2 DEF Sound
<1>7. CASE ResetFolder
  <2>1. /\ resync = "folder" /\ resync' = "done" /\ folder'.last = 0
        /\ UNCHANGED <<server, rows, queue, syncer, hand, fresh, missed, torn>>
    BY <1>7 DEF ResetFolder, history, TypeOK, Folder
  <2>2. Resetting' /\ \A x \in Syncer : syncer'[x] = Idle
    BY <1>3, <2>1 DEF Resetting
  <2>3. /\ \A m \in Msg : rows'[m] # 0 => At(rows'[m], m)
        /\ \A u \in UID : queue'[u] # "absent" => u < server.next
        /\ \A w \in Worker : \A t \in hand'[w] : Task(t)
    BY <2>1 DEF BesideInv, Filed
  <2>4. 0 < server'.next /\ \A u \in UID : ~(u <= 0)
    BY <2>1, ConstantsAssumption DEF TypeOK, Server, UID
  <2>5. Covers(Idle)'
    BY <2>4 DEF Covers, GoodTo, Idle
  <2>6. \A x \in Syncer : Covers(syncer[x])'
    BY <2>2, <2>5 DEF Covers
  <2>7. ASSUME ~torn PROVE Settled'
    <3>1. \A u \in UID : queue'[u] # "done"
      BY <2>1, <2>7 DEF BesideInv, Resetting, Emptied
    <3> QED BY <2>1, <2>4, <3>1 DEF Settled, GoodTo
  <2>8. Sound' => Settled' /\ \A x \in Syncer : Covers(syncer[x])'
    BY <2>1, <2>6, <2>7 DEF Sound
  <2>9. \A x \in Syncer : Passing(syncer'[x])
    BY <1>i, <2>2
  <2> QED BY <2>1, <2>2, <2>3, <2>8, <2>9, WriteFrame
<1> QED BY <1>1, <1>4, <1>5, <1>6, <1>7 DEF ResetStep

(* The server never gives a UID it has given before.                       *)
LEMMA ServerFrame ==
    ASSUME TypeOK, BesideInv, server'.validity = server.validity,
           server.next <= server'.next, server'.next \in Nat,
           UNCHANGED <<folder, rows, queue, syncer, hand, resync, missed, torn>>,
           \A u \in UID : u < server.next /\ u \in OnServer' =>
               u \in OnServer /\ server'.box[u] = server.box[u],
           \A u \in UID : \A m : At(u, m) => At(u, m)',
           \A u \in OnServer' : At(u, server.box[u])'
    PROVE  BesideInv'
<1>1. \A u \in UID : u < server.next => u < server'.next
  BY ConstantsAssumption DEF TypeOK, Server, UID
<1>2. ASSUME NEW u \in UID, u < server.next, Good(u) PROVE Good(u)'
  BY <1>2 DEF Good
<1>3. ASSUME NEW n \in Int, GoodTo(n) PROVE GoodTo(n)'
  <2>1. n < server.next /\ server.next \in Nat /\ UID \subseteq Nat
    BY <1>3, ConstantsAssumption DEF GoodTo, TypeOK, Server, UID
  <2>2. ASSUME NEW u \in UID, u <= n PROVE u < server.next
    <3>1. u \in Int /\ server.next \in Int
      BY <2>1
    <3> QED BY <1>3, <2>1, <2>2, <3>1
  <2>3. n < server'.next
    BY <1>3, <2>1
  <2> QED BY <1>2, <1>3, <2>2, <2>3 DEF GoodTo
<1>4. Filed'
  <2>1. ASSUME NEW m \in Msg, rows[m] # 0 PROVE At(rows[m], m)'
    <3>1. PICK u \in UID : u = rows[m]
      BY <2>1, ConstantsAssumption DEF TypeOK, UID
    <3>2. At(u, m)
      BY <2>1, <3>1 DEF BesideInv, Filed
    <3>3. At(u, m)'
      BY <3>2
    <3> QED BY <3>1, <3>3 DEF At
  <2>2. \A w \in Worker : \A t \in hand'[w] : Task(t)'
    <3>1. ASSUME NEW w \in Worker, NEW t \in hand[w] PROVE Task(t)'
      <4>1. t.uid \in UID /\ Task(t)
        BY DEF TypeOK, BesideInv, Filed
      <4> QED BY <1>1, <4>1 DEF Task
    <3> QED BY <3>1
  <2> QED BY <1>1, <2>1, <2>2 DEF BesideInv, Filed
<1>5. Resetting'
  BY DEF BesideInv, Resetting
<1>6. ASSUME NEW x \in Syncer PROVE Passing(syncer[x])'
  <2>1. PICK q : q = syncer[x]
    OBVIOUS
  <2>2. Passing(q) /\ q \in SyncerState
    BY <2>1, PassFacts
  <2>3. q.end < server'.next
    BY <2>2, ConstantsAssumption DEF Passing, SyncerState, TypeOK, Server
  <2>4. \A e \in q.held \cup q.listed : At(e[1], e[2])'
    <3>1. \A e \in q.held \cup q.listed : e[1] \in UID /\ At(e[1], e[2])
      BY <2>2 DEF Passing, SyncerState
    <3> QED BY <3>1
  <2>5. \A v \in q.found : v \in UID /\ v < server.next
    BY <2>2 DEF Passing, SyncerState
  <2>6. \A v \in q.found : v < server'.next
    BY <1>1, <2>5
  <2>7. ASSUME NEW e \in q.listed, q.pc = "delete" PROVE e[1] \notin OnServer'
    <3>1. e[1] \in UID /\ At(e[1], e[2]) /\ e[1] \notin OnServer
      BY <2>2, <2>7 DEF Passing, SyncerState
    <3> QED BY <3>1 DEF At
  <2>8. ASSUME NEW v \in q.found, NEW u \in OnServer', q.last < u, u <= v
        PROVE  u \in q.found
    <3>1. u \in UID /\ u < server.next
      BY <2>5, <2>8, ConstantsAssumption DEF OnServer, UID, TypeOK, Server
    <3> QED BY <2>2, <2>8, <3>1 DEF Passing
  <2>9. Passing(q)'
    BY <2>2, <2>3, <2>4, <2>6, <2>7, <2>8 DEF Passing
  <2> QED BY <2>1, <2>9 DEF Passing
<1>7. ASSUME Sound, NEW x \in Syncer PROVE Covers(syncer[x])'
  <2>1. PICK q : q = syncer[x]
    OBVIOUS
  <2>2. Covers(q) /\ q \in SyncerState
    BY <1>7, <2>1, PassFacts
  <2>3. q.last \in Int /\ q.pos \in Int /\ q.pos - 1 \in Int /\ q.top \in Int
    BY <2>2, ConstantsAssumption DEF SyncerState
  <2>4. Covers(q)'
    BY <1>3, <2>2, <2>3 DEF Covers
  <2> QED BY <2>1, <2>4 DEF Covers
<1>8. ASSUME Sound PROVE Settled'
  <2>1. PICK n : n = folder.last
    OBVIOUS
  <2>2. n \in Int /\ GoodTo(n)
    BY <1>8, <2>1, ConstantsAssumption, PassFacts DEF TypeOK, Folder, Settled, BesideInv
  <2>3. GoodTo(n)'
    BY <1>3, <2>2
  <2>4. GoodTo(folder.last)'
    BY <2>1, <2>3 DEF GoodTo
  <2>5. \A u \in UID : queue[u] = "done" => u < server.next /\ Good(u)
    BY <1>8 DEF BesideInv, Settled, Filed
  <2> QED BY <1>2, <2>4, <2>5 DEF Settled
<1> QED BY <1>4, <1>5, <1>6, <1>7, <1>8 DEF BesideInv, Sound

LEMMA ServerBeside ==
    ASSUME TypeOK, TypeOK', BesideInv, Steady,
           \/ \E m \in Msg : Deliver(m)
           \/ \E u \in UID : Expunge(u)
           \/ Renumber
    PROVE  BesideInv'
<1>b. /\ server.box \in [UID -> Msg \cup {NoMsg}] /\ server'.box \in [UID -> Msg \cup {NoMsg}]
      /\ server.next \in Nat /\ server'.next \in Nat /\ UID \subseteq Nat
  BY ConstantsAssumption DEF TypeOK, Server, UID
<1>1. ~Renumber
  BY DEF Renumber, Steady, BesideInv, Filed
<1>2. ASSUME NEW m \in Msg, Deliver(m) PROVE BesideInv'
  <2>1. /\ m \in fresh /\ \A u \in UID : server.box[u] # m
        /\ server' = [server EXCEPT !.box[server.next] = m, !.next = @ + 1]
        /\ fresh' = fresh \ {m}
        /\ UNCHANGED <<folder, rows, queue, syncer, hand, resync, missed, torn>>
    BY <1>2 DEF Deliver, Steady
  <2>n. server.next \in UID
    <3>1. server.next <= MaxUID
      BY <1>2 DEF Deliver
    <3>2. server.next \in 1 .. MaxUID + 1 /\ MaxUID \in Nat
      BY ConstantsAssumption DEF TypeOK, Server
    <3> QED BY <3>1, <3>2 DEF UID
  <2>2. /\ server'.next = server.next + 1 /\ server'.validity = server.validity
        /\ \A u \in UID : server'.box[u] = IF u = server.next THEN m ELSE server.box[u]
    BY <2>1, <1>b DEF TypeOK, Server
  <2>3. OnServer' = OnServer \cup {server.next}
    BY <2>n, <2>2, ConstantsAssumption DEF OnServer
  <2>4. ASSUME NEW u \in UID, NEW x, At(u, x) PROVE At(u, x)'
    <3>1. u < server.next /\ x \notin fresh /\ x # m
      BY <2>1, <2>4 DEF At
    <3>2. u < server'.next /\ u # server.next
      BY <1>b, <2>2, <2>4, <3>1
    <3>3. ASSUME NEW v \in OnServer' PROVE server'.box[v] = x <=> v = u
      <4>1. CASE v = server.next
        BY <2>n, <2>2, <3>1, <3>2, <4>1
      <4>2. CASE v # server.next
        <5>1. v \in OnServer /\ server'.box[v] = server.box[v]
          BY <2>2, <2>3, <4>2 DEF OnServer
        <5> QED BY <2>4, <5>1 DEF At
      <4> QED BY <4>1, <4>2
    <3> QED BY <2>1, <3>1, <3>2, <3>3 DEF At
  <2>5. ASSUME NEW u \in OnServer' PROVE At(u, server.box[u])'
    <3>1. CASE u = server.next
      <4>1. server'.box[u] = m
        BY <2>n, <2>2, <3>1
      <4>2. \A v \in OnServer' : server'.box[v] = m <=> v = u
        BY <2>1, <2>2, <2>3, <3>1, <4>1 DEF OnServer
      <4>3. u < server'.next
        BY <1>b, <2>2, <3>1
      <4> QED BY <2>1, <4>1, <4>2, <4>3 DEF At
    <3>2. CASE u # server.next
      <4>1. u \in OnServer /\ u \in UID /\ server'.box[u] = server.box[u]
        BY <2>2, <2>3, <3>2 DEF OnServer
      <4>2. PICK x : x = server.box[u]
        OBVIOUS
      <4>3. At(u, x)
        BY <4>1, <4>2 DEF BesideInv, Filed
      <4>4. At(u, x)'
        BY <2>4, <4>1, <4>3
      <4> QED BY <4>1, <4>2, <4>4 DEF At
    <3> QED BY <3>1, <3>2
  <2>6. \A u \in UID : u < server.next /\ u \in OnServer' =>
            u \in OnServer /\ server'.box[u] = server.box[u]
    BY <1>b, <2>2, <2>3
  <2>7. server.next <= server'.next
    BY <1>b, <2>2
  <2> QED BY <1>b, <2>1, <2>2, <2>4, <2>5, <2>6, <2>7, ServerFrame
<1>3. ASSUME NEW u \in UID, Expunge(u) PROVE BesideInv'
  <2>1. /\ u \in OnServer /\ server' = [server EXCEPT !.box[u] = NoMsg]
        /\ UNCHANGED <<folder, rows, queue, syncer, hand, resync, fresh, missed, torn>>
    BY <1>3 DEF Expunge, history
  <2>2. /\ server'.next = server.next /\ server'.validity = server.validity
        /\ \A v \in UID : server'.box[v] = IF v = u THEN NoMsg ELSE server.box[v]
    BY <2>1, <1>b DEF TypeOK, Server
  <2>3. \A v \in OnServer' : v \in OnServer /\ v \in UID /\ server'.box[v] = server.box[v]
    BY <2>2 DEF OnServer
  <2>4. \A v \in UID : \A x : At(v, x) => At(v, x)'
    BY <2>1, <2>2, <2>3 DEF At
  <2>5. ASSUME NEW v \in OnServer' PROVE At(v, server.box[v])'
    <3>1. PICK x : x = server.box[v]
      OBVIOUS
    <3>2. At(v, x)
      BY <2>3, <3>1 DEF BesideInv, Filed
    <3>3. At(v, x)'
      BY <2>3, <2>4, <3>2
    <3> QED BY <2>3, <3>1, <3>3 DEF At
  <2>6. server.next <= server'.next
    BY <1>b, <2>2
  <2> QED BY <1>b, <2>1, <2>2, <2>3, <2>4, <2>5, <2>6, ServerFrame
<1> QED BY <1>1, <1>2, <1>3

(* The cursor passes over no message, whatever syncers run beside each     *)
(* other with cursors they read long ago, and whatever fails, as long as   *)
(* the folder keeps its UIDVALIDITY and its messages do not come back, and *)
(* priority checks meet no reset of the account.                           *)
THEOREM CursorCoversBeside ==
    ASSUME Steady
    PROVE  Spec => []CursorCovers
<1>1. Init => BesideInv
  BY BesideInit
<1>2. TypeOK /\ TypeOK' /\ BesideInv /\ [Next]_vars => BesideInv'
  <2> SUFFICES ASSUME TypeOK, TypeOK', BesideInv, [Next]_vars PROVE BesideInv'
    OBVIOUS
  <2>1. ASSUME NEW s \in Syncer, PassStep(s) PROVE BesideInv'
    BY <2>1, PassBeside
  <2>2. ASSUME NEW w \in Worker, ConsumerStep(w) PROVE BesideInv'
    BY <2>2, TakeBeside, SettleBeside DEF ConsumerStep
  <2>3. ASSUME NEW u \in UID, Collect(u) PROVE BesideInv'
    BY <2>3, CollectBeside
  <2>4. CASE ResyncAccount \/ ResetStep
    BY <2>4, ResyncBeside
  <2>5. CASE \/ \E m \in Msg : Deliver(m)
             \/ \E u \in UID : Expunge(u)
             \/ Renumber
    BY <2>5, ServerBeside
  <2>6. CASE UNCHANGED vars
    BY <2>6 DEF vars, history, BesideInv, Filed, Resetting, Settled, Passing, Covers,
                GoodTo, Good, At, Task, Sound, OnServer
  <2> QED BY <2>1, <2>2, <2>3, <2>4, <2>5, <2>6 DEF Next
<1>3. TypeOK /\ BesideInv => CursorCovers
  <2> SUFFICES ASSUME TypeOK, BesideInv, AtRest, ~torn,
                      NEW u \in OnServer, u <= folder.last
               PROVE  \/ rows[server.box[u]] # 0
                      \/ queue[u] = "pending"
                      \/ server.box[u] \in missed
    BY DEF CursorCovers
  <2>1. Sound /\ u \in UID
    BY DEF AtRest, Sound, OnServer
  <2> QED BY <2>1 DEF BesideInv, Settled, GoodTo, Good
<1> QED BY <1>1, <1>2, <1>3, FolderTypeCorrect, PTL DEF Spec

------------------------------------------------------------------------------
(* One worker alone.  Then the cursor passes over no message under every   *)
(* hazard: a pass compares UIDVALIDITY with what the folder row says, so   *)
(* that its UIDs, the cursor and the tasks mean the same messages whenever *)
(* the row has the validity of the server, and otherwise a reset comes     *)
(* before anything else is done.                                           *)

(* A message that needs no pass any more.                                  *)
Kept(u) == u \in OnServer => \/ rows[server.box[u]] = u
                             \/ queue[u] = "pending"
                             \/ server.box[u] \in missed

(* UIDs a pass with the progress r has seen to.                            *)
Passed(r, u) ==
    \/ r.pc \in {"fetch", "enqueue"} /\ u <= r.last
    \/ r.pc = "save" /\ u < r.pos
    \/ r.pc \in {"full", "checkpoint"} /\ u <= r.pos
    \/ r.pc = "advance" /\ u <= r.top

Promised(r, u) == u <= folder.last \/ queue[u] = "done" \/ Passed(r, u)

(* u, which had the message m, is the only UID of m that is promised.      *)
Sole(r, u, m) ==
    /\ u < server.next
    /\ u \in OnServer => server.box[u] = m
    /\ \A v \in OnServer : server.box[v] = m /\ Promised(r, v) => v = u

(* The row of the folder is about the UIDs the server uses.                *)
Current == folder.validity = server.validity

Apart ==
    /\ \A u, v \in OnServer : server.box[u] = server.box[v] => u = v
    /\ \A u \in OnServer : u < server.next
    /\ folder.validity <= server.validity
    /\ ~folder.known => folder.last = 0 /\ folder.validity = 0

Paused(w) ==
    /\ hand[w] # {} => syncer[w].pc = "idle"
    /\ resync # "done" => syncer[w].pc = "idle" /\ hand[w] = {}
    /\ resync = "folder" /\ ~torn => queue = Emptied

Progress(r) ==
    /\ r.pc \in {"select", "validity", "clear", "purge", "zero", "stamp"} =>
           r.pos = 0 /\ r.top = 0 /\ r.found = {}
    /\ r.pc \in {"clear", "purge", "zero", "stamp", "checkpoint"} => r.id
    /\ r.pc \in {"full", "save", "checkpoint"} => r.top <= r.pos
    /\ r.pc # "find"
    /\ r.pc # "save" => r.held = {}
    /\ \A e \in r.held : e[1] = r.pos
    /\ r.id => folder.known
    /\ r.pc \notin {"idle", "select"} =>
           folder.validity <= r.session /\ r.session <= server.validity /\ r.session # 0
    /\ r.pc \notin {"idle", "select"} /\ r.session = server.validity => r.end < server.next
    /\ r.pc \in {"search", "delete"} => \A e \in r.listed : rows[e[2]] = e[1]

(* What a pass has read still holds, and a reset goes through before the   *)
(* validity is written.                                                    *)
Reads(r) ==
    /\ r.pc \in {"select", "validity"} =>
           IF r.id THEN r.stored = folder.validity /\ r.last = folder.last ELSE r.last = 0
    /\ r.pc \in {"clear", "purge", "zero"} =>
           r.last = 0 /\ folder.validity < r.session /\ folder.validity # 0
    /\ r.pc \in {"purge", "zero"} => queue = Emptied
    /\ r.pc = "stamp" => /\ r.last = folder.last
                         /\ folder.validity = r.session \/ (folder.last = 0 /\ queue = Emptied)
    /\ r.pc \in {"fetch", "enqueue"} => r.id /\ r.last = folder.last
    /\ r.pc \in {"fetch", "enqueue", "full", "save", "checkpoint", "advance"} /\ r.id =>
           folder.validity = r.session

Unstamped(w) == folder.validity = 0 => folder.last = 0 /\ queue = Emptied /\ hand[w] = {}

Core(r) ==
    /\ \A u \in UID : Promised(r, u) => u < server.next /\ Kept(u)
    /\ \A e \in r.held : Sole(r, e[1], e[2])
    /\ r.pc = "delete" => \A e \in r.listed : e[1] \in OnServer => ~Promised(r, e[1])
    /\ \A v \in r.found : v < server.next
    /\ \A v \in r.found : \A u \in OnServer : r.last < u /\ u <= v => u \in r.found

Tasks(r, w) ==
    /\ \A u \in UID : queue[u] # "absent" => u < server.next
    /\ \A t \in hand[w] :
           /\ t.uid < server.next
           /\ IF t.msg = NoMsg THEN t.uid \notin OnServer ELSE Sole(r, t.uid, t.msg)

AloneInv(w) ==
    /\ Apart
    /\ Paused(w)
    /\ Progress(syncer[w])
    /\ Sound => /\ Reads(syncer[w])
                /\ Unstamped(w)
                /\ Current => Core(syncer[w]) /\ Tasks(syncer[w], w)

Alone(w) == Worker = {w} /\ Priority = {} /\ Checker = {}

LEMMA AloneFacts ==
    ASSUME NEW w, Alone(w), TypeOK, AloneInv(w)
    PROVE  /\ w \in Syncer /\ w \in Worker /\ w \notin Checker /\ w \notin Priority
           /\ \A s \in Syncer : s = w
           /\ syncer[w] \in SyncerState
           /\ Progress(syncer[w])
           /\ Sound => Reads(syncer[w]) /\ (Current => Core(syncer[w]) /\ Tasks(syncer[w], w))
           /\ Apart /\ Paused(w) /\ (Sound => Unstamped(w))
           /\ UID \subseteq Nat /\ OnServer \subseteq UID
           /\ folder.last \in Nat /\ folder.validity \in Nat /\ folder \in Folder
           /\ server.next \in Nat \ {0} /\ server.validity \in Nat \ {0}
BY ConstantsAssumption DEF Alone, AloneInv, TypeOK, Syncer, Folder, Server, UID, OnServer

(* A pass under way, or allowed to begin: no task in hand, no reset.       *)
LEMMA AloneActs ==
    ASSUME NEW w, Alone(w), TypeOK, AloneInv(w), syncer[w].pc # "idle"
    PROVE  resync = "done" /\ hand[w] = {}
BY DEF AloneInv, Paused

(* A step of the pass that only reads.                                     *)
LEMMA AloneReads ==
    ASSUME NEW w, Alone(w), TypeOK, AloneInv(w), NEW r, Becomes(w, r),
           UNCHANGED <<server, rows, queue, hand, resync, missed>>, torn => torn',
           folder'.last = folder.last, folder'.validity = folder.validity,
           folder.known => folder'.known,
           resync = "done", hand[w] = {},
           Progress(r), Sound => Reads(r), Sound /\ Current => Core(r)
    PROVE  AloneInv(w)'
<1>1. syncer'[w] = r
  BY AloneFacts DEF Becomes, TypeOK
<1>2. OnServer' = OnServer /\ (Sound' => Sound) /\ (Current' <=> Current)
  BY DEF OnServer, Sound, Current
<1>3. \A u \in UID : Kept(u) => Kept(u)'
  BY <1>2 DEF Kept
<1>4. Apart' /\ Paused(w)'
  BY <1>2, AloneFacts DEF Apart, Paused
<1>5. Progress(syncer[w])'
  BY <1>1 DEF Progress
<1>6. Sound' => Reads(syncer[w])' /\ Unstamped(w)'
  BY <1>1, <1>2, AloneFacts DEF Reads, Unstamped
<1>7. \A u : Promised(r, u)' <=> Promised(r, u)
  BY DEF Promised, Passed
<1>8. Sound /\ Current => Core(r)'
  BY <1>2, <1>3, <1>7 DEF Core, Sole
<1>9. Sound' /\ Current' => Core(syncer[w])'
  BY <1>1, <1>2, <1>8 DEF Core, Promised, Passed, Sole
<1>10. Sound' /\ Current' => Tasks(syncer[w], w)'
  BY <1>2, AloneFacts DEF Tasks
<1> QED BY <1>4, <1>5, <1>6, <1>9, <1>10 DEF AloneInv

LEMMA IdleAlone ==
    ASSUME NEW w, Alone(w), TypeOK, AloneInv(w)
    PROVE  Progress(Idle) /\ Reads(Idle) /\ (Sound /\ Current => Core(Idle))
<1>1. \A u : ~Passed(Idle, u)
  BY DEF Passed, Idle
<1>2. Progress(Idle) /\ Reads(Idle)
  BY DEF Progress, Reads, Idle
<1>3. Sound /\ Current => \A u \in UID : Promised(Idle, u) => u < server.next /\ Kept(u)
  BY <1>1, AloneFacts DEF Promised, Core
<1> QED BY <1>2, <1>3 DEF Core, Idle

LEMMA ListAlone ==
    ASSUME NEW w, Alone(w), TypeOK, AloneInv(w), List(w)
    PROVE  AloneInv(w)'
<1>0. resync = "done" /\ hand[w] = {}
  BY AloneFacts DEF List, Allowed
<1>1. PICK r : Becomes(w, r) /\ r \in {[Idle EXCEPT !.pc = "select", !.id = folder.known,
                                        !.last = folder.last, !.stored = folder.validity],
                                       [Idle EXCEPT !.pc = "select"]}
  BY DEF List
<1>2. /\ r.pc = "select" /\ r.held = {} /\ r.listed = {} /\ r.found = {}
      /\ r.end = 0 /\ r.pos = 0 /\ r.top = 0
      /\ \/ r.id = folder.known /\ r.last = folder.last /\ r.stored = folder.validity
         \/ r.id = FALSE /\ r.last = 0
  BY <1>1 DEF Idle
<1>3. Progress(r)
  BY <1>2 DEF Progress
<1>4. Reads(r)
  BY <1>2, AloneFacts DEF Reads, Apart
<1>5. Sound /\ Current => Core(r)
  <2>1. \A u : ~Passed(r, u)
    BY <1>2 DEF Passed
  <2>2. Sound /\ Current => \A u \in UID : Promised(r, u) => u < server.next /\ Kept(u)
    BY <2>1, AloneFacts DEF Promised, Core
  <2> QED BY <1>2, <2>2 DEF Core
<1>6. UNCHANGED <<folder, server, rows, queue, hand, resync, missed, torn>>
  BY DEF List, history
<1> QED BY <1>0, <1>1, <1>3, <1>4, <1>5, <1>6, AloneReads

LEMMA SelectAlone ==
    ASSUME NEW w, Alone(w), TypeOK, AloneInv(w), Select(w)
    PROVE  AloneInv(w)'
<1> DEFINE n == Cardinality(OnServer)
           me == syncer[w]
           r == [syncer[w] EXCEPT !.pc = IF n = 0 THEN "reconcile" ELSE "validity",
                                  !.id = @ \/ (n = 0 /\ folder.known),
                                  !.session = server.validity,
                                  !.end = LastUID, !.count = n]
<1>0. me.pc = "select" /\ resync = "done" /\ hand[w] = {} /\ me \in SyncerState
  BY AloneActs, AloneFacts DEF Select
<1>1. Becomes(w, r)
  BY Zenon DEF Select
<1>2. /\ r.pc \in {"reconcile", "validity"} /\ r.held = me.held
      /\ r.listed = me.listed /\ r.found = me.found
      /\ r.end = LastUID /\ r.pos = me.pos /\ r.top = me.top
      /\ r.last = me.last /\ r.session = server.validity /\ r.stored = me.stored
      /\ r.pc = "validity" => r.id = me.id
      /\ r.id => me.id \/ folder.known
  BY <1>0 DEF SyncerState
<1> HIDE DEF r
<1>3. Progress(r)
  <2>1. LastUID < server.next
    BY AloneFacts DEF LastUID
  <2> QED BY <1>0, <1>2, <2>1, AloneFacts DEF Progress, Apart
<1>4. Sound => Reads(r)
  BY <1>0, <1>2, AloneFacts DEF Reads
<1>5. Sound /\ Current => Core(r)
  <2>1. \A u : ~Passed(r, u)
    BY <1>2 DEF Passed
  <2>3. Sound /\ Current => \A u \in UID : Promised(r, u) => u < server.next /\ Kept(u)
    BY <2>1, AloneFacts DEF Promised, Core
  <2> QED BY <1>0, <1>2, <2>3, AloneFacts DEF Core, Progress
<1>6. /\ UNCHANGED <<server, rows, queue, hand, resync, missed, torn>>
      /\ folder'.last = folder.last /\ folder'.validity = folder.validity
      /\ folder.known => folder'.known
  <2>1. folder' = folder \/ folder' = [folder EXCEPT !.known = TRUE]
    BY Zenon DEF Select
  <2> QED BY <2>1, AloneFacts DEF Select, history, Folder
<1> QED BY <1>0, <1>1, <1>3, <1>4, <1>5, <1>6, AloneReads

LEMMA ValidityAlone ==
    ASSUME NEW w, Alone(w), TypeOK, AloneInv(w), Validity(w)
    PROVE  AloneInv(w)'
<1> DEFINE me == syncer[w]
           last == IF me.id THEN me.last ELSE folder.last
           stored == IF me.id THEN me.stored ELSE folder.validity
<1>0. me.pc = "validity" /\ resync = "done" /\ hand[w] = {} /\ me \in SyncerState
  BY AloneActs, AloneFacts DEF Validity
<1>1. PICK r : /\ Becomes(w, r)
               /\ \/ /\ me.id \/ folder.known
                     /\ Mismatch(stored, me.session)
                     /\ r = [me EXCEPT !.pc = "clear", !.id = TRUE, !.last = 0]
                  \/ /\ me.id \/ folder.known
                     /\ ~Mismatch(stored, me.session)
                     /\ r = [me EXCEPT !.pc = "stamp", !.id = TRUE, !.last = last]
                  \/ ~me.id /\ r = [me EXCEPT !.pc = Way(me.last, me.end)]
  BY Zenon DEF Validity, Goto
<1>2. /\ r.held = me.held /\ r.listed = me.listed /\ r.found = me.found
      /\ r.end = me.end /\ r.pos = me.pos /\ r.top = me.top /\ r.session = me.session
      /\ \/ /\ me.id \/ folder.known
            /\ Mismatch(stored, me.session)
            /\ r.pc = "clear" /\ r.id /\ r.last = 0
         \/ /\ me.id \/ folder.known
            /\ ~Mismatch(stored, me.session)
            /\ r.pc = "stamp" /\ r.id /\ r.last = last
         \/ ~me.id /\ ~r.id /\ r.last = me.last /\ r.pc = Way(me.last, me.end)
  BY <1>0, <1>1 DEF SyncerState
<1>w. /\ Way(me.last, me.end) \in {"reconcile", "full", "fetch"}
      /\ Sound /\ ~me.id => Way(me.last, me.end) # "fetch"
  BY <1>0, AloneFacts DEF Way, Reads
<1>3. Progress(r)
  BY <1>0, <1>2, <1>w, AloneFacts DEF Progress
<1>4. ASSUME Sound PROVE Reads(r)
  <2>1. stored = folder.validity /\ last = folder.last
    BY <1>0, <1>4, AloneFacts DEF Reads
  <2>2. me.session \in Nat /\ folder.validity <= me.session
    BY <1>0, AloneFacts, ConstantsAssumption DEF Progress, SyncerState
  <2>3. CASE r.pc = "clear"
    BY <1>2, <1>w, <2>1, <2>2, <2>3, AloneFacts DEF Reads, Mismatch
  <2>4. CASE r.pc = "stamp"
    <3>1. folder.validity = me.session \/ folder.validity = 0
      BY <1>2, <1>w, <2>1, <2>4 DEF Mismatch
    <3> QED BY <1>2, <1>4, <1>w, <2>1, <2>4, <3>1, AloneFacts DEF Reads, Unstamped
  <2>5. CASE r.pc \notin {"clear", "stamp"}
    BY <1>2, <1>4, <1>w, <2>5 DEF Reads
  <2> QED BY <2>3, <2>4, <2>5
<1>5. ASSUME Sound, Current PROVE Core(r)
  <2>1. \A u \in UID : ~Passed(r, u)
    BY <1>0, <1>2, <1>4, <1>5, <1>w, ConstantsAssumption, AloneFacts DEF Passed, Progress, UID
  <2>2. \A u \in UID : Promised(r, u) => u < server.next /\ Kept(u)
    BY <1>5, <2>1, AloneFacts DEF Promised, Core
  <2>3. r.held = {} /\ r.found = {} /\ r.pc # "delete"
    BY <1>0, <1>2, <1>5, <1>w, AloneFacts DEF Progress, Core
  <2> QED BY <2>2, <2>3 DEF Core
<1>6. UNCHANGED <<folder, server, rows, queue, hand, resync, missed, torn>>
  BY DEF Validity, history
<1> QED BY <1>0, <1>1, <1>3, <1>4, <1>5, <1>6, AloneReads

LEMMA FullFetchAlone ==
    ASSUME NEW w, Alone(w), TypeOK, AloneInv(w), FullFetch(w)
    PROVE  AloneInv(w)'
<1> DEFINE me == syncer[w]
<1>0. me.pc = "full" /\ resync = "done" /\ hand[w] = {} /\ me \in SyncerState
  BY AloneActs, AloneFacts DEF FullFetch
<1>a. PICK u \in Ahead(w) :
         /\ \A v \in Ahead(w) : u <= v
         /\ Becomes(w, [me EXCEPT !.pc = "save", !.pos = u, !.held = {<<u, server.box[u]>>}])
  BY DEF FullFetch
<1>1. PICK r : /\ r = [me EXCEPT !.pc = "save", !.pos = u, !.held = {<<u, server.box[u]>>}]
               /\ Becomes(w, r)
  BY <1>a
<1>2. u \in OnServer /\ me.pos < u /\ u <= me.end /\ u \in UID /\ UID \subseteq Nat
      /\ me.pos \in Nat /\ me.end \in Nat /\ me.top \in Nat
  BY <1>0, ConstantsAssumption DEF Ahead, OnServer, UID, SyncerState
<1>3. /\ r.pc = "save" /\ r.held = {<<u, server.box[u]>>} /\ r.pos = u
      /\ r.listed = me.listed /\ r.found = me.found /\ r.session = me.session
      /\ r.end = me.end /\ r.top = me.top /\ r.last = me.last /\ r.id = me.id
  BY <1>0, <1>1 DEF SyncerState
<1>4. Progress(r)
  BY <1>0, <1>2, <1>3, AloneFacts DEF Progress
<1>5. Sound => Reads(r)
  BY <1>0, <1>3, AloneFacts DEF Reads
<1>6. ASSUME Sound, Current PROVE Core(r)
  <2>c. Core(me)
    BY <1>6, AloneFacts
  <2>1. ASSUME NEW v \in UID, Passed(r, v) PROVE v < server.next /\ Kept(v)
    <3>1. v < u /\ v \in Nat
      BY <1>2, <1>3, <2>1 DEF Passed
    <3>2. CASE v <= me.pos
      BY <1>0, <2>c, <3>2 DEF Core, Promised, Passed
    <3>3. CASE ~(v <= me.pos)
      <4>1. v \notin Ahead(w)
        BY <1>a, <1>2, <3>1
      <4>2. v \notin OnServer
        BY <1>2, <3>1, <3>3, <4>1 DEF Ahead
      <4>3. u < server.next
        BY <1>2, AloneFacts DEF Apart
      <4>4. v < server.next
        BY <1>2, <3>1, <4>3, AloneFacts
      <4> QED BY <4>2, <4>4 DEF Kept
    <3> QED BY <3>2, <3>3
  <2>2. \A v \in UID : Promised(r, v) => v < server.next /\ Kept(v)
    BY <2>c, <2>1 DEF Core, Promised
  <2>3. Sole(r, u, server.box[u])
    BY <1>2, AloneFacts DEF Sole, Apart
  <2> QED BY <1>0, <1>3, <2>c, <2>2, <2>3 DEF Core
<1>7. UNCHANGED <<folder, server, rows, queue, hand, resync, missed, torn>>
  BY DEF FullFetch, history
<1> QED BY <1>0, <1>1, <1>4, <1>5, <1>6, <1>7, AloneReads

LEMMA FullEndAlone ==
    ASSUME NEW w, Alone(w), TypeOK, AloneInv(w), FullEnd(w)
    PROVE  AloneInv(w)'
<1> DEFINE me == syncer[w]
<1>0. me.pc = "full" /\ resync = "done" /\ hand[w] = {} /\ me \in SyncerState
  BY AloneActs, AloneFacts DEF FullEnd
<1>1. PICK r : r = [me EXCEPT !.pc = "advance"] /\ Becomes(w, r)
  BY DEF FullEnd, Goto
<1>3. /\ r.pc = "advance" /\ r.held = me.held /\ r.pos = me.pos
      /\ r.listed = me.listed /\ r.found = me.found /\ r.session = me.session
      /\ r.end = me.end /\ r.top = me.top /\ r.last = me.last /\ r.id = me.id
      /\ me.top \in Nat /\ me.pos \in Nat
  BY <1>0, <1>1, ConstantsAssumption DEF SyncerState
<1>4. Progress(r)
  BY <1>0, <1>3, AloneFacts DEF Progress
<1>5. Sound => Reads(r)
  BY <1>0, <1>3, AloneFacts DEF Reads
<1>6. ASSUME Sound, Current PROVE Core(r)
  <2>c. Core(me)
    BY <1>6, AloneFacts
  <2>1. ASSUME NEW v \in UID, Passed(r, v) PROVE Passed(me, v)
    <3>1. v \in Nat /\ v <= me.top /\ me.top <= me.pos
      BY <1>0, <1>3, <2>1, AloneFacts DEF Passed, Progress
    <3>2. v <= me.pos
      BY <1>3, <3>1
    <3> QED BY <1>0, <3>2 DEF Passed
  <2>2. \A v \in UID : Promised(r, v) => v < server.next /\ Kept(v)
    BY <2>c, <2>1 DEF Core, Promised
  <2>3. me.held = {}
    BY <1>0, AloneFacts DEF Progress
  <2> QED BY <1>0, <1>3, <2>c, <2>2, <2>3 DEF Core
<1>7. UNCHANGED <<folder, server, rows, queue, hand, resync, missed, torn>>
  BY DEF FullEnd, history
<1> QED BY <1>0, <1>1, <1>4, <1>5, <1>6, <1>7, AloneReads

LEMMA FetchAlone ==
    ASSUME NEW w, Alone(w), TypeOK, AloneInv(w), FetchUIDs(w)
    PROVE  AloneInv(w)'
<1> DEFINE me == syncer[w]
<1>0. me.pc = "fetch" /\ resync = "done" /\ hand[w] = {} /\ me \in SyncerState
  BY AloneActs, AloneFacts DEF FetchUIDs
<1>1. PICK r : /\ Becomes(w, r)
               /\ \/ NewUIDs(w) = {} /\ r = [me EXCEPT !.pc = "advance", !.top = me.end]
                  \/ r = [me EXCEPT !.pc = "enqueue", !.found = NewUIDs(w)]
  BY DEF FetchUIDs
<1>n. me.last \in Nat /\ me.end \in Nat
  BY <1>0, ConstantsAssumption DEF SyncerState
<1>x. /\ \/ NewUIDs(w) = {} /\ r.pc = "advance" /\ r.top = me.end /\ r.found = me.found
         \/ r.pc = "enqueue" /\ r.found = NewUIDs(w)
      /\ r.held = me.held /\ r.listed = me.listed /\ r.pos = me.pos
      /\ r.session = me.session /\ r.id = me.id
      /\ r.end = me.end /\ r.last = me.last
  BY <1>0, <1>1 DEF SyncerState
<1>3. Progress(r)
  BY <1>0, <1>n, <1>x, AloneFacts DEF Progress
<1>4. Sound => Reads(r)
  BY <1>0, <1>n, <1>x, AloneFacts DEF Reads
<1>5. ASSUME Sound, Current PROVE Core(r)
  <2>c. Core(me)
    BY <1>5, AloneFacts
  <2>e. me.end < server.next /\ server.next \in Nat
    BY <1>0, AloneFacts DEF Progress, FetchUIDs, Alive
  <2>1. ASSUME NEW v \in UID, Passed(r, v) PROVE v < server.next /\ Kept(v)
    <3>1. v \in Nat
      BY AloneFacts
    <3>2. CASE v <= me.last
      BY <1>0, <2>c, <3>2 DEF Core, Promised, Passed
    <3>3. CASE ~(v <= me.last)
      <4>1. NewUIDs(w) = {} /\ v <= me.end
        BY <1>n, <1>x, <2>1, <3>3 DEF Passed
      <4>2. v \notin OnServer
        BY <1>n, <1>x, <3>1, <3>3, <4>1 DEF NewUIDs
      <4> QED BY <1>n, <1>x, <2>e, <3>1, <4>1, <4>2 DEF Kept
    <3> QED BY <3>2, <3>3
  <2>2. \A v \in UID : Promised(r, v) => v < server.next /\ Kept(v)
    BY <2>c, <2>1 DEF Core, Promised
  <2>3. \A v \in NewUIDs(w) : v \in Nat /\ v <= me.end /\ v < server.next
    <3>1. \A v \in NewUIDs(w) : v \in Nat /\ v <= me.end
      BY AloneFacts DEF NewUIDs
    <3> QED BY <1>n, <1>x, <2>e, <3>1
  <2>4. ASSUME NEW v \in NewUIDs(w), NEW u \in OnServer, me.last < u, u <= v
        PROVE  u \in NewUIDs(w)
    <3>1. u \in Nat /\ v \in Nat /\ v <= me.end
      BY <2>3, AloneFacts
    <3>2. u <= me.end
      BY <1>n, <1>x, <2>4, <3>1
    <3> QED BY <2>4, <3>2 DEF NewUIDs
  <2>5. r.held = {}
    BY <1>0, <1>n, <1>x, AloneFacts DEF Progress
  <2> QED BY <1>0, <1>n, <1>x, <2>c, <2>2, <2>3, <2>4, <2>5 DEF Core
<1>7. UNCHANGED <<folder, server, rows, queue, hand, resync, missed, torn>>
  BY DEF FetchUIDs, history
<1> QED BY <1>0, <1>1, <1>3, <1>4, <1>5, <1>7, AloneReads

LEMMA ReconcileAlone ==
    ASSUME NEW w, Alone(w), TypeOK, AloneInv(w), Reconcile(w) \/ Search(w)
    PROVE  AloneInv(w)'
<1> DEFINE me == syncer[w]
<1>0. /\ me.pc \in {"reconcile", "search"} /\ resync = "done" /\ hand[w] = {}
      /\ me \in SyncerState
  BY AloneActs, AloneFacts DEF Reconcile, Search
<1>7. UNCHANGED <<folder, server, rows, queue, hand, resync, missed, torn>>
  <2>1. UNCHANGED <<folder, server, rows, queue, hand, resync, history>>
    BY Zenon DEF Reconcile, Search
  <2> QED BY <2>1 DEF history
<1>1. ASSUME Becomes(w, AfterReconcile(w)) PROVE AloneInv(w)'
  BY <1>0, <1>1, <1>7, IdleAlone, AloneFacts, AloneReads DEF AfterReconcile
<1>2. ASSUME NEW L, NEW r, Becomes(w, r),
             \/ r = [me EXCEPT !.pc = "search", !.listed = L]
             \/ /\ r = [me EXCEPT !.pc = "delete", !.listed = L]
                /\ \A e \in L : e[1] \notin OnServer,
             \A e \in L : rows[e[2]] = e[1]
      PROVE  AloneInv(w)'
  <2>1. /\ r.listed = L /\ r.held = me.held /\ r.found = me.found
        /\ r.end = me.end /\ r.last = me.last /\ r.pos = me.pos /\ r.session = me.session
        /\ r.id = me.id
        /\ \/ r.pc = "search"
           \/ r.pc = "delete" /\ \A e \in L : e[1] \notin OnServer
    BY <1>0, <1>2 DEF SyncerState
  <2>2. Progress(r)
    BY <1>0, <1>2, <2>1, AloneFacts DEF Progress
  <2>3. Reads(r)
    BY <2>1 DEF Reads
  <2>4. ASSUME Sound, Current PROVE Core(r)
    <3>1. Core(me)
      BY <2>4, AloneFacts
    <3>2. \A u : ~Passed(r, u)
      BY <2>1 DEF Passed
    <3>3. \A u \in UID : Promised(r, u) => u < server.next /\ Kept(u)
      BY <3>1, <3>2 DEF Core, Promised
    <3>4. r.held = {}
      BY <1>0, <2>1, AloneFacts DEF Progress
    <3> QED BY <1>0, <2>1, <3>1, <3>3, <3>4 DEF Core
  <2> QED BY <1>0, <1>2, <1>7, <2>2, <2>3, <2>4, AloneReads
<1>3. CASE Reconcile(w)
  <2> DEFINE U == {rows[m] : m \in Msg} \ {0}
  <2>1. PICK f \in [U -> Msg] :
           /\ \A u \in U : rows[f[u]] = u
           /\ Becomes(w, IF ~me.id \/ U = {} \/ Cardinality(U) < me.count
                         THEN AfterReconcile(w)
                         ELSE [me EXCEPT !.pc = "search", !.listed = {<<u, f[u]>> : u \in U}])
    BY <1>3, Zenon DEF Reconcile
  <2>2. \A u \in U : rows[f[u]] = u
    BY <2>1
  <2> HIDE DEF U
  <2> DEFINE L == {<<u, f[u]>> : u \in U}
  <2>3. \A e \in L : rows[e[2]] = e[1]
    BY <2>2
  <2>4. CASE Becomes(w, AfterReconcile(w))
    BY <1>1, <2>4
  <2>5. CASE Becomes(w, [me EXCEPT !.pc = "search", !.listed = L])
    <3> HIDE DEF L
    <3> QED BY <1>2, <2>3, <2>5
  <2> QED BY <2>1, <2>4, <2>5
<1>4. CASE Search(w)
  <2> DEFINE L == {e \in me.listed : e[1] \notin OnServer}
  <2>1. \A e \in L : rows[e[2]] = e[1] /\ e[1] \notin OnServer
    BY <1>4, AloneFacts DEF Progress, Search
  <2>2. \/ Becomes(w, AfterReconcile(w))
        \/ Becomes(w, [me EXCEPT !.pc = "delete", !.listed = L])
    BY <1>4 DEF Search
  <2> HIDE DEF L
  <2> QED BY <1>1, <1>2, <2>1, <2>2
<1> QED BY <1>3, <1>4

LEMMA AbortAlone ==
    ASSUME NEW w, Alone(w), TypeOK, AloneInv(w), Abort(w) \/ FindNew(w)
    PROVE  AloneInv(w)'
<1>1. Abort(w) /\ syncer[w].pc # "idle"
  BY AloneFacts DEF Abort, FindNew, Progress
<1>2. UNCHANGED <<folder, server, rows, queue, hand, resync, missed, torn>> /\ Becomes(w, Idle)
  BY <1>1 DEF Abort, history
<1> QED BY <1>1, <1>2, AloneActs, IdleAlone, AloneReads

(* The reset of a renumbered folder: the row still has the old validity.   *)
LEMMA ResetAlone ==
    ASSUME NEW w, Alone(w), TypeOK, AloneInv(w),
           ClearQueue(w) \/ PurgeRows(w) \/ ZeroCursor(w)
    PROVE  AloneInv(w)'
<1> DEFINE me == syncer[w]
<1>0. /\ me.pc \in {"clear", "purge", "zero"} /\ resync = "done" /\ hand[w] = {}
      /\ me \in SyncerState
  BY AloneActs, AloneFacts DEF ClearQueue, PurgeRows, ZeroCursor
<1>1. PICK pc \in {"purge", "zero", "stamp"} :
         /\ \/ ClearQueue(w) /\ pc = "purge"
            \/ PurgeRows(w) /\ pc = "zero"
            \/ ZeroCursor(w) /\ pc = "stamp"
         /\ syncer'[w] = [me EXCEPT !.pc = pc]
  <2>1. CASE ClearQueue(w)
    BY <2>1, AloneFacts DEF ClearQueue, Goto, Becomes, TypeOK
  <2>2. CASE PurgeRows(w)
    BY <2>2, AloneFacts DEF PurgeRows, Goto, Becomes, TypeOK
  <2>3. CASE ZeroCursor(w)
    BY <2>3, AloneFacts DEF ZeroCursor, Goto, Becomes, TypeOK
  <2> QED BY <2>1, <2>2, <2>3
<1>2. PICK r : r = syncer'[w]
  OBVIOUS
<1>3. /\ r.pc = pc /\ r.listed = me.listed /\ r.held = me.held /\ r.found = me.found
      /\ r.end = me.end /\ r.last = me.last /\ r.pos = me.pos /\ r.top = me.top
      /\ r.session = me.session /\ r.id = me.id
  BY <1>0, <1>1, <1>2 DEF SyncerState
<1>4. /\ UNCHANGED <<server, hand, resync>>
      /\ folder'.validity = folder.validity /\ folder'.known = folder.known
      /\ folder'.last \in {folder.last, 0}
      /\ torn => torn'
  <2>1. folder' \in {folder, [folder EXCEPT !.last = 0]}
    BY DEF ClearQueue, PurgeRows, ZeroCursor
  <2> QED BY <2>1, AloneFacts DEF ClearQueue, PurgeRows, ZeroCursor, Torn, Whole, Folder
<1>5. Apart' /\ Paused(w)'
  BY <1>0, <1>4, AloneFacts DEF Apart, Paused, OnServer
<1>6. Progress(syncer[w])'
  <2>1. Progress(me)
    BY AloneFacts
  <2>2. me.held = {}
    BY <1>0, <2>1 DEF Progress
  <2>3. r.pc = "stamp" => r.pos = 0 /\ r.top = 0 /\ r.held = {} /\ r.found = {}
    BY <1>0, <1>1, <1>3, <2>1 DEF Progress, ZeroCursor
  <2> QED BY <1>0, <1>1, <1>2, <1>3, <1>4, <2>1, <2>2, <2>3 DEF Progress
<1>7. ASSUME Sound'
      PROVE  Sound /\ Reads(syncer[w])' /\ Unstamped(w)' /\ ~Current'
  <2>1. Sound /\ Whole
    BY <1>0, <1>1, <1>4, <1>7 DEF Sound, ClearQueue, PurgeRows, ZeroCursor, Torn
  <2>2. /\ me.last = 0 /\ folder.validity < me.session /\ folder.validity # 0
        /\ me.pc \in {"purge", "zero"} => queue = Emptied
    BY <1>0, <2>1, AloneFacts DEF Reads
  <2>3. /\ queue' = Emptied
        /\ pc = "stamp" => folder'.last = 0
    <3>1. CASE ClearQueue(w) /\ pc = "purge"
      BY <1>7, <2>1, <3>1 DEF ClearQueue, Torn, Sound
    <3>2. CASE PurgeRows(w) /\ pc = "zero"
      BY <2>2, <3>2 DEF PurgeRows
    <3>3. CASE ZeroCursor(w) /\ pc = "stamp"
      BY <1>7, <2>1, <2>2, <3>3, AloneFacts DEF ZeroCursor, Torn, Sound, Folder
    <3> QED BY <1>1, <3>1, <3>2, <3>3
  <2>4. me.session <= server.validity /\ me.session \in Nat
    BY <1>0, AloneFacts, ConstantsAssumption DEF Progress, SyncerState
  <2>5. ~Current'
    BY <1>4, <2>2, <2>4, AloneFacts DEF Current
  <2>6. Emptied' = Emptied
    BY DEF Emptied
  <2> QED BY <1>0, <1>1, <1>2, <1>3, <1>4, <2>1, <2>2, <2>3, <2>5, <2>6 DEF Reads, Unstamped
<1> QED BY <1>5, <1>6, <1>7 DEF AloneInv

LEMMA StampAlone ==
    ASSUME NEW w, Alone(w), TypeOK, AloneInv(w), Stamp(w)
    PROVE  AloneInv(w)'
<1> DEFINE me == syncer[w]
<1>0. /\ me.pc = "stamp" /\ resync = "done" /\ hand[w] = {} /\ me \in SyncerState
      /\ Progress(me)
  BY AloneActs, AloneFacts DEF Stamp
<1>1. PICK r : r = [me EXCEPT !.pc = Way(me.last, me.end)] /\ r = syncer'[w]
  BY AloneFacts DEF Stamp, Goto, Becomes, TypeOK
<1>2. /\ r.pc = Way(me.last, me.end)
      /\ r.listed = me.listed /\ r.held = me.held /\ r.found = me.found
      /\ r.end = me.end /\ r.last = me.last /\ r.pos = me.pos /\ r.top = me.top
      /\ r.session = me.session /\ r.id = me.id
  BY <1>0, <1>1 DEF SyncerState
<1>w. /\ r.pc \in {"reconcile", "full", "fetch"}
      /\ r.pos = 0 /\ r.held = {} /\ r.found = {} /\ r.top = 0
  BY <1>0, <1>2 DEF Way, Progress
<1>4. /\ UNCHANGED <<server, rows, queue, hand, resync, missed>>
      /\ folder'.validity \in {folder.validity, me.session} /\ folder'.known = folder.known
      /\ folder'.last = folder.last
      /\ torn => torn'
      /\ ~torn' => folder'.validity = me.session
  BY AloneFacts DEF Stamp, Torn, Whole, Folder
<1>s. me.session \in Nat /\ me.session # 0 /\ me.session <= server.validity
      /\ folder.validity <= me.session /\ me.id /\ folder.known
  BY <1>0, ConstantsAssumption DEF Progress, SyncerState
<1>5. Apart' /\ Paused(w)'
  BY <1>0, <1>4, <1>s, AloneFacts DEF Apart, Paused, OnServer
<1>6. Progress(syncer[w])'
  <2>1. folder'.validity <= me.session
    BY <1>4, <1>s
  <2> QED BY <1>0, <1>1, <1>2, <1>4, <1>s, <1>w, <2>1 DEF Progress
<1>7. ASSUME Sound' PROVE Sound /\ Reads(syncer[w])' /\ Unstamped(w)'
  <2>1. Sound
    BY <1>4, <1>7 DEF Sound
  <2>2. Reads(me)
    BY <2>1, AloneFacts
  <2> QED BY <1>0, <1>1, <1>2, <1>4, <1>7, <1>s, <1>w, <2>1, <2>2 DEF Reads, Unstamped, Sound
<1>8. ASSUME Sound', Current' PROVE Core(syncer[w])' /\ Tasks(syncer[w], w)'
  <2>1. Sound /\ folder'.validity = me.session /\ me.session = server.validity
    BY <1>4, <1>7, <1>8 DEF Sound, Current
  <2>2. \A u \in UID : ~Passed(r, u) \/ (u <= me.last /\ me.last = folder.last)
    BY <1>0, <1>2, <1>w, <2>1, ConstantsAssumption, AloneFacts DEF Passed, UID, Reads
  <2>3. OnServer' = OnServer
    BY <1>4 DEF OnServer
  <2>4. \A u \in UID : Kept(u) => Kept(u)'
    BY <1>4, <2>3 DEF Kept
  <2>5. /\ \A u \in UID : u <= folder.last \/ queue[u] = "done" => u < server.next /\ Kept(u)
        /\ \A u \in UID : queue[u] # "absent" => u < server.next
    <3>1. CASE folder.validity = me.session
      <4>1. Current
        BY <2>1, <3>1 DEF Current
      <4> QED BY <2>1, <4>1, AloneFacts DEF Core, Tasks, Promised
    <3>2. CASE folder.last = 0 /\ queue = Emptied
      <4>1. \A u \in UID : queue[u] = "absent"
        BY <3>2 DEF Emptied
      <4>2. \A u \in UID : ~(u <= 0)
        BY ConstantsAssumption DEF UID
      <4> QED BY <3>2, <4>1, <4>2
    <3> QED BY <1>0, <2>1, <3>1, <3>2, AloneFacts DEF Reads
  <2>6. \A u \in UID : Promised(r, u)' => u < server.next /\ Kept(u)'
    BY <1>4, <2>2, <2>4, <2>5 DEF Promised, Passed
  <2>7. Core(r)'
    BY <1>2, <1>4, <1>w, <2>6 DEF Core
  <2>8. Core(syncer[w])'
    BY <1>1, <2>7 DEF Core, Promised, Passed, Sole
  <2> QED BY <1>0, <1>4, <2>5, <2>8 DEF Tasks
<1> QED BY <1>5, <1>6, <1>7, <1>8 DEF AloneInv

(* A step of the pass that writes rows, tasks or the cursor.               *)
LEMMA AloneWrites ==
    ASSUME NEW w, Alone(w), TypeOK, AloneInv(w), NEW r, r = syncer'[w],
           UNCHANGED <<server, hand, resync, torn>>, resync = "done", hand[w] = {},
           folder'.validity = folder.validity, folder.known => folder'.known,
           ~folder'.known => folder'.last = 0,
           Progress(r)',
           Sound => Reads(r)' /\ Unstamped(w)',
           Sound /\ Current => /\ Core(r)'
                               /\ \A u \in UID : queue'[u] # "absent" => u < server.next
    PROVE  AloneInv(w)'
<1>1. OnServer' = OnServer /\ Sound' = Sound /\ Current' = Current
  BY DEF OnServer, Sound, Current
<1>2. Apart' /\ Paused(w)'
  BY <1>1, AloneFacts DEF Apart, Paused
<1>3. Progress(syncer[w])'
  BY DEF Progress
<1>4. Sound' => Reads(syncer[w])' /\ Unstamped(w)'
  BY <1>1 DEF Reads
<1>5. Sound' /\ Current' => Core(syncer[w])'
  BY <1>1 DEF Core, Promised, Passed, Sole
<1>6. Sound' /\ Current' => Tasks(syncer[w], w)'
  BY <1>1 DEF Tasks
<1> QED BY <1>2, <1>3, <1>4, <1>5, <1>6 DEF AloneInv

LEMMA FullSaveAlone ==
    ASSUME NEW w, Alone(w), TypeOK, AloneInv(w), FullSave(w)
    PROVE  AloneInv(w)'
<1> DEFINE me == syncer[w]
           r(pc, top) == [me EXCEPT !.pc = pc, !.top = top, !.batch = me.batch + 1, !.held = {}]
<1>0. /\ me.pc = "save" /\ resync = "done" /\ hand[w] = {} /\ me \in SyncerState
      /\ Progress(me)
  BY AloneActs, AloneFacts DEF FullSave
<1>1. UNCHANGED <<folder, server, queue, hand, resync, torn>>
  BY DEF FullSave
<1>2. PICK e \in me.held, ok \in BOOLEAN, reported \in BOOLEAN :
         /\ IF ok THEN rows' = [rows EXCEPT ![e[2]] = e[1]] /\ UNCHANGED <<missed, faults>>
            ELSE Fault("ingest") /\ missed' = missed \cup {e[2]} /\ UNCHANGED rows
         /\ \E due \in BOOLEAN :
               /\ due => me.id
               /\ Becomes(w, r(IF due THEN "checkpoint" ELSE "full",
                               IF reported THEN e[1] ELSE me.top))
  BY Zenon DEF FullSave
<1>3. /\ e[1] \in UID /\ e[2] \in Msg
      /\ me.pos \in Nat /\ UID \subseteq Nat /\ me.top \in Nat
  BY <1>0, <1>2, ConstantsAssumption DEF SyncerState, UID
<1>4. PICK pc \in {"checkpoint", "full"}, top \in {e[1], me.top} :
         Becomes(w, r(pc, top)) /\ (pc = "checkpoint" => me.id)
  BY <1>2
<1>5. PICK q : q = r(pc, top) /\ q = syncer'[w]
  BY <1>4, AloneFacts DEF Becomes, TypeOK
<1>6. /\ q.pc = pc /\ q.top = top /\ q.held = {} /\ q.found = me.found /\ q.id = me.id
      /\ q.listed = me.listed /\ q.end = me.end /\ q.last = me.last /\ q.pos = me.pos
      /\ q.session = me.session
  BY <1>0, <1>5 DEF SyncerState
<1> HIDE DEF r
<1>p. e[1] = me.pos
  BY <1>0, <1>2 DEF Progress
<1>7. Progress(q)'
  <2>1. top <= me.pos
    BY <1>0, <1>3, <1>4, <1>p DEF Progress
  <2> QED BY <1>0, <1>1, <1>4, <1>6, <2>1 DEF Progress
<1>8. Sound => Reads(q)' /\ Unstamped(w)'
  BY <1>0, <1>1, <1>4, <1>6, AloneFacts DEF Reads, Unstamped
<1>9. ASSUME Sound, Current PROVE Core(q)'
  <2>c. Core(me) /\ Sole(me, e[1], e[2])
    BY <1>2, <1>9, AloneFacts DEF Core
  <2>1. /\ \A m \in Msg : rows'[m] = IF ok /\ m = e[2] THEN e[1] ELSE rows[m]
        /\ missed \subseteq missed' /\ (ok \/ e[2] \in missed')
    BY <1>2, <1>3 DEF TypeOK
  <2>2. OnServer' = OnServer /\ \A u \in OnServer : u \in UID /\ server.box[u] \in Msg
    BY <1>1 DEF OnServer, TypeOK, Server
  <2>3. ASSUME NEW u \in UID, Promised(me, u) PROVE Kept(u)'
    <3>1. Kept(u)
      BY <2>3, <2>c DEF Core
    <3>2. CASE u \in OnServer /\ server.box[u] = e[2]
      <4>1. u = e[1]
        BY <2>3, <2>c, <3>2 DEF Sole
      <4> QED BY <1>1, <1>3, <2>1, <3>2, <4>1 DEF Kept
    <3>3. CASE u \in OnServer /\ server.box[u] # e[2]
      BY <1>1, <2>1, <2>2, <3>1, <3>3 DEF Kept
    <3>4. CASE u \notin OnServer
      BY <2>2, <3>4 DEF Kept
    <3> QED BY <3>2, <3>3, <3>4
  <2>4. Kept(e[1])'
    <3>1. e[1] \in OnServer => server.box[e[1]] = e[2]
      BY <2>c DEF Sole
    <3> QED BY <1>1, <1>3, <2>1, <2>2, <3>1 DEF Kept
  <2>5. ASSUME NEW u \in UID, Promised(q, u)' PROVE u = e[1] \/ Promised(me, u)
    <3>1. CASE Passed(q, u)
      <4>1. u <= me.pos /\ u \in Nat
        BY <1>3, <1>4, <1>6, <3>1 DEF Passed
      <4>2. u = e[1] \/ u < me.pos
        BY <1>3, <1>p, <4>1
      <4> QED BY <1>0, <4>2 DEF Passed, Promised
    <3>2. CASE ~Passed(q, u)
      BY <1>1, <2>5, <3>2 DEF Promised, Passed
    <3> QED BY <3>1, <3>2
  <2>6. e[1] < server.next
    BY <2>c DEF Sole
  <2>7. \A u \in UID : Promised(q, u)' => u < server.next /\ Kept(u)'
    BY <2>3, <2>4, <2>5, <2>6, <2>c DEF Core
  <2> QED BY <1>1, <1>4, <1>6, <2>2, <2>7, <2>c DEF Core
<1>10. Sound /\ Current => \A u \in UID : queue'[u] # "absent" => u < server.next
  BY <1>1, AloneFacts DEF Tasks
<1>11. ~folder'.known => folder'.last = 0
  BY <1>1, AloneFacts DEF Apart
<1> QED BY <1>0, <1>1, <1>5, <1>7, <1>8, <1>9, <1>10, <1>11, AloneWrites

LEMMA CursorAlone ==
    ASSUME NEW w, Alone(w), TypeOK, AloneInv(w), TakeCheckpoint(w) \/ Advance(w)
    PROVE  AloneInv(w)'
<1> DEFINE me == syncer[w]
<1>0. /\ me.pc \in {"checkpoint", "advance"} /\ resync = "done" /\ hand[w] = {}
      /\ me \in SyncerState /\ Progress(me)
  BY AloneActs, AloneFacts DEF TakeCheckpoint, Advance
<1>1. UNCHANGED <<server, rows, queue, hand, resync, missed, torn>>
  BY DEF TakeCheckpoint, Advance, history
<1>2. PICK r : /\ r = syncer'[w]
               /\ \/ me.pc = "checkpoint" /\ r = [me EXCEPT !.pc = "full", !.batch = 0]
                  \/ me.pc = "advance" /\ r = [me EXCEPT !.pc = "reconcile"]
  BY AloneFacts DEF TakeCheckpoint, Advance, Goto, Becomes, TypeOK
<1>3. /\ \/ me.pc = "checkpoint" /\ r.pc = "full"
         \/ me.pc = "advance" /\ r.pc = "reconcile"
      /\ r.held = me.held /\ r.listed = me.listed /\ r.found = me.found
      /\ r.end = me.end /\ r.top = me.top /\ r.last = me.last /\ r.pos = me.pos
      /\ r.session = me.session /\ r.id = me.id
  BY <1>0, <1>2 DEF SyncerState
<1>4. /\ folder'.validity = folder.validity /\ folder'.known = folder.known
      /\ folder'.last = folder.last \/ (folder'.last = me.top /\ me.id)
  <2>1. \/ folder' = folder
        \/ folder' = [folder EXCEPT !.last = me.top] /\ me.id
    BY <1>0 DEF TakeCheckpoint, Advance, SetCursor, Progress
  <2> QED BY <2>1, AloneFacts DEF Folder
<1>5. Progress(r)'
  BY <1>0, <1>1, <1>3, <1>4 DEF Progress
<1>6. ASSUME Sound PROVE Reads(r)' /\ Unstamped(w)'
  <2>1. me.id => folder.validity = me.session /\ me.session # 0
    BY <1>0, <1>6, AloneFacts DEF Reads, Progress
  <2> QED BY <1>0, <1>1, <1>3, <1>4, <1>6, <2>1, AloneFacts DEF Reads, Unstamped
<1>7. ASSUME Sound, Current PROVE Core(r)'
  <2>c. Core(me)
    BY <1>7, AloneFacts
  <2>n. me.top \in Nat /\ me.pos \in Nat
    BY <1>0, ConstantsAssumption DEF SyncerState
  <2>1. ASSUME NEW u \in UID, Promised(r, u)' PROVE Promised(me, u)
    <3>1. CASE u <= me.top
      <4>1. CASE me.pc = "advance"
        BY <3>1, <4>1 DEF Promised, Passed
      <4>2. CASE me.pc = "checkpoint"
        <5>1. u <= me.pos
          BY <1>0, <2>n, <3>1, <4>2, AloneFacts DEF Progress
        <5> QED BY <4>2, <5>1 DEF Promised, Passed
      <4> QED BY <1>0, <4>1, <4>2
    <3>2. CASE ~(u <= me.top)
      BY <1>1, <1>3, <1>4, <2>1, <3>2 DEF Promised, Passed
    <3> QED BY <3>1, <3>2
  <2>2. OnServer' = OnServer
    BY <1>1 DEF OnServer
  <2>3. \A u \in UID : Promised(r, u)' => u < server.next /\ Kept(u)'
    BY <1>1, <2>1, <2>2, <2>c DEF Core, Kept
  <2>4. r.held = {}
    BY <1>0, <1>3 DEF Progress
  <2> QED BY <1>1, <1>3, <2>2, <2>3, <2>4, <2>c DEF Core
<1>8. ~folder'.known => folder'.last = 0
  BY <1>0, <1>4, AloneFacts DEF Apart, Progress
<1>9. Sound /\ Current => \A u \in UID : queue'[u] # "absent" => u < server.next
  BY <1>1, AloneFacts DEF Tasks
<1> QED BY <1>0, <1>1, <1>2, <1>4, <1>5, <1>6, <1>7, <1>8, <1>9, AloneWrites

LEMMA EnqueueAlone ==
    ASSUME NEW w, Alone(w), TypeOK, AloneInv(w), Enqueue(w)
    PROVE  AloneInv(w)'
<1> DEFINE me == syncer[w]
<1>0. /\ me.pc = "enqueue" /\ resync = "done" /\ hand[w] = {}
      /\ me \in SyncerState /\ Progress(me)
  BY AloneActs, AloneFacts DEF Enqueue
<1>1. UNCHANGED <<folder, server, rows, hand, resync, missed, torn>>
  BY DEF Enqueue, history
<1>2. CASE Fault("write") /\ Becomes(w, Idle) /\ UNCHANGED queue
  BY <1>0, <1>1, <1>2, IdleAlone, AloneReads
<1>3. ASSUME queue' = Enqueued(me.found), NEW top \in me.found, Found(w, top)
      PROVE  AloneInv(w)'
  <2>1. PICK r : r = syncer'[w] /\ r = [me EXCEPT !.pc = "advance", !.found = {}, !.top = top]
    BY <1>3, AloneFacts DEF Found, Becomes, TypeOK
  <2>2. /\ r.pc = "advance" /\ r.found = {} /\ r.top = top /\ r.held = me.held
        /\ r.listed = me.listed /\ r.end = me.end /\ r.last = me.last /\ r.pos = me.pos
        /\ r.session = me.session /\ r.id = me.id
    BY <1>0, <2>1 DEF SyncerState
  <2>3. Progress(r)'
    BY <1>0, <1>1, <2>2 DEF Progress
  <2>4. ASSUME Sound PROVE Reads(r)' /\ Unstamped(w)'
    <3>1. folder.validity = me.session /\ me.session # 0
      BY <1>0, <2>4, AloneFacts DEF Reads, Progress
    <3> QED BY <1>1, <2>2, <3>1 DEF Reads, Unstamped
  <2>5. \A u \in UID : queue'[u] = IF u \in me.found /\ queue[u] # "done" THEN "pending"
                                   ELSE queue[u]
    BY <1>3 DEF Enqueued
  <2>6. ASSUME Sound, Current
        PROVE  Core(r)' /\ \A u \in UID : queue'[u] # "absent" => u < server.next
    <3>c. Core(me)
      BY <2>6, AloneFacts
    <3>n. me.last \in Nat /\ top \in UID /\ UID \subseteq Nat
      BY <1>0, ConstantsAssumption DEF SyncerState, UID
    <3>1. OnServer' = OnServer
      BY <1>1 DEF OnServer
    <3>2. \A u \in UID : Kept(u) => Kept(u)'
      BY <1>1, <2>5, <3>1 DEF Kept
    <3>3. ASSUME NEW u \in UID, u <= top PROVE u < server.next /\ Kept(u)'
      <4>1. u < server.next
        <5>1. top < server.next
          BY <1>3, <3>c DEF Core
        <5>2. u \in Nat /\ top \in Nat /\ server.next \in Nat
          BY <3>3, <3>n, AloneFacts
        <5> QED BY <3>3, <5>1, <5>2
      <4>2. CASE u <= me.last
        BY <1>0, <3>2, <3>c, <4>1, <4>2 DEF Core, Promised, Passed
      <4>3. CASE u \notin OnServer
        BY <3>1, <4>1, <4>3 DEF Kept
      <4>4. CASE u \in OnServer /\ ~(u <= me.last)
        <5>1. me.last < u
          BY <3>n, <4>4
        <5>2. u \in me.found
          BY <1>3, <3>3, <3>c, <4>4, <5>1 DEF Core
        <5>3. CASE queue[u] = "done"
          BY <3>2, <3>c, <4>1, <5>3 DEF Core, Promised
        <5>4. CASE queue[u] # "done"
          BY <2>5, <3>1, <4>1, <5>2, <5>4 DEF Kept
        <5> QED BY <5>3, <5>4
      <4> QED BY <4>1, <4>2, <4>3, <4>4
    <3>4. ASSUME NEW u \in UID, Promised(r, u)' PROVE u <= top \/ Promised(me, u)
      BY <1>1, <2>2, <2>5, <3>4 DEF Promised, Passed
    <3>5. \A u \in UID : Promised(r, u)' => u < server.next /\ Kept(u)'
      BY <3>2, <3>3, <3>4, <3>c DEF Core
    <3>6. r.held = {}
      BY <1>0, <2>2 DEF Progress
    <3>7. Core(r)'
      BY <1>1, <2>2, <3>5, <3>6 DEF Core
    <3>8. \A u \in UID : queue'[u] # "absent" => u < server.next
      BY <2>5, <2>6, <3>c, AloneFacts DEF Core, Tasks
    <3> QED BY <3>7, <3>8
  <2>7. ~folder'.known => folder'.last = 0
    BY <1>1, AloneFacts DEF Apart
  <2> QED BY <1>0, <1>1, <2>1, <2>3, <2>4, <2>6, <2>7, AloneWrites
<1> QED BY <1>2, <1>3 DEF Enqueue

LEMMA DeleteAlone ==
    ASSUME NEW w, Alone(w), TypeOK, AloneInv(w), Delete(w)
    PROVE  AloneInv(w)'
<1> DEFINE me == syncer[w]
<1>0. /\ me.pc = "delete" /\ resync = "done" /\ hand[w] = {}
      /\ me \in SyncerState /\ Progress(me)
  BY AloneActs, AloneFacts DEF Delete
<1>1. UNCHANGED <<folder, server, queue, hand, resync, missed, torn>>
  BY DEF Delete, history
<1>2. CASE Becomes(w, AfterReconcile(w)) /\ UNCHANGED rows
  BY <1>0, <1>1, <1>2, IdleAlone, AloneFacts, AloneReads DEF AfterReconcile
<1>3. ASSUME NEW L \in SUBSET me.listed, NEW r, r = [me EXCEPT !.listed = L]
      PROVE  /\ r.listed = L /\ r.pc = me.pc /\ r.held = me.held /\ r.found = me.found
             /\ r.end = me.end /\ r.top = me.top /\ r.last = me.last /\ r.pos = me.pos
             /\ r.session = me.session /\ r.id = me.id
  BY <1>0, <1>3 DEF SyncerState
<1>4. ASSUME NEW e \in me.listed, UNCHANGED rows,
             Becomes(w, [me EXCEPT !.listed = @ \ {e}])
      PROVE  AloneInv(w)'
  <2>1. PICK r : r = [me EXCEPT !.listed = me.listed \ {e}] /\ Becomes(w, r)
    BY <1>4
  <2>2. Progress(r)
    BY <1>0, <1>3, <2>1 DEF Progress
  <2>3. Sound => Reads(r)
    BY <1>0, <1>3, <2>1 DEF Reads
  <2>4. Sound /\ Current => Core(r)
    BY <1>0, <1>3, <2>1, AloneFacts DEF Core, Promised, Passed, Progress
  <2> QED BY <1>0, <1>1, <1>4, <2>1, <2>2, <2>3, <2>4, AloneReads
<1>5. ASSUME NEW e \in me.listed, DeleteRows({e[2]}) PROVE AloneInv(w)'
  <2>1. PICK r : /\ r = syncer'[w]
                 /\ r = [me EXCEPT !.listed = {x \in me.listed : x[2] \notin {e[2]}}]
    BY <1>5, AloneFacts DEF DeleteRows
  <2>2. /\ r.listed = {x \in me.listed : x[2] \notin {e[2]}} /\ r.pc = me.pc
        /\ r.held = me.held /\ r.found = me.found
        /\ r.end = me.end /\ r.top = me.top /\ r.last = me.last /\ r.pos = me.pos
        /\ r.session = me.session /\ r.id = me.id
    BY <1>3, <2>1
  <2>3. \A m \in Msg : rows'[m] = IF m = e[2] THEN 0 ELSE rows[m]
    BY <1>5 DEF DeleteRows
  <2>4. \A x \in me.listed : x[2] \in Msg /\ rows[x[2]] = x[1]
    BY <1>0 DEF Progress, SyncerState
  <2>5. Progress(r)'
    BY <1>0, <1>1, <2>2, <2>3, <2>4 DEF Progress
  <2>6. Sound => Reads(r)' /\ Unstamped(w)'
    BY <1>0, <1>1, <2>2, AloneFacts DEF Reads, Unstamped
  <2>7. ASSUME Sound, Current PROVE Core(r)'
    <3>c. Core(me)
      BY <2>7, AloneFacts
    <3>1. OnServer' = OnServer /\ \A u \in OnServer : server.box[u] \in Msg
      BY <1>1 DEF OnServer, TypeOK, Server
    <3>2. \A u \in UID : Promised(r, u)' <=> Promised(me, u)
      BY <1>0, <1>1, <2>2 DEF Promised, Passed
    <3>3. ASSUME NEW u \in UID, Promised(me, u) PROVE Kept(u)'
      <4>1. Kept(u)
        BY <3>3, <3>c DEF Core
      <4>2. CASE u \in OnServer /\ server.box[u] = e[2] /\ rows[e[2]] = u
        <5>1. e[1] = u
          BY <2>4, <4>2
        <5> QED BY <1>0, <3>3, <3>c, <4>2, <5>1 DEF Core
      <4>3. CASE ~(u \in OnServer /\ server.box[u] = e[2] /\ rows[e[2]] = u)
        BY <1>1, <2>3, <3>1, <4>1, <4>3 DEF Kept
      <4> QED BY <4>2, <4>3
    <3>4. r.held = {}
      BY <1>0, <2>2 DEF Progress
    <3>5. \A u \in UID : Promised(r, u)' => u < server.next /\ Kept(u)'
      BY <3>2, <3>3, <3>c DEF Core
    <3>6. \A x \in r.listed : x[1] \in OnServer => ~Promised(r, x[1])'
      <4>1. \A x \in r.listed : x \in me.listed /\ x[1] \in UID
        BY <1>0, <2>2 DEF SyncerState
      <4> QED BY <1>0, <3>2, <3>c, <4>1 DEF Core
    <3> QED BY <1>1, <2>2, <3>1, <3>4, <3>5, <3>6, <3>c DEF Core
  <2>8. ~folder'.known => folder'.last = 0
    BY <1>1, AloneFacts DEF Apart
  <2>9. Sound /\ Current => \A u \in UID : queue'[u] # "absent" => u < server.next
    BY <1>1, AloneFacts DEF Tasks
  <2> QED BY <1>0, <1>1, <2>1, <2>5, <2>6, <2>7, <2>8, <2>9, AloneWrites
<1> QED BY <1>2, <1>4, <1>5 DEF Delete

LEMMA TakeAlone ==
    ASSUME NEW w, Alone(w), TypeOK, AloneInv(w), NEW u \in UID, Take(w, u)
    PROVE  AloneInv(w)'
<1> DEFINE t == [uid |-> u, msg |-> server.box[u]]
<1>0. /\ syncer[w].pc = "idle" /\ hand[w] = {} /\ resync = "done" /\ queue[u] = "pending"
      /\ UNCHANGED <<server, folder, rows, queue, syncer, resync, missed, torn>>
      /\ hand'[w] = {t} /\ t.uid = u /\ t.msg = server.box[u]
  BY AloneFacts DEF Take, Allowed, history, TypeOK
<1>1. OnServer' = OnServer /\ (Sound' => Sound) /\ (Current' <=> Current)
  BY <1>0 DEF OnServer, Sound, Current
<1>2. Apart' /\ Paused(w)' /\ Progress(syncer[w])'
  BY <1>0, <1>1, AloneFacts DEF Apart, Paused, Progress
<1>3. Sound' => Reads(syncer[w])' /\ Unstamped(w)'
  <2>1. queue # Emptied
    BY <1>0 DEF Emptied
  <2> QED BY <1>0, <1>1, <2>1, AloneFacts DEF Reads, Unstamped, Emptied
<1>4. ASSUME Sound', Current' PROVE Core(syncer[w])' /\ Tasks(syncer[w], w)'
  <2>1. Core(syncer[w]) /\ Tasks(syncer[w], w)
    BY <1>1, <1>4, AloneFacts
  <2>2. Core(syncer[w])'
    BY <1>0, <1>1, <2>1 DEF Core, Sole, Promised, Passed, Kept
  <2>3. u < server.next
    BY <1>0, <2>1 DEF Tasks
  <2>4. IF t.msg = NoMsg THEN u \notin OnServer ELSE Sole(syncer[w], u, t.msg)'
    BY <1>0, <1>1, <2>3, AloneFacts DEF Sole, Apart, OnServer
  <2> QED BY <1>0, <1>1, <2>1, <2>2, <2>3, <2>4 DEF Tasks
<1> QED BY <1>2, <1>3, <1>4 DEF AloneInv

(* The message saved is the only promised one with its msg_id, so that its *)
(* row loses no other UID.                                                 *)
LEMMA SettleAlone ==
    ASSUME NEW w, Alone(w), TypeOK, AloneInv(w), Settle(w)
    PROVE  AloneInv(w)'
<1> DEFINE me == syncer[w]
<1>1. PICK t \in hand[w] :
         /\ IF t.msg # NoMsg
            THEN /\ rows' = [rows EXCEPT ![t.msg] = t.uid]
                 /\ folder' = [folder EXCEPT !.known = TRUE]
                 /\ UNCHANGED syncer
            ELSE /\ IF \E m \in Msg : rows[m] = t.uid
                    THEN \E m \in Msg : rows[m] = t.uid /\ DeleteRows({m})
                    ELSE UNCHANGED <<rows, syncer>>
                 /\ UNCHANGED folder
         /\ queue' = [queue EXCEPT ![t.uid] = IF @ = "pending" THEN "done" ELSE @]
  BY Zenon DEF Settle
<1>2. /\ me.pc = "idle" /\ resync = "done" /\ hand'[w] = {}
      /\ UNCHANGED <<server, resync, missed, torn>>
      /\ t.uid \in UID /\ t.msg \in Msg \cup {NoMsg}
      /\ me \in SyncerState /\ Progress(me)
  BY <1>1, AloneFacts DEF Settle, history, Paused, TypeOK
<1>3. PICK r : r = syncer'[w] /\ \E L : r = [me EXCEPT !.listed = L]
  <2>1. me = [me EXCEPT !.listed = me.listed]
    BY <1>2 DEF SyncerState
  <2> QED BY <1>1, <2>1, AloneFacts DEF DeleteRows
<1>4. /\ r.pc = "idle" /\ r.held = me.held /\ r.found = me.found
      /\ r.end = me.end /\ r.top = me.top /\ r.last = me.last /\ r.pos = me.pos
      /\ r.session = me.session /\ r.id = me.id
  BY <1>2, <1>3 DEF SyncerState
<1>5. /\ folder'.last = folder.last /\ folder'.validity = folder.validity
      /\ folder.known => folder'.known
  BY <1>1, AloneFacts DEF Folder
<1>6. OnServer' = OnServer /\ (Sound' => Sound) /\ (Current' <=> Current)
  BY <1>2, <1>5 DEF OnServer, Sound, Current
<1>7. \A u \in UID : queue'[u] = IF u = t.uid /\ queue[u] = "pending" THEN "done" ELSE queue[u]
  BY <1>1, <1>2 DEF TypeOK
<1>8. Apart' /\ Paused(w)' /\ Progress(syncer[w])'
  <2>1. Progress(r)'
    BY <1>2, <1>4, <1>5 DEF Progress
  <2>2. Progress(syncer[w])'
    BY <1>3, <2>1 DEF Progress
  <2> QED BY <1>2, <1>5, <1>6, <2>2, AloneFacts DEF Apart, Paused
<1>9. ASSUME Sound' PROVE Reads(syncer[w])' /\ Unstamped(w)'
  <2>1. folder.validity # 0
    BY <1>1, <1>6, <1>9, AloneFacts DEF Unstamped
  <2> QED BY <1>3, <1>4, <1>5, <2>1 DEF Reads, Unstamped
<1>10. ASSUME Sound', Current' PROVE Core(syncer[w])' /\ Tasks(syncer[w], w)'
  <2>c. Core(me) /\ Tasks(me, w)
    BY <1>6, <1>10, AloneFacts
  <2>t. /\ t.uid < server.next
        /\ IF t.msg = NoMsg THEN t.uid \notin OnServer ELSE Sole(me, t.uid, t.msg)
    BY <1>1, <2>c DEF Tasks
  <2>1. ASSUME NEW u \in UID, Promised(r, u)' PROVE u = t.uid \/ Promised(me, u)
    BY <1>2, <1>4, <1>5, <1>7, <2>1 DEF Promised, Passed
  <2>2. \A u \in OnServer : u \in UID /\ server.box[u] \in Msg
    BY DEF OnServer, TypeOK, Server
  <2>3. ASSUME NEW u \in UID, u = t.uid \/ Promised(me, u) PROVE Kept(u)'
    <3> SUFFICES ASSUME u \in OnServer
                 PROVE  \/ rows'[server.box[u]] = u
                        \/ queue'[u] = "pending"
                        \/ server.box[u] \in missed
      BY <1>2, <1>6 DEF Kept
    <3>1. CASE t.msg # NoMsg
      <4>1. /\ Sole(me, t.uid, t.msg) /\ t.msg \in Msg
            /\ \A m \in Msg : rows'[m] = IF m = t.msg THEN t.uid ELSE rows[m]
        BY <1>1, <1>2, <2>t, <3>1 DEF TypeOK
      <4>2. CASE server.box[u] = t.msg
        <5>1. u = t.uid
          BY <2>3, <4>1, <4>2 DEF Sole
        <5> QED BY <4>1, <4>2, <5>1
      <4>3. CASE server.box[u] # t.msg
        <5>1. u # t.uid
          BY <4>1, <4>3 DEF Sole
        <5>2. Kept(u)
          BY <2>3, <2>c, <5>1 DEF Core
        <5> QED BY <1>7, <2>2, <4>1, <4>3, <5>1, <5>2 DEF Kept
      <4> QED BY <4>2, <4>3
    <3>2. CASE t.msg = NoMsg
      <4>1. u # t.uid
        BY <2>t, <3>2
      <4>2. Kept(u)
        BY <2>3, <2>c, <4>1 DEF Core
      <4>3. \A m \in Msg : rows'[m] = rows[m] \/ rows[m] = t.uid
        BY <1>1, <3>2 DEF DeleteRows
      <4> QED BY <1>7, <2>2, <4>1, <4>2, <4>3 DEF Kept
    <3> QED BY <3>1, <3>2
  <2>4. \A u \in UID : Promised(r, u)' => u < server.next /\ Kept(u)'
    BY <2>1, <2>3, <2>c, <2>t DEF Core
  <2>5. r.held = {}
    BY <1>2, <1>4 DEF Progress
  <2>6. Core(r)'
    BY <1>2, <1>4, <1>6, <2>4, <2>5, <2>c DEF Core
  <2>7. Core(syncer[w])'
    BY <1>3, <2>6 DEF Core, Promised, Passed, Sole
  <2> QED BY <1>2, <1>7, <2>7, <2>c DEF Tasks
<1> QED BY <1>8, <1>9, <1>10 DEF AloneInv

LEMMA CollectAlone ==
    ASSUME NEW w, Alone(w), TypeOK, AloneInv(w), NEW u \in UID, Collect(u)
    PROVE  AloneInv(w)'
<1>1. /\ queue[u] = "done"
      /\ \A v \in UID : queue'[v] = IF v = u THEN "absent" ELSE queue[v]
      /\ UNCHANGED <<server, folder, rows, syncer, hand, resync, missed, torn>>
  BY DEF Collect, history, TypeOK
<1>2. queue # Emptied
  BY <1>1 DEF Emptied
<1>3. OnServer' = OnServer /\ (Sound' => Sound) /\ (Current' <=> Current)
  BY <1>1 DEF OnServer, Sound, Current
<1>4. Apart' /\ Paused(w)' /\ Progress(syncer[w])'
  BY <1>1, <1>2, <1>3, AloneFacts DEF Apart, Paused, Progress
<1>5. Sound' => Reads(syncer[w])' /\ Unstamped(w)'
  BY <1>1, <1>2, <1>3, AloneFacts DEF Reads, Unstamped
<1>6. ASSUME Sound', Current' PROVE Core(syncer[w])' /\ Tasks(syncer[w], w)'
  <2>1. Core(syncer[w]) /\ Tasks(syncer[w], w)
    BY <1>3, <1>6, AloneFacts
  <2>2. \A v \in UID : Promised(syncer[w], v)' => Promised(syncer[w], v)
    BY <1>1 DEF Promised, Passed
  <2>3. \A v \in UID : Kept(v) => Kept(v)'
    BY <1>1, <1>3 DEF Kept
  <2>4. \A x \in UID : \A m : Sole(syncer[w], x, m) => Sole(syncer[w], x, m)'
    BY <1>1, <1>3, <2>2 DEF Sole, OnServer
  <2>5. \A e \in syncer[w].held : e[1] \in UID
    BY AloneFacts DEF SyncerState
  <2>6. \A e \in syncer[w].listed : e[1] \in UID
    BY AloneFacts DEF SyncerState
  <2>7. \A t \in hand[w] : t.uid \in UID
    BY AloneFacts DEF TypeOK
  <2>8. Core(syncer[w])'
    BY <1>1, <1>3, <2>1, <2>2, <2>3, <2>4, <2>5, <2>6 DEF Core
  <2>9. Tasks(syncer[w], w)'
    BY <1>1, <1>3, <2>1, <2>4, <2>7 DEF Tasks
  <2> QED BY <2>8, <2>9
<1> QED BY <1>4, <1>5, <1>6 DEF AloneInv

(* ResetAccountSync runs while no pass does; once it is through the row of *)
(* the folder has no validity, and the first pass takes nothing for done.  *)
LEMMA ResyncAlone ==
    ASSUME NEW w, Alone(w), TypeOK, AloneInv(w), ResyncAccount \/ ResetStep
    PROVE  AloneInv(w)'
<1>i. Progress(Idle) /\ Idle.pc = "idle"
  BY IdleAlone DEF Idle
<1>1. ASSUME UNCHANGED <<server, folder>>, ~Sound', Paused(w)', NEW r, r = syncer'[w],
             r.pc = "idle", Progress(r)
      PROVE  AloneInv(w)'
  <2>1. Progress(syncer[w])'
    BY <1>1 DEF Progress
  <2>2. Apart'
    BY <1>1, AloneFacts DEF Apart, OnServer
  <2> QED BY <1>1, <2>1, <2>2 DEF AloneInv
<1>2. ASSUME resync # "done" PROVE syncer[w].pc = "idle" /\ hand[w] = {}
  BY <1>2, AloneFacts DEF Paused
<1>3. CASE ResyncAccount
  <2>1. /\ syncer'[w] = Idle /\ hand'[w] = {} /\ resync' = "rows"
        /\ UNCHANGED <<server, folder>>
    BY <1>3, AloneFacts DEF ResyncAccount
  <2>2. Paused(w)' /\ ~Sound'
    BY <1>i, <2>1 DEF Paused, Sound
  <2> QED BY <1>i, <1>1, <2>1, <2>2
<1>4. CASE ResetRows
  <2>1. PICK r : /\ r = syncer'[w]
                 /\ r = [syncer[w] EXCEPT !.listed = {e \in @ : e[2] \notin Msg}]
    BY <1>4, AloneFacts DEF ResetRows, DeleteRows
  <2>2. syncer[w].pc = "idle" /\ hand[w] = {}
    BY <1>2, <1>4 DEF ResetRows
  <2>3. /\ r.pc = "idle" /\ r.held = syncer[w].held /\ r.found = syncer[w].found
        /\ r.end = syncer[w].end /\ r.top = syncer[w].top /\ r.last = syncer[w].last
        /\ r.pos = syncer[w].pos /\ r.session = syncer[w].session /\ r.id = syncer[w].id
    BY <2>1, <2>2, AloneFacts DEF SyncerState
  <2>4. Progress(r)
    BY <2>2, <2>3, AloneFacts DEF Progress
  <2>5. UNCHANGED <<server, folder, hand>> /\ resync' = "queue"
    BY <1>4 DEF ResetRows
  <2>6. Paused(w)' /\ ~Sound'
    BY <2>1, <2>2, <2>3, <2>5 DEF Paused, Sound
  <2> QED BY <1>1, <2>1, <2>3, <2>4, <2>5, <2>6
<1>5. CASE ResetQueue
  <2>1. /\ resync = "queue" /\ resync' = "folder" /\ queue' = Emptied
        /\ UNCHANGED <<server, folder, syncer, hand>>
    BY <1>5 DEF ResetQueue
  <2>2. Paused(w)' /\ ~Sound'
    BY <1>2, <2>1 DEF Paused, Sound, Emptied
  <2> QED BY <1>1, <1>2, <2>1, <2>2, AloneFacts
<1>6. CASE CutReset
  <2>1. /\ resync # "done" /\ torn' = TRUE /\ resync' = "done"
        /\ UNCHANGED <<server, folder, syncer, hand>>
    BY <1>6 DEF CutReset
  <2>2. Paused(w)' /\ ~Sound'
    BY <1>2, <2>1 DEF Paused, Sound
  <2> QED BY <1>1, <1>2, <2>1, <2>2, AloneFacts
<1>7. CASE ResetFolder
  <2>1. /\ resync = "folder" /\ resync' = "done"
        /\ folder'.last = 0 /\ folder'.validity = 0 /\ folder'.known = folder.known
        /\ UNCHANGED <<server, queue, syncer, hand, torn>>
    BY <1>7, AloneFacts DEF ResetFolder, history, Folder
  <2>2. syncer[w].pc = "idle" /\ hand[w] = {} /\ Progress(syncer[w])
    BY <1>2, <2>1, AloneFacts
  <2>3. Apart' /\ Paused(w)' /\ Progress(syncer[w])'
    BY <2>1, <2>2, AloneFacts DEF Apart, Paused, Progress, OnServer
  <2>4. ~Current'
    BY <2>1, AloneFacts DEF Current
  <2>5. Sound' => queue' = Emptied
    BY <2>1, AloneFacts DEF Sound, Paused
  <2>6. Sound' => Reads(syncer[w])' /\ Unstamped(w)'
    BY <2>1, <2>2, <2>5 DEF Reads, Unstamped, Emptied
  <2> QED BY <2>3, <2>4, <2>6 DEF AloneInv
<1> QED BY <1>3, <1>4, <1>5, <1>6, <1>7 DEF ResetStep

(* A message that comes gets a UID no pass has seen to, also when it was   *)
(* there before.                                                           *)
LEMMA ServerAlone ==
    ASSUME NEW w, Alone(w), TypeOK, AloneInv(w),
           \/ \E m \in Msg : Deliver(m)
           \/ \E u \in UID : Expunge(u)
           \/ Renumber
    PROVE  AloneInv(w)'
<1>0. UNCHANGED <<folder, rows, queue, syncer, hand, resync, missed, torn>>
  BY DEF Deliver, Expunge, Renumber, history
<1>1. Sound' => Sound
  BY <1>0 DEF Sound
<1>2. Paused(w)'
  BY <1>0, AloneFacts DEF Paused, Emptied
<1>3. Sound' => Reads(syncer[w])' /\ Unstamped(w)'
  BY <1>0, <1>1, AloneFacts DEF Reads, Unstamped, Emptied
<1>4. ASSUME server'.validity = server.validity, server.next <= server'.next,
             server'.next \in Nat,
             \A u \in OnServer' : /\ u \in UID /\ u < server'.next
                                  /\ u < server.next =>
                                        u \in OnServer /\ server'.box[u] = server.box[u],
             \A u, v \in OnServer' : server'.box[u] = server'.box[v] => u = v
      PROVE  AloneInv(w)'
  <2>1. Apart'
    BY <1>0, <1>4, AloneFacts DEF Apart
  <2>2. Progress(syncer[w])'
    <3>1. syncer[w].end \in Nat
      BY AloneFacts, ConstantsAssumption DEF SyncerState
    <3> QED BY <1>0, <1>4, <3>1, AloneFacts DEF Progress
  <2>3. ASSUME Sound', Current' PROVE Core(syncer[w])' /\ Tasks(syncer[w], w)'
    <3>1. Core(syncer[w]) /\ Tasks(syncer[w], w)
      BY <1>0, <1>1, <1>4, <2>3, AloneFacts DEF Current
    <3>2. \A u \in UID : u < server.next => u < server'.next
      BY <1>4, AloneFacts
    <3>3. \A u \in UID : Promised(syncer[w], u)' <=> Promised(syncer[w], u)
      BY <1>0 DEF Promised, Passed
    <3>4. \A u \in UID : u < server.next /\ Kept(u) => Kept(u)'
      BY <1>0, <1>4 DEF Kept
    <3>5. \A u \in UID : \A m : Sole(syncer[w], u, m) => Sole(syncer[w], u, m)'
      BY <1>4, <3>1, <3>2, <3>3 DEF Sole, Core
    <3>6. /\ \A e \in syncer[w].held : e[1] \in UID
          /\ \A e \in syncer[w].listed : e[1] \in UID
          /\ syncer[w].found \subseteq UID
      BY AloneFacts DEF SyncerState
    <3>7. \A t \in hand[w] : t.uid \in UID
      BY AloneFacts DEF TypeOK
    <3>8. \A v \in syncer[w].found : \A u \in OnServer' :
             syncer[w].last < u /\ u <= v => u \in syncer[w].found
      <4> SUFFICES ASSUME NEW v \in syncer[w].found, NEW u \in OnServer', u <= v,
                          syncer[w].last < u
                   PROVE  u \in syncer[w].found
        OBVIOUS
      <4>1. u \in Nat /\ v \in Nat /\ v < server.next
        BY <1>4, <3>1, <3>6, AloneFacts DEF Core
      <4>2. u < server.next
        BY <4>1, AloneFacts
      <4> QED BY <1>4, <3>1, <4>2 DEF Core
    <3>9. Core(syncer[w])'
      BY <1>0, <1>4, <3>1, <3>2, <3>3, <3>4, <3>5, <3>6, <3>8 DEF Core
    <3>10. Tasks(syncer[w], w)'
      BY <1>0, <1>4, <3>1, <3>2, <3>5, <3>7 DEF Tasks
    <3> QED BY <3>9, <3>10
  <2> QED BY <1>2, <1>3, <2>1, <2>2, <2>3 DEF AloneInv
<1>5. ASSUME NEW m \in Msg, Deliver(m) PROVE AloneInv(w)'
  <2>1. /\ server' = [server EXCEPT !.box[server.next] = m, !.next = @ + 1]
        /\ \A u \in UID : server.box[u] # m
        /\ server.next <= MaxUID
    BY <1>5 DEF Deliver
  <2>2. /\ server'.validity = server.validity /\ server'.next = server.next + 1
        /\ \A u \in UID : server'.box[u] = IF u = server.next THEN m ELSE server.box[u]
    BY <2>1, AloneFacts DEF TypeOK, Server
  <2>3. \A u \in OnServer' : \/ u = server.next /\ server'.box[u] = m
                             \/ u \in OnServer /\ server'.box[u] = server.box[u]
    BY <2>2 DEF OnServer
  <2>4. \A u \in OnServer' : u \in UID /\ u < server'.next
    BY <2>2, <2>3, AloneFacts DEF OnServer, Apart
  <2>5. \A u, v \in OnServer' : server'.box[u] = server'.box[v] => u = v
    BY <2>1, <2>3, AloneFacts DEF Apart
  <2>6. server.next \in Nat
    BY AloneFacts
  <2> QED BY <1>4, <2>2, <2>3, <2>4, <2>5, <2>6
<1>6. ASSUME NEW u \in UID, Expunge(u) PROVE AloneInv(w)'
  <2>1. /\ server'.validity = server.validity /\ server'.next = server.next
        /\ \A v \in UID : server'.box[v] = IF v = u THEN NoMsg ELSE server.box[v]
    BY <1>6, AloneFacts DEF Expunge, TypeOK, Server
  <2>2. \A v \in OnServer' : v \in OnServer /\ server'.box[v] = server.box[v]
    BY <2>1 DEF OnServer
  <2> QED BY <1>4, <2>1, <2>2, AloneFacts DEF Apart
<1>7. CASE Renumber
  <2> DEFINE n == Cardinality(OnServer)
             vals == {server.box[u] : u \in OnServer}
  <2>1. PICK f \in [1 .. n -> vals] :
           /\ \A i, j \in 1 .. n : f[i] = f[j] => i = j
           /\ server' = [box |-> [u \in UID |-> IF u <= n THEN f[u] ELSE NoMsg],
                         next |-> n + 1, validity |-> server.validity + 1]
    BY <1>7 DEF Renumber
  <2>2. n \in Nat
    BY OnServerCount, ConstantsAssumption
  <2> HIDE DEF n
  <2>3. /\ server'.next = n + 1 /\ server'.validity = server.validity + 1
        /\ \A u \in UID : server'.box[u] = IF u <= n THEN f[u] ELSE NoMsg
    BY <2>1
  <2>4. \A u \in OnServer' : u \in UID /\ u \in 1 .. n /\ server'.box[u] = f[u]
    BY <2>2, <2>3 DEF OnServer, UID
  <2>5. /\ \A u, v \in OnServer' : server'.box[u] = server'.box[v] => u = v
        /\ \A u \in OnServer' : u < server'.next
    BY <2>1, <2>2, <2>3, <2>4
  <2>6. Apart' /\ ~Current'
    BY <1>0, <2>3, <2>5, AloneFacts DEF Apart, Current
  <2>7. Progress(syncer[w])'
    <3>1. syncer[w].session \in Nat
      BY AloneFacts, ConstantsAssumption DEF SyncerState
    <3> QED BY <1>0, <2>3, <3>1, AloneFacts DEF Progress
  <2> QED BY <1>2, <1>3, <2>6, <2>7 DEF AloneInv
<1> QED BY <1>5, <1>6, <1>7

LEMMA AloneInit ==
    ASSUME NEW w, Alone(w), Init
    PROVE  AloneInv(w)
<1>1. /\ \A u \in UID : server.box[u] = NoMsg
      /\ server.next = 1 /\ server.validity = 1
      /\ folder.last = 0 /\ folder.validity = 0 /\ ~folder.known
      /\ queue = Emptied /\ hand[w] = {} /\ resync = "done" /\ syncer[w] = Idle
  BY DEF Init, Emptied, Alone, Syncer
<1>2. OnServer = {}
  BY <1>1 DEF OnServer
<1>3. Apart /\ Paused(w) /\ Progress(Idle) /\ Reads(Idle) /\ Unstamped(w) /\ ~Current
  BY <1>1, <1>2 DEF Apart, Paused, Progress, Reads, Unstamped, Current, Idle
<1> QED BY <1>1, <1>3 DEF AloneInv

(* The cursor passes over no message under every hazard, messages that     *)
(* come back and new UIDVALIDITYs among them, when one worker alone syncs  *)
(* the folder: a folder other than INBOX, and no user starts a check.      *)
THEOREM CursorCoversAlone ==
    ASSUME NEW w, Alone(w)
    PROVE  Spec => []CursorCovers
<1>1. Init => AloneInv(w)
  BY AloneInit
<1>2. TypeOK /\ AloneInv(w) /\ [Next]_vars => AloneInv(w)'
  <2> SUFFICES ASSUME TypeOK, AloneInv(w), [Next]_vars PROVE AloneInv(w)'
    OBVIOUS
  <2>1. ASSUME NEW s \in Syncer, PassStep(s) PROVE AloneInv(w)'
    <3>1. s = w /\ w \notin Checker
      BY AloneFacts
    <3>2. CASE List(w) \/ Select(w) \/ Validity(w)
      BY <3>2, ListAlone, SelectAlone, ValidityAlone
    <3>3. CASE ClearQueue(w) \/ PurgeRows(w) \/ ZeroCursor(w) \/ Stamp(w)
      BY <3>3, ResetAlone, StampAlone
    <3>4. CASE FullFetch(w) \/ FullSave(w) \/ TakeCheckpoint(w) \/ FullEnd(w)
      BY <3>4, FullFetchAlone, FullSaveAlone, CursorAlone, FullEndAlone
    <3>5. CASE FetchUIDs(w) \/ Enqueue(w) \/ Advance(w)
      BY <3>5, FetchAlone, EnqueueAlone, CursorAlone
    <3>6. CASE Reconcile(w) \/ Search(w) \/ Delete(w)
      BY <3>6, ReconcileAlone, DeleteAlone
    <3>7. CASE FindNew(w) \/ Abort(w)
      BY <3>7, AbortAlone
    <3> QED BY <2>1, <3>1, <3>2, <3>3, <3>4, <3>5, <3>6, <3>7 DEF PassStep
  <2>2. ASSUME NEW x \in Worker, ConsumerStep(x) PROVE AloneInv(w)'
    BY <2>2, TakeAlone, SettleAlone DEF ConsumerStep, Alone
  <2>3. ASSUME NEW u \in UID, Collect(u) PROVE AloneInv(w)'
    BY <2>3, CollectAlone
  <2>4. CASE ResyncAccount \/ ResetStep
    BY <2>4, ResyncAlone
  <2>5. CASE \/ \E m \in Msg : Deliver(m)
             \/ \E u \in UID : Expunge(u)
             \/ Renumber
    BY <2>5, ServerAlone
  <2>6. CASE UNCHANGED vars
    BY <2>6 DEF vars, history, AloneInv, Apart, Paused, Progress, Reads, Unstamped, Core,
                Tasks, Sole, Promised, Passed, Kept, Sound, Current, OnServer, Emptied
  <2> QED BY <2>1, <2>2, <2>3, <2>4, <2>5, <2>6 DEF Next
<1>3. TypeOK /\ AloneInv(w) => CursorCovers
  <2> SUFFICES ASSUME TypeOK, AloneInv(w), AtRest, ~torn, folder.validity = server.validity,
                      NEW u \in OnServer, u <= folder.last
               PROVE  \/ rows[server.box[u]] # 0
                      \/ queue[u] = "pending"
                      \/ server.box[u] \in missed
    BY DEF CursorCovers
  <2>1. Sound /\ Current /\ u \in UID /\ Promised(syncer[w], u)
    BY DEF AtRest, Sound, Current, OnServer, Promised
  <2>2. Kept(u)
    BY <2>1, AloneFacts DEF Core
  <2>3. u # 0
    BY <2>1, ConstantsAssumption DEF UID
  <2> QED BY <2>2, <2>3 DEF Kept
<1> QED BY <1>1, <1>2, <1>3, FolderTypeCorrect, PTL DEF Spec
=============================================================================
