-------------------------- MODULE BackgroundProofs --------------------------
(***************************************************************************)
(* Theorems about what goes on in the background, for every value of the   *)
(* constants: the write worker, the manager of the sync workers, the       *)
(* upload of drafts and the start of the server.                           *)
(***************************************************************************)
EXTENDS MCBackground, FiniteSetTheorems, SequenceTheorems, TLAPS

-----------------------------------------------------------------------------
(* The write worker.                                                       *)

Among(s, w) == \E i \in DOMAIN s : s[i] = w
Distinct(s) == \A i, j \in DOMAIN s : s[i] = s[j] => i = j

LEMMA AppendAmong ==
    ASSUME NEW S, NEW s \in Seq(S), NEW x \in S
    PROVE  /\ Append(s, x) \in Seq(S)
           /\ \A w : Among(Append(s, x), w) <=> (Among(s, w) \/ w = x)
           /\ Distinct(s) /\ ~Among(s, x) => Distinct(Append(s, x))
<1> DEFINE t == Append(s, x)
<1>1. /\ t \in Seq(S) /\ Len(t) = Len(s) + 1
      /\ \A i \in 1 .. Len(s) : t[i] = s[i]
      /\ t[Len(s) + 1] = x
  BY AppendProperties
<1>2. Len(s) \in Nat /\ DOMAIN s = 1 .. Len(s) /\ DOMAIN t = 1 .. Len(s) + 1
  BY <1>1, LenProperties
<1> HIDE DEF t
<1>3. \A w : Among(t, w) <=> (Among(s, w) \/ w = x)
  BY <1>1, <1>2 DEF Among
<1>4. ASSUME Distinct(s), ~Among(s, x) PROVE Distinct(t)
  BY <1>1, <1>2, <1>4 DEF Among, Distinct
<1> QED BY <1>1, <1>3, <1>4 DEF t

LEMMA TailAmong ==
    ASSUME NEW S, NEW s \in Seq(S), s # <<>>
    PROVE  /\ Head(s) \in S /\ Tail(s) \in Seq(S)
           /\ \A w : Among(Tail(s), w) => Among(s, w)
           /\ \A w : Among(s, w) <=> (Among(Tail(s), w) \/ w = Head(s))
           /\ Distinct(s) => Distinct(Tail(s)) /\ ~Among(Tail(s), Head(s))
<1> DEFINE t == Tail(s)
<1>1. /\ Head(s) \in S /\ t \in Seq(S) /\ Len(t) = Len(s) - 1
      /\ \A i \in 1 .. Len(t) : t[i] = s[i + 1]
      /\ Head(s) = s[1]
  BY HeadTailProperties
<1>2. /\ Len(s) \in Nat \ {0} /\ DOMAIN s = 1 .. Len(s) /\ DOMAIN t = 1 .. Len(s) - 1
  BY <1>1, LenProperties, EmptySeq
<1> HIDE DEF t
<1>3. ASSUME NEW w, Among(t, w) PROVE Among(s, w)
  <2>1. PICK i \in DOMAIN t : t[i] = w
    BY <1>3 DEF Among
  <2> QED BY <1>1, <1>2, <2>1 DEF Among
<1>4. ASSUME NEW w, Among(s, w), w # Head(s) PROVE Among(t, w)
  <2>1. PICK i \in DOMAIN s : s[i] = w
    BY <1>4 DEF Among
  <2>2. i - 1 \in DOMAIN t /\ t[i - 1] = w
    BY <1>1, <1>2, <1>4, <2>1
  <2> QED BY <2>2 DEF Among
<1>5. Among(s, Head(s))
  BY <1>1, <1>2 DEF Among
<1>6. ASSUME Distinct(s) PROVE Distinct(t)
  <2> SUFFICES ASSUME NEW i \in DOMAIN t, NEW j \in DOMAIN t, t[i] = t[j] PROVE i = j
    BY DEF Distinct
  <2>1. s[i + 1] = s[j + 1] /\ i + 1 \in DOMAIN s /\ j + 1 \in DOMAIN s
    BY <1>1, <1>2
  <2>2. i + 1 = j + 1
    BY <1>6, <2>1 DEF Distinct
  <2> QED BY <1>2, <2>2
<1>7. ASSUME Distinct(s), Among(t, Head(s)) PROVE FALSE
  <2>1. PICK i \in DOMAIN t : t[i] = Head(s)
    BY <1>7 DEF Among
  <2>2. s[i + 1] = s[1] /\ i + 1 \in DOMAIN s /\ 1 \in DOMAIN s /\ i + 1 # 1
    BY <1>1, <1>2, <2>1
  <2> QED BY <1>7, <2>2 DEF Distinct
<1> QED BY <1>1, <1>3, <1>4, <1>5, <1>6, <1>7 DEF t

------------------------------------------------------------------------------
(* The types of the answers and of the history.                            *)
AnswersOK ==
    /\ result \in [Writer -> {"none", "ok", "busy", "error"}]
    /\ committed \in [Writer -> BOOLEAN]
    /\ overtaken \in [Writer -> Nat]

(* A caller has one write under way: it is in one place.                   *)
OnePlace ==
    /\ (worker = "run") <=> (job # Nobody)
    /\ Distinct(highWrites) /\ Distinct(lowWrites)
    /\ ~Among(highWrites, job) /\ ~Among(lowWrites, job)

(* Where the write of a caller that waits is, and what it has been told.   *)
Answers ==
    \A w \in Writer :
        /\ (caller[w] = "waiting") <=> (Among(highWrites, w) \/ Among(lowWrites, w) \/ job = w)
        /\ caller[w] = "waiting" => ~committed[w]
        /\ caller[w] = "answered" => (result[w] = "ok" <=> committed[w])

(* Between the two selects, the high channel holds only writes that came   *)
(* since the first one found it empty: none of them was overtaken yet.     *)
NotYetOvertaken ==
    /\ LowYields
    /\ worker = "select" => \A w \in User : Among(highWrites, w) => overtaken[w] = 0

Inv == TypeOK /\ AnswersOK /\ OnePlace /\ Answers /\ NotYetOvertaken

LEMMA QueuesTyped ==
    ASSUME Inv
    PROVE  /\ \A w : Among(highWrites, w) => w \in User
           /\ \A w : Among(lowWrites, w) => w \in Writer \ User
<1>1. \A i \in DOMAIN highWrites : highWrites[i] \in User
  BY ElementOfSeq, LenProperties DEF Inv, TypeOK
<1>2. \A i \in DOMAIN lowWrites : lowWrites[i] \in Writer \ User
  BY ElementOfSeq, LenProperties DEF Inv, TypeOK
<1> QED BY <1>1, <1>2 DEF Among

LEMMA InvInit == Init => Inv
<1> SUFFICES ASSUME Init PROVE Inv
  OBVIOUS
<1> USE WriteQueueAssumption
<1>1. \A w : ~Among(<<>>, w)
  BY DEF Among
<1>2. Distinct(<<>>)
  BY DEF Distinct
<1>3. TypeOK
  BY DEF Init, TypeOK, WriteQueueAssumption
<1>4. AnswersOK /\ OnePlace /\ NotYetOvertaken
  BY <1>1, <1>2 DEF Init, AnswersOK, OnePlace, NotYetOvertaken, LowYields, WriteQueueAssumption
<1>5. Answers
  BY <1>1 DEF Init, Answers, WriteQueueAssumption
<1> QED BY <1>3, <1>4, <1>5 DEF Inv

LEMMA EnqueueInv ==
    ASSUME Inv, NEW w \in Writer, EnqueueWrite(w)
    PROVE  Inv'
<1> USE WriteQueueAssumption
<1>0. caller[w] = "idle" /\ ~Among(highWrites, w) /\ ~Among(lowWrites, w) /\ job # w
  BY DEF EnqueueWrite, Inv, Answers
<1>1. /\ highWrites' \in Seq(User) /\ lowWrites' \in Seq(Writer \ User)
      /\ Distinct(highWrites') /\ Distinct(lowWrites')
      /\ \A v : Among(highWrites', v) <=> (Among(highWrites, v) \/ (w \in User /\ v = w))
      /\ \A v : Among(lowWrites', v) <=> (Among(lowWrites, v) \/ (w \notin User /\ v = w))
  <2>1. CASE w \in User
    <3>1. highWrites' = Append(highWrites, w) /\ lowWrites' = lowWrites
      BY <2>1 DEF EnqueueWrite
    <3> QED BY <1>0, <2>1, <3>1, AppendAmong DEF Inv, TypeOK, OnePlace
  <2>2. CASE w \notin User
    <3>1. lowWrites' = Append(lowWrites, w) /\ highWrites' = highWrites
      BY <2>2 DEF EnqueueWrite
    <3>2. w \in Writer \ User
      BY <2>2
    <3> QED BY <1>0, <2>2, <3>1, <3>2, AppendAmong DEF Inv, TypeOK, OnePlace
  <2> QED BY <2>1, <2>2
<1>2. TypeOK'
  BY <1>1 DEF EnqueueWrite, Inv, TypeOK
<1>3. AnswersOK'
  BY DEF EnqueueWrite, Inv, AnswersOK
<1>4. OnePlace'
  BY <1>0, <1>1 DEF EnqueueWrite, Inv, OnePlace
<1>5. Answers'
  BY <1>1 DEF EnqueueWrite, Inv, Answers, AnswersOK, TypeOK
<1>6. NotYetOvertaken'
  BY <1>1 DEF EnqueueWrite, Inv, NotYetOvertaken, LowYields, AnswersOK
<1> QED BY <1>2, <1>3, <1>4, <1>5, <1>6 DEF Inv

LEMMA TakeHighInv == ASSUME Inv, TakeHigh PROVE Inv'
<1> USE WriteQueueAssumption
<1> DEFINE w == Head(highWrites)
<1>1. /\ w \in User /\ highWrites' \in Seq(User) /\ Distinct(highWrites')
      /\ \A v : Among(highWrites', v) => Among(highWrites, v)
      /\ \A v : Among(highWrites, v) <=> (Among(highWrites', v) \/ v = w)
      /\ ~Among(highWrites', w)
  BY TailAmong DEF TakeHigh, Inv, TypeOK, OnePlace
<1>2. job = Nobody /\ job' = w /\ worker' = "run" /\ attempt' = 0
  BY DEF TakeHigh, Run, Inv, OnePlace
<1>3. ~Among(lowWrites, w)
  BY <1>1, QueuesTyped
<1> HIDE DEF w
<1>4. TypeOK'
  BY <1>1, <1>2 DEF TakeHigh, Inv, TypeOK
<1>5. AnswersOK'
  BY DEF TakeHigh, Inv, AnswersOK
<1>6. OnePlace'
  BY <1>1, <1>2, <1>3 DEF TakeHigh, Inv, OnePlace
<1>7. Answers'
  BY <1>1, <1>2 DEF TakeHigh, Inv, Answers
<1>8. NotYetOvertaken'
  BY <1>2 DEF TakeHigh, Inv, NotYetOvertaken, LowYields
<1> QED BY <1>4, <1>5, <1>6, <1>7, <1>8 DEF Inv

LEMMA NoHighInv == ASSUME Inv, NoHigh PROVE Inv'
<1>1. \A v : ~Among(highWrites, v)
  BY DEF NoHigh, Among
<1>2. TypeOK' /\ AnswersOK' /\ OnePlace' /\ Answers'
  BY DEF NoHigh, Inv, TypeOK, AnswersOK, OnePlace, Answers
<1>3. NotYetOvertaken'
  BY <1>1 DEF NoHigh, Inv, NotYetOvertaken, LowYields
<1> QED BY <1>2, <1>3 DEF Inv

LEMMA TakeLowInv == ASSUME Inv, TakeLow PROVE Inv'
<1> USE WriteQueueAssumption
<1> DEFINE w == Head(lowWrites)
<1>1. /\ w \in Writer \ User /\ lowWrites' \in Seq(Writer \ User) /\ Distinct(lowWrites')
      /\ \A v : Among(lowWrites', v) => Among(lowWrites, v)
      /\ \A v : Among(lowWrites, v) <=> (Among(lowWrites', v) \/ v = w)
      /\ ~Among(lowWrites', w)
  BY TailAmong DEF TakeLow, Inv, TypeOK, OnePlace
<1>2. job = Nobody /\ job' = w /\ worker' = "run" /\ attempt' = 0 /\ worker = "select"
  BY DEF TakeLow, LowTurn, Run, Inv, OnePlace
<1>3. ~Among(highWrites, w)
  BY <1>1, QueuesTyped
<1>4. overtaken' = [v \in Writer |-> overtaken[v] + IF Among(highWrites, v) THEN 1 ELSE 0]
  BY DEF TakeLow, Among
<1> HIDE DEF w
<1>5. TypeOK'
  BY <1>1, <1>2 DEF TakeLow, Inv, TypeOK
<1>6. AnswersOK'
  BY <1>4 DEF TakeLow, Inv, AnswersOK
<1>7. OnePlace'
  BY <1>1, <1>2, <1>3 DEF TakeLow, Inv, OnePlace
<1>8. Answers'
  BY <1>1, <1>2 DEF TakeLow, Inv, Answers
<1>9. NotYetOvertaken'
  BY <1>2, <1>4 DEF Inv, AnswersOK, NotYetOvertaken, LowYields
<1> QED BY <1>5, <1>6, <1>7, <1>8, <1>9 DEF Inv

(* The worker has finished with a write, whatever has become of it.        *)
LEMMA DoneInv ==
    ASSUME Inv, worker = "run", NEW r \in {"ok", "busy", "error"}, Done(r),
           UNCHANGED <<highWrites, lowWrites, overtaken>>,
           committed' = [committed EXCEPT ![job] = (r = "ok")]
    PROVE  Inv'
<1> USE WriteQueueAssumption
<1>1. /\ job \in Writer /\ job' = Nobody /\ worker' = "poll" /\ attempt' = 0
      /\ caller' = [caller EXCEPT ![job] = "answered"]
      /\ result' = [result EXCEPT ![job] = r]
  BY DEF Done, Inv, TypeOK, OnePlace
<1>2. TypeOK' /\ AnswersOK'
  BY <1>1 DEF Inv, TypeOK, AnswersOK, WriteQueueAssumption
<1>3. ~Among(highWrites, Nobody) /\ ~Among(lowWrites, Nobody)
  BY QueuesTyped DEF WriteQueueAssumption
<1>4. OnePlace'
  BY <1>1, <1>3 DEF Inv, OnePlace
<1>5. Answers'
  <2> SUFFICES ASSUME NEW w \in Writer
               PROVE  /\ (caller'[w] = "waiting") <=>
                            (Among(highWrites, w) \/ Among(lowWrites, w) \/ job' = w)
                      /\ caller'[w] = "waiting" => ~committed'[w]
                      /\ caller'[w] = "answered" => (result'[w] = "ok" <=> committed'[w])
    BY DEF Answers
  <2>1. CASE w = job
    <3>1. caller'[w] = "answered" /\ result'[w] = r /\ committed'[w] = (r = "ok")
      BY <1>1, <2>1 DEF Inv, TypeOK, AnswersOK
    <3> QED BY <1>1, <2>1, <3>1 DEF Inv, OnePlace, WriteQueueAssumption
  <2>2. CASE w # job
    <3>1. caller'[w] = caller[w] /\ result'[w] = result[w] /\ committed'[w] = committed[w]
      BY <1>1, <2>2 DEF Inv, TypeOK, AnswersOK
    <3> QED BY <1>1, <2>2, <3>1 DEF Inv, Answers, WriteQueueAssumption
  <2> QED BY <2>1, <2>2
<1>6. NotYetOvertaken'
  BY <1>1 DEF Inv, NotYetOvertaken, LowYields
<1> QED BY <1>2, <1>4, <1>5, <1>6 DEF Inv

(* A write that did not take effect leaves the history as it was.          *)
LEMMA Uncommitted ==
    ASSUME Inv, worker = "run", UNCHANGED committed
    PROVE  committed' = [committed EXCEPT ![job] = FALSE]
<1>1. job \in Writer /\ committed[job] = FALSE
  BY DEF Inv, TypeOK, AnswersOK, OnePlace, Answers
<1> QED BY <1>1 DEF Inv, AnswersOK

LEMMA BusyInv == ASSUME Inv, Busy PROVE Inv'
<1> USE WriteQueueAssumption
<1>1. CASE attempt + 1 = MaxAttempts
  <2>1. committed' = [committed EXCEPT ![job] = ("busy" = "ok")]
    BY Uncommitted DEF Busy
  <2> QED BY <1>1, <2>1, DoneInv DEF Busy
<1>2. CASE attempt + 1 # MaxAttempts
  <2>1. /\ attempt' = attempt + 1
        /\ UNCHANGED <<highWrites, lowWrites, worker, job, caller, result, committed, overtaken>>
    BY <1>2 DEF Busy
  <2>2. attempt' \in 0 .. MaxAttempts - 1
    BY <1>2, <2>1 DEF Inv, TypeOK, WriteQueueAssumption
  <2> QED BY <2>1, <2>2 DEF Inv, TypeOK, AnswersOK, OnePlace, Answers, NotYetOvertaken, LowYields
<1> QED BY <1>1, <1>2

LEMMA CommitInv == ASSUME Inv, Commit PROVE Inv'
<1>1. committed' = [committed EXCEPT ![job] = ("ok" = "ok")]
  BY DEF Commit
<1> QED BY <1>1, DoneInv DEF Commit

LEMMA FailInv == ASSUME Inv, Fail PROVE Inv'
<1>1. committed' = [committed EXCEPT ![job] = ("error" = "ok")]
  BY Uncommitted DEF Fail
<1> QED BY <1>1, DoneInv DEF Fail

LEMMA ReturnInv ==
    ASSUME Inv, NEW w \in Writer, Return(w)
    PROVE  Inv'
<1>1. TypeOK' /\ AnswersOK' /\ OnePlace' /\ NotYetOvertaken'
  BY DEF Return, Inv, TypeOK, AnswersOK, OnePlace, NotYetOvertaken, LowYields
<1>2. Answers'
  BY DEF Return, Inv, TypeOK, Answers
<1> QED BY <1>1, <1>2 DEF Inv

LEMMA NextInv == Inv /\ [Next]_writeQueue => Inv'
<1> SUFFICES ASSUME Inv, [Next]_writeQueue PROVE Inv'
  OBVIOUS
<1>1. CASE Work
  BY <1>1, TakeHighInv, NoHighInv, TakeLowInv, BusyInv, CommitInv, FailInv DEF Work
<1>2. CASE \E w \in Writer : EnqueueWrite(w) \/ Return(w)
  BY <1>2, EnqueueInv, ReturnInv
<1>3. CASE UNCHANGED writeQueue
  BY <1>3 DEF writeQueue, Inv, TypeOK, AnswersOK, OnePlace, Answers, NotYetOvertaken, LowYields
<1> QED BY <1>1, <1>2, <1>3 DEF Next

LEMMA InvServes == Inv => WritesServed
BY DEF Inv, Answers, NotYetOvertaken, WritesServed, AnswersMatch, Waiting, Among

(* The write worker is in one of its three places, its queues hold the     *)
(* writes of their kind, and a write is tried at most MaxAttempts times    *)
(* (startWriteWorker, retryBusy).                                          *)
THEOREM WriteQueueTypes == Spec => []TypeOK
<1>1. Inv => TypeOK
  BY DEF Inv
<1> QED BY <1>1, InvInit, NextInv, PTL DEF Spec

(* A caller of enqueueWrite waits exactly as long as its write is queued   *)
(* or running, is told of a success exactly when its write was committed,  *)
(* and is overtaken by at most one write of the synchronisation.           *)
THEOREM WritesAreServed == Spec => []WritesServed
BY InvInit, NextInv, InvServes, PTL DEF Spec

-----------------------------------------------------------------------------
LEMMA Constants ==
    /\ Manager!WorkerManagerAssumption /\ Drafts!DraftSyncAssumption
    /\ Server!BootstrapAssumption
BY BackgroundAssumption DEF BackgroundAssumption

-----------------------------------------------------------------------------
(* Drafts.                                                                 *)

Uploading == uploader.pc \in {"delete", "append", "save"}

LEMMA DraftBounds ==
    /\ UIDPlus \in BOOLEAN
    /\ MaxRetry \in Nat \ {0} /\ MaxEdits \in Nat /\ MaxUID \in Nat /\ MaxFaults \in Nat
BY Constants DEF Drafts!DraftSyncAssumption

(* UIDs are given once; the worker has something to do while it is not     *)
(* idle, and a text while it uploads.                                      *)
DraftShape ==
    /\ Drafts!TypeOK
    /\ uidNext \in 1 .. MaxUID + 1
    /\ \A c \in copies : c.uid < uidNext
    /\ draft.remote < uidNext /\ uploader.remote < uidNext /\ uploader.uid < uidNext
    /\ uploader.pc # "idle" => uploader.todo # <<>>
    /\ Uploading => uploader.text # 0

(* The copy that the row knows is the one that the upload has read of, or  *)
(* none, and gone once a new one is to be appended: SetDraftRemoteUID      *)
(* forgets nothing.                                                        *)
OldCopyHandled ==
    /\ uploader.pc = "delete" => draft.remote \in {0, uploader.remote}
    /\ uploader.pc \in {"append", "save"} =>
          \A c \in copies : c.uid = draft.remote => c.uid \in stray

(* A draft is marked during its upload, unless an edit took the mark away  *)
(* together with the wish to upload it; its text as read is there at the   *)
(* end.  The mark of a draft of its own goes with the flags on Gmail only. *)
UploadMarked ==
    /\ uploader.pc = "store" => draft.reply \/ uploader.gmail
    /\ Uploading => draft.dirty \/ ~promised
    /\ uploader.pc = "save" => \E c \in copies : c.text = uploader.text

DraftInv == DraftShape /\ OldCopyHandled /\ UploadMarked /\ Drafts!DraftsKept

Todo == {<<>>, <<"drafts", "flags">>, <<"flags">>, <<"flags", "drafts">>, <<"drafts">>}

LEMMA TodoTail == \A s \in Todo : s # <<>> => Tail(s) \in Todo
<1>1. Tail(<<"drafts", "flags">>) = <<"flags">> /\ Tail(<<"flags", "drafts">>) = <<"drafts">>
  OBVIOUS
<1>2. Tail(<<"flags">>) = <<>> /\ Tail(<<"drafts">>) = <<>>
  OBVIOUS
<1> QED BY <1>1, <1>2 DEF Todo

LEMMA DraftInit == Drafts!Init => DraftInv
<1> SUFFICES ASSUME Drafts!Init PROVE DraftInv
  OBVIOUS
<1> USE DraftBounds
<1>1. DraftShape
  <2>1. 0 \in Drafts!Text /\ 0 \in Drafts!UID /\ 0 \in 0 .. (MaxRetry - 1) /\ 1 \in 1 .. MaxUID + 1
    BY DEF Drafts!Text, Drafts!UID
  <2>2. /\ draft \in [reply : BOOLEAN, text : Drafts!Text, dirty : BOOLEAN, remote : Drafts!UID]
        /\ draft.remote = 0
    BY <2>1 DEF Drafts!Init
  <2>3. edits \in 0 .. MaxEdits /\ failures \in 0 .. MaxFaults
    BY DEF Drafts!Init
  <2>4. /\ uploader \in [pc : {"idle"}, todo : {<<"drafts", "flags">>}, text : {0}, remote : {0},
                         tries : {0}, uid : {0}, gmail : BOOLEAN]
        /\ copies = {} /\ uidNext = 1 /\ stray = {} /\ promised = FALSE /\ lost = FALSE
    BY DEF Drafts!Init
  <2>5. Drafts!TypeOK
    BY <2>1, <2>2, <2>3, <2>4 DEF Drafts!TypeOK
  <2> QED BY <2>1, <2>2, <2>4, <2>5 DEF DraftShape, Uploading
<1>2. OldCopyHandled /\ UploadMarked /\ Drafts!DraftsKept
  BY DEF Drafts!Init, OldCopyHandled, UploadMarked, Uploading, Drafts!DraftsKept,
         Drafts!CopiesKnown, Drafts!CleanIsUploaded
<1> QED BY <1>1, <1>2 DEF DraftInv

(* A handler writes the row only.                                          *)
LEMMA DraftEdit ==
    ASSUME DraftInv,
           Drafts!SaveDraftReply \/ Drafts!ClearDraftReply \/ Drafts!SaveStandaloneDraft
    PROVE  DraftInv'
<1> USE DraftBounds
<1>0. DraftShape
  BY DEF DraftInv
<1>1. /\ UNCHANGED <<copies, uidNext, uploader, failures>>
      /\ edits' = edits + 1 /\ edits < MaxEdits /\ lost' = FALSE /\ promised' \in BOOLEAN
      /\ draft' \in [reply : BOOLEAN, text : Drafts!Text, dirty : BOOLEAN, remote : Drafts!UID]
      /\ draft'.reply = draft.reply
      /\ \/ draft'.remote = draft.remote /\ stray' = stray
         \/ draft'.remote = 0 /\ stray' = stray \cup ({draft.remote} \ {0})
      /\ draft'.dirty \/ ~promised'
  <2>1. edits' \in Drafts!Text /\ 0 \in Drafts!Text /\ 0 \in Drafts!UID
    <3>1. edits' = edits + 1 /\ edits < MaxEdits
      BY DEF Drafts!Edit, Drafts!SaveDraftReply, Drafts!ClearDraftReply, Drafts!SaveStandaloneDraft
    <3>2. edits \in 0 .. MaxEdits
      BY <1>0 DEF DraftShape, Drafts!TypeOK
    <3> QED BY <3>1, <3>2 DEF Drafts!Text, Drafts!UID
  <2>2. CASE Drafts!SaveDraftReply
    BY <1>0, <2>1, <2>2 DEF DraftShape, Drafts!TypeOK, Drafts!SaveDraftReply, Drafts!Edit
  <2>3. CASE Drafts!ClearDraftReply
    BY <1>0, <2>1, <2>3 DEF DraftShape, Drafts!TypeOK, Drafts!ClearDraftReply, Drafts!Edit
  <2>4. CASE Drafts!SaveStandaloneDraft
    <3>1. PICK b \in BOOLEAN : draft' = [draft EXCEPT !.text = edits', !.dirty = b] /\ promised' = b
      BY <2>4 DEF Drafts!SaveStandaloneDraft
    <3>2. draft \in [reply : BOOLEAN, text : Drafts!Text, dirty : BOOLEAN, remote : Drafts!UID]
      BY <1>0 DEF DraftShape, Drafts!TypeOK
    <3>3. /\ draft' \in [reply : BOOLEAN, text : Drafts!Text, dirty : BOOLEAN, remote : Drafts!UID]
          /\ draft'.remote = draft.remote /\ draft'.dirty = b
      BY <2>1, <3>1, <3>2
    <3> QED BY <2>4, <3>1, <3>3 DEF Drafts!SaveStandaloneDraft, Drafts!Edit
  <2> QED BY <2>2, <2>3, <2>4
<1>2. DraftShape'
  <2>1. edits' \in 0 .. MaxEdits
    BY <1>0, <1>1 DEF DraftShape, Drafts!TypeOK
  <2>2. stray' \subseteq Drafts!UID
    BY <1>0, <1>1 DEF DraftShape, Drafts!TypeOK
  <2>3. draft'.remote < uidNext
    BY <1>0, <1>1 DEF DraftShape, Drafts!TypeOK
  <2> QED BY <1>0, <1>1, <2>1, <2>2, <2>3 DEF DraftShape, Drafts!TypeOK, Drafts!Text, Drafts!UID, Uploading
<1>3. OldCopyHandled' /\ UploadMarked' /\ Drafts!CopiesKnown' /\ Drafts!CleanIsUploaded'
  BY <1>0, <1>1 DEF DraftInv, DraftShape, Drafts!TypeOK, OldCopyHandled, UploadMarked, Uploading,
         Drafts!DraftsKept, Drafts!CopiesKnown, Drafts!CleanIsUploaded
<1> QED BY <1>2, <1>3 DEF DraftInv, Drafts!DraftsKept

Worker == [pc : {"idle", "store", "delete", "append", "save"}, todo : Todo, text : Drafts!Text,
           remote : Drafts!UID, tries : 0 .. (MaxRetry - 1), uid : Drafts!UID, gmail : BOOLEAN]

(* DraftShape, with the sets of its fields named.                          *)
LEMMA DraftFields ==
    DraftShape <=>
        /\ draft \in [reply : BOOLEAN, text : Drafts!Text, dirty : BOOLEAN, remote : Drafts!UID]
        /\ copies \subseteq [uid : Drafts!UID \ {0}, text : Drafts!Text \ {0}]
        /\ \A c, d \in copies : c.uid = d.uid => c = d
        /\ uploader \in Worker
        /\ stray \subseteq Drafts!UID
        /\ promised \in BOOLEAN /\ lost \in BOOLEAN
        /\ edits \in 0 .. MaxEdits /\ failures \in 0 .. MaxFaults
        /\ uidNext \in 1 .. MaxUID + 1
        /\ \A c \in copies : c.uid < uidNext
        /\ draft.remote < uidNext /\ uploader.remote < uidNext /\ uploader.uid < uidNext
        /\ uploader.pc # "idle" => uploader.todo # <<>>
        /\ Uploading => uploader.text # 0
BY DEF DraftShape, Drafts!TypeOK, Worker, Todo

LEMMA DraftFault ==
    ASSUME Drafts!Fault, failures \in 0 .. MaxFaults
    PROVE  failures' \in 0 .. MaxFaults
BY DraftBounds DEF Drafts!Fault

(* A turn ends.                                                            *)
LEMMA TurnEnds ==
    ASSUME uploader \in Worker, uploader.todo # <<>>
    PROVE  LET w == [uploader EXCEPT !.pc = "idle", !.todo = Tail(@)]
           IN w \in Worker /\ w.pc = "idle" /\ w.remote = uploader.remote /\ w.uid = uploader.uid
<1>1. Tail(uploader.todo) \in Todo
  BY TodoTail DEF Worker
<1> QED BY <1>1 DEF Worker

(* Between two uploads nothing is said of the copies by the worker.        *)
LEMMA DraftIdle ==
    ASSUME DraftInv, ~Uploading,
           Drafts!Poll \/ Drafts!SyncFlags \/ Drafts!ClearDirtyFlag
    PROVE  DraftInv'
<1>0. DraftShape
  BY DEF DraftInv
<1>1. /\ uploader' \in Worker /\ uploader'.pc \in {"idle", "store"}
      /\ uploader'.remote = uploader.remote /\ uploader'.uid = uploader.uid
      /\ uploader'.pc # "idle" => uploader'.todo # <<>>
  <2>1. uploader \in Worker /\ (uploader.pc # "idle" => uploader.todo # <<>>)
    BY <1>0, DraftFields
  <2>2. CASE uploader' = [uploader EXCEPT !.todo = <<"flags", "drafts">>] /\ uploader.pc = "idle"
    BY <2>1, <2>2 DEF Worker, Todo
  <2>3. CASE uploader' = [uploader EXCEPT !.pc = "store"] /\ uploader.todo # <<>>
    BY <2>1, <2>3 DEF Worker
  <2>4. CASE Drafts!Done /\ uploader.todo # <<>>
    BY <2>1, <2>4, TurnEnds DEF Drafts!Done
  <2> QED BY <2>1, <2>2, <2>3, <2>4 DEF Drafts!Poll, Drafts!SyncFlags, Drafts!ClearDirtyFlag, Drafts!Turn
<1>2. /\ UNCHANGED <<copies, uidNext, promised, stray, edits>>
      /\ failures' \in 0 .. MaxFaults
      /\ \/ UNCHANGED <<draft, lost>>
         \/ draft' = [draft EXCEPT !.dirty = FALSE] /\ lost' = (lost \/ (draft.dirty /\ promised /\ (draft.reply \/ uploader.gmail)))
  <2>1. failures \in 0 .. MaxFaults
    BY <1>0, DraftFields
  <2> QED BY <2>1, DraftFault DEF Drafts!Poll, Drafts!SyncFlags, Drafts!ClearDirtyFlag
<1>3. /\ draft \in [reply : BOOLEAN, text : Drafts!Text, dirty : BOOLEAN, remote : Drafts!UID]
      /\ draft' \in [reply : BOOLEAN, text : Drafts!Text, dirty : BOOLEAN, remote : Drafts!UID]
      /\ draft'.remote = draft.remote /\ draft'.text = draft.text
      /\ lost' \in BOOLEAN
      /\ \/ draft'.dirty = draft.dirty /\ lost' = lost
         \/ ~draft'.dirty /\ lost' = (lost \/ (draft.dirty /\ promised /\ (draft.reply \/ uploader.gmail)))
  <2>1. draft \in [reply : BOOLEAN, text : Drafts!Text, dirty : BOOLEAN, remote : Drafts!UID]
        /\ promised \in BOOLEAN /\ lost \in BOOLEAN
    BY <1>0, DraftFields
  <2>2. CASE UNCHANGED <<draft, lost>>
    <3>1. draft' = draft /\ lost' = lost
      BY <2>2
    <3>2. draft'.dirty = draft.dirty /\ draft'.remote = draft.remote /\ draft'.text = draft.text
      BY <3>1
    <3>3. draft' \in [reply : BOOLEAN, text : Drafts!Text, dirty : BOOLEAN, remote : Drafts!UID]
      BY <2>1, <3>1
    <3>4. lost' \in BOOLEAN
      BY <2>1, <3>1
    <3> QED BY <2>1, <3>1, <3>2, <3>3, <3>4, Zenon
  <2>3. CASE draft' = [draft EXCEPT !.dirty = FALSE] /\ lost' = (lost \/ (draft.dirty /\ promised /\ (draft.reply \/ uploader.gmail)))
    <3>1. /\ draft' \in [reply : BOOLEAN, text : Drafts!Text, dirty : BOOLEAN, remote : Drafts!UID]
          /\ draft'.remote = draft.remote /\ draft'.text = draft.text /\ ~draft'.dirty
      BY <2>1, <2>3
    <3>2. lost' \in BOOLEAN
      BY <2>3, Zenon
    <3> QED BY <2>1, <2>3, <3>1, <3>2
  <2> QED BY <1>2, <2>2, <2>3
<1>4. ~Uploading'
  BY <1>1 DEF Uploading
<1>5. DraftShape'
  BY <1>0, <1>1, <1>2, <1>3, <1>4, DraftFields DEF DraftShape, Drafts!TypeOK, Worker, Todo
<1>6. OldCopyHandled' /\ UploadMarked'
  <2>1. uploader'.pc = "store" => draft.dirty /\ (draft.reply \/ uploader.gmail)
    BY <1>0, DraftFields DEF Drafts!Poll, Drafts!SyncFlags, Drafts!ClearDirtyFlag, Drafts!Turn,
                            Drafts!Done, Drafts!FlagsToSend, Worker
  <2>2. draft'.reply = draft.reply /\ uploader'.gmail = uploader.gmail
    BY <1>0, DraftFields DEF Drafts!Poll, Drafts!SyncFlags, Drafts!ClearDirtyFlag, Drafts!Done, Worker
  <2> QED BY <1>1, <1>4, <2>1, <2>2 DEF OldCopyHandled, UploadMarked
<1>7. Drafts!CopiesKnown'
  BY <1>1, <1>2, <1>3 DEF DraftInv, Drafts!DraftsKept, Drafts!CopiesKnown, Uploading
<1>8. Drafts!CleanIsUploaded'
  <2>1. CASE draft'.dirty <=> draft.dirty
    <3>1. lost => lost'
      BY <1>2
    <3> QED BY <1>2, <1>3, <2>1, <3>1 DEF DraftInv, Drafts!DraftsKept, Drafts!CleanIsUploaded, Drafts!Uploaded
  <2>2. CASE draft.dirty /\ ~draft'.dirty
    <3>1. Drafts!ClearDirtyFlag
      BY <2>2 DEF Drafts!Poll, Drafts!SyncFlags
    <3>2. draft.reply \/ uploader.gmail
      BY <3>1 DEF Drafts!ClearDirtyFlag, DraftInv, UploadMarked
    <3> QED BY <1>2, <1>3, <2>2, <3>2 DEF Drafts!CleanIsUploaded
  <2>3. draft'.dirty => draft.dirty
    BY <1>2, <1>3
  <2> QED BY <2>1, <2>2, <2>3
<1> QED BY <1>5, <1>6, <1>7, <1>8 DEF DraftInv, Drafts!DraftsKept

(* GetDirtyDrafts takes what is marked; the copy it read of is the row's.  *)
LEMMA DraftRead ==
    ASSUME DraftInv, Drafts!GetDirtyDrafts
    PROVE  DraftInv'
<1>0. DraftShape /\ uploader.pc = "idle" /\ uploader.todo # <<>>
      /\ UNCHANGED <<draft, copies, uidNext, promised, lost, stray, edits, failures>>
  BY DEF DraftInv, Drafts!GetDirtyDrafts, Drafts!Turn
<1>1. CASE Drafts!Done
  <2>1. /\ uploader' \in Worker /\ uploader'.pc = "idle"
        /\ uploader'.remote = uploader.remote /\ uploader'.uid = uploader.uid
    BY <1>0, <1>1, TurnEnds, DraftFields DEF Drafts!Done
  <2>2. DraftShape'
    BY <1>0, <2>1, DraftFields DEF DraftShape, Drafts!TypeOK, Worker, Todo, Uploading
  <2>3. OldCopyHandled' /\ UploadMarked'
    BY <2>1 DEF OldCopyHandled, UploadMarked, Uploading
  <2>4. Drafts!CopiesKnown' /\ Drafts!CleanIsUploaded'
    BY <1>0, <2>1 DEF DraftInv, Drafts!DraftsKept, Drafts!CopiesKnown, Drafts!CleanIsUploaded,
                      Drafts!Uploaded
  <2> QED BY <2>2, <2>3, <2>4 DEF DraftInv, Drafts!DraftsKept
<1>2. CASE Drafts!Dirty /\ uploader' = Drafts!Snapshot
  <2>0. /\ uploader \in Worker
        /\ draft \in [reply : BOOLEAN, text : Drafts!Text, dirty : BOOLEAN, remote : Drafts!UID]
        /\ 0 \in 0 .. (MaxRetry - 1)
    BY <1>0, DraftFields, DraftBounds
  <2>1. /\ uploader' \in Worker /\ uploader'.pc = "delete" /\ uploader'.todo = uploader.todo
        /\ uploader'.text = draft.text
        /\ uploader'.remote = draft.remote /\ uploader'.uid = uploader.uid
    BY <1>2, <2>0 DEF Drafts!Snapshot, Worker
  <2>2. DraftShape'
    BY <1>0, <1>2, <2>1, DraftFields
       DEF DraftShape, Drafts!TypeOK, Worker, Todo, Uploading, Drafts!Dirty
  <2>3. OldCopyHandled' /\ UploadMarked'
    BY <1>0, <1>2, <2>1 DEF OldCopyHandled, UploadMarked, Uploading, Drafts!Dirty
  <2>4. Drafts!CopiesKnown' /\ Drafts!CleanIsUploaded'
    BY <1>0, <2>1 DEF DraftInv, Drafts!DraftsKept, Drafts!CopiesKnown, Drafts!CleanIsUploaded,
                      Drafts!Uploaded
  <2> QED BY <2>2, <2>3, <2>4 DEF DraftInv, Drafts!DraftsKept
<1> QED BY <1>1, <1>2 DEF Drafts!GetDirtyDrafts

(* The copy the row knew is deleted, or remembered as astray.              *)
LEMMA DraftDelete ==
    ASSUME DraftInv, Drafts!DeleteOldDraft
    PROVE  DraftInv'
<1>0. DraftShape /\ uploader.pc = "delete"
      /\ uploader' = [uploader EXCEPT !.pc = "append"]
      /\ UNCHANGED <<draft, uidNext, promised, lost, edits>>
  BY DEF DraftInv, Drafts!DeleteOldDraft
<1>1. /\ copies' \subseteq copies /\ stray \subseteq stray' /\ stray' \subseteq Drafts!UID
      /\ \A c \in copies' : c.uid = uploader.remote => c.uid \in stray'
      /\ failures' \in 0 .. MaxFaults
  <2>0. failures \in 0 .. MaxFaults /\ stray \subseteq Drafts!UID /\ uploader.remote \in Drafts!UID
    BY <1>0, DraftFields DEF Worker
  <2>1. CASE copies' = {c \in copies : c.uid # uploader.remote} /\ UNCHANGED <<stray, failures>>
    BY <2>0, <2>1
  <2>2. CASE Drafts!Fault /\ stray' = stray \cup {uploader.remote} /\ UNCHANGED copies
    BY <2>0, <2>2, DraftFault
  <2> QED BY <2>1, <2>2 DEF Drafts!DeleteOldDraft
<1>2. /\ uploader' \in Worker /\ uploader'.pc = "append" /\ uploader'.todo = uploader.todo
      /\ uploader'.text = uploader.text
      /\ uploader'.remote = uploader.remote /\ uploader'.uid = uploader.uid
  BY <1>0, DraftFields DEF Worker
<1>3. DraftShape'
  BY <1>0, <1>1, <1>2, DraftFields DEF DraftShape, Drafts!TypeOK, Worker, Todo, Uploading
<1>4. \A c \in copies : c.uid # 0
  BY <1>0, DraftFields
<1>5. OldCopyHandled' /\ UploadMarked'
  BY <1>0, <1>1, <1>2, <1>4 DEF DraftInv, OldCopyHandled, UploadMarked, Uploading
<1>6. Drafts!CopiesKnown'
  BY <1>0, <1>1, <1>2 DEF DraftInv, Drafts!DraftsKept, Drafts!CopiesKnown
<1>7. Drafts!CleanIsUploaded'
  BY <1>0 DEF DraftInv, UploadMarked, Uploading, Drafts!CleanIsUploaded
<1> QED BY <1>3, <1>5, <1>6, <1>7 DEF DraftInv, Drafts!DraftsKept

(* APPEND makes a copy with a UID of its own, which the worker keeps or    *)
(* which is astray.                                                        *)
LEMMA DraftAppend ==
    ASSUME DraftInv, Drafts!AppendDraft
    PROVE  DraftInv'
<1>0. /\ DraftShape /\ uploader.pc = "append" /\ uidNext <= MaxUID
      /\ UNCHANGED <<draft, promised, lost, edits>>
  BY DEF DraftInv, Drafts!AppendDraft
<1> DEFINE new == [uid |-> uidNext, text |-> uploader.text]
<1>1. /\ uploader \in Worker /\ uploader.todo # <<>> /\ uploader.text # 0
      /\ failures \in 0 .. MaxFaults /\ stray \subseteq Drafts!UID
      /\ uidNext \in Drafts!UID \ {0} /\ uidNext + 1 \in 1 .. MaxUID + 1
      /\ draft.remote < uidNext /\ uploader.remote < uidNext /\ uploader.uid < uidNext
      /\ uidNext \in Nat
  BY <1>0, DraftFields, DraftBounds DEF Drafts!UID, Uploading
<1>2. /\ \/ uploader' = [uploader EXCEPT !.pc = "save", !.uid = IF UIDPlus THEN uidNext ELSE 0]
            /\ copies' = copies \cup {new} /\ uidNext' = uidNext + 1
            /\ (UIDPlus \/ uidNext \in stray')
         \/ /\ uploader' = Drafts!AfterFailure
            /\ \/ UNCHANGED <<copies, uidNext>>
               \/ copies' = copies \cup {new} /\ uidNext' = uidNext + 1 /\ uidNext \in stray'
      /\ stray \subseteq stray' /\ stray' \subseteq stray \cup {uidNext}
      /\ failures' \in 0 .. MaxFaults
  BY <1>1, DraftFault, DraftBounds DEF Drafts!AppendDraft, Drafts!Appended
<1>3. /\ uploader' \in Worker /\ uploader'.remote = uploader.remote
      /\ uploader'.pc # "idle" => uploader'.todo # <<>> /\ uploader'.text = uploader.text
      /\ \/ uploader'.pc = "save" /\ new \in copies' /\ uidNext' = uidNext + 1
            /\ uploader'.uid \in {0, uidNext} /\ (uploader'.uid = uidNext \/ uidNext \in stray')
         \/ uploader'.pc \in {"append", "idle"} /\ uploader'.uid = uploader.uid
            /\ (copies' = copies \/ uidNext \in stray')
      /\ \/ copies' = copies /\ uidNext' = uidNext
         \/ copies' = copies \cup {new} /\ uidNext' = uidNext + 1
  <2>1. CASE /\ uploader' = [uploader EXCEPT !.pc = "save", !.uid = IF UIDPlus THEN uidNext ELSE 0]
             /\ copies' = copies \cup {new} /\ uidNext' = uidNext + 1
             /\ (UIDPlus \/ uidNext \in stray')
    <3>1. 0 \in Drafts!UID
      BY DraftBounds DEF Drafts!UID
    <3>2. /\ uploader' \in Worker /\ uploader'.remote = uploader.remote
          /\ uploader'.pc = "save" /\ uploader'.todo = uploader.todo /\ uploader'.text = uploader.text
          /\ uploader'.uid = IF UIDPlus THEN uidNext ELSE 0
      BY <1>1, <2>1, <3>1 DEF Worker
    <3>3. new \in copies'
      BY <2>1
    <3> QED BY <1>1, <2>1, <3>2, <3>3
  <2>2. CASE /\ uploader' = Drafts!AfterFailure
             /\ \/ UNCHANGED <<copies, uidNext>>
                \/ copies' = copies \cup {new} /\ uidNext' = uidNext + 1 /\ uidNext \in stray'
    <3>1. CASE uploader' = [uploader EXCEPT !.tries = @ + 1] /\ uploader.tries + 1 < MaxRetry
      BY <1>0, <1>1, <2>2, <3>1, DraftBounds DEF Worker
    <3>2. CASE uploader' = [uploader EXCEPT !.pc = "idle", !.todo = Tail(@)]
      BY <1>1, <2>2, <3>2, TurnEnds
    <3> QED BY <2>2, <3>1, <3>2 DEF Drafts!AfterFailure
  <2> QED BY <1>2, <2>1, <2>2
<1>4. /\ new \in [uid : Drafts!UID \ {0}, text : Drafts!Text \ {0}]
      /\ \A c \in copies : c.uid < uidNext /\ c.uid \in Nat
      /\ copies \subseteq [uid : Drafts!UID \ {0}, text : Drafts!Text \ {0}]
      /\ \A c, d \in copies : c.uid = d.uid => c = d
  BY <1>0, <1>1, DraftFields DEF Worker, Drafts!UID
<1> HIDE DEF new
<1>5. /\ new.uid = uidNext /\ new.text = uploader.text
  BY DEF new
<1>6. /\ copies' \subseteq [uid : Drafts!UID \ {0}, text : Drafts!Text \ {0}]
      /\ \A c, d \in copies' : c.uid = d.uid => c = d
      /\ uidNext' \in 1 .. MaxUID + 1
      /\ \A c \in copies' : c.uid < uidNext'
      /\ draft.remote < uidNext' /\ uploader'.remote < uidNext' /\ uploader'.uid < uidNext'
  <2>1. CASE copies' = copies /\ uidNext' = uidNext
    BY <1>0, <1>1, <1>3, <1>4, <2>1, DraftFields
  <2>2. CASE copies' = copies \cup {new} /\ uidNext' = uidNext + 1
    <3>1. \A c, d \in copies' : c.uid = d.uid => c = d
      BY <1>1, <1>4, <1>5, <2>2
    <3>2. \A c \in copies' : c.uid < uidNext'
      BY <1>1, <1>4, <1>5, <2>2
    <3>3. uploader'.remote < uidNext' /\ uploader'.uid < uidNext' /\ draft.remote < uidNext'
      <4>1. draft.remote \in Nat /\ uploader.remote \in Nat /\ uploader.uid \in Nat
        BY <1>0, <1>1, DraftFields, DraftBounds DEF Worker, Drafts!UID
      <4> QED BY <1>1, <1>3, <2>2, <4>1
    <3> QED BY <1>1, <1>4, <2>2, <3>1, <3>2, <3>3
  <2> QED BY <1>3, <2>1, <2>2
<1>7. DraftShape'
  <2>1. stray' \subseteq Drafts!UID
    BY <1>1, <1>2
  <2>2. uploader'.pc # "idle" => uploader'.todo # <<>> /\ uploader'.text # 0
    BY <1>1, <1>3
  <2> QED BY <1>0, <1>2, <1>3, <1>6, <2>1, <2>2, DraftFields
          DEF DraftShape, Drafts!TypeOK, Worker, Todo, Uploading
<1>8. OldCopyHandled'
  BY <1>0, <1>1, <1>2, <1>3, <1>5 DEF DraftInv, OldCopyHandled
<1>9. UploadMarked'
  BY <1>0, <1>1, <1>3, <1>5 DEF DraftInv, UploadMarked, Uploading
<1>10. Drafts!CopiesKnown'
  BY <1>0, <1>1, <1>2, <1>3, <1>5 DEF DraftInv, Drafts!DraftsKept, Drafts!CopiesKnown
<1>11. Drafts!CleanIsUploaded'
  BY <1>0, <1>3 DEF DraftInv, Drafts!DraftsKept, Drafts!CleanIsUploaded, Drafts!Uploaded
<1> QED BY <1>7, <1>8, <1>9, <1>10, <1>11 DEF DraftInv, Drafts!DraftsKept

(* The row is told of the new copy; the old one is gone or astray.         *)
LEMMA DraftSaved ==
    ASSUME DraftInv, Drafts!SetDraftRemoteUID
    PROVE  DraftInv'
<1>0. /\ DraftShape /\ uploader.pc = "save" /\ Drafts!Done
      /\ UNCHANGED <<copies, uidNext, promised, edits>>
  BY DEF DraftInv, Drafts!SetDraftRemoteUID
<1>1. /\ uploader \in Worker /\ uploader.todo # <<>>
      /\ failures \in 0 .. MaxFaults /\ stray \subseteq Drafts!UID
      /\ draft \in [reply : BOOLEAN, text : Drafts!Text, dirty : BOOLEAN, remote : Drafts!UID]
      /\ promised \in BOOLEAN /\ lost \in BOOLEAN
      /\ uploader.uid \in Drafts!UID /\ uploader.uid < uidNext
  BY <1>0, DraftFields DEF Worker
<1>2. /\ uploader' \in Worker /\ uploader'.pc = "idle"
      /\ uploader'.remote = uploader.remote /\ uploader'.uid = uploader.uid
  BY <1>0, <1>1, TurnEnds DEF Drafts!Done
<1>3. CASE /\ draft' = [draft EXCEPT !.remote = uploader.uid, !.dirty = FALSE]
           /\ lost' = (lost \/ (draft.dirty /\ promised /\ draft.text # uploader.text))
           /\ UNCHANGED <<stray, failures>>
  <2>1. /\ draft' \in [reply : BOOLEAN, text : Drafts!Text, dirty : BOOLEAN, remote : Drafts!UID]
        /\ draft'.remote = uploader.uid /\ ~draft'.dirty /\ draft'.text = draft.text
    BY <1>1, <1>3
  <2>2. lost' \in BOOLEAN
    BY <1>3, Zenon
  <2>3. DraftShape'
    BY <1>0, <1>1, <1>2, <1>3, <2>1, <2>2, DraftFields
       DEF DraftShape, Drafts!TypeOK, Worker, Todo, Uploading
  <2>4. OldCopyHandled' /\ UploadMarked'
    BY <1>2 DEF OldCopyHandled, UploadMarked, Uploading
  <2>5. Drafts!CopiesKnown'
    BY <1>0, <1>2, <1>3, <2>1 DEF DraftInv, OldCopyHandled, Drafts!DraftsKept, Drafts!CopiesKnown
  <2>6. Drafts!CleanIsUploaded'
    <3>1. PICK c \in copies : c.text = uploader.text
      BY <1>0 DEF DraftInv, UploadMarked
    <3>2. CASE draft.dirty
      BY <1>0, <1>3, <2>1, <3>1, <3>2 DEF Drafts!CleanIsUploaded, Drafts!Uploaded
    <3>3. CASE ~draft.dirty
      BY <1>0, <1>3, <2>1, <3>3 DEF DraftInv, Drafts!DraftsKept, Drafts!CleanIsUploaded,
                                    Drafts!Uploaded
    <3> QED BY <3>2, <3>3
  <2> QED BY <2>3, <2>4, <2>5, <2>6 DEF DraftInv, Drafts!DraftsKept
<1>4. CASE Drafts!Fault /\ stray' = stray \cup {uploader.uid} /\ UNCHANGED <<draft, lost>>
  <2>1. failures' \in 0 .. MaxFaults /\ stray' \subseteq Drafts!UID
    BY <1>1, <1>4, DraftFault
  <2>2. DraftShape'
    BY <1>0, <1>2, <1>4, <2>1, DraftFields
       DEF DraftShape, Drafts!TypeOK, Worker, Todo, Uploading
  <2>3. OldCopyHandled' /\ UploadMarked'
    BY <1>2 DEF OldCopyHandled, UploadMarked, Uploading
  <2>4. Drafts!CopiesKnown' /\ Drafts!CleanIsUploaded'
    BY <1>0, <1>4 DEF DraftInv, Drafts!DraftsKept, Drafts!CopiesKnown, Drafts!CleanIsUploaded,
                      Drafts!Uploaded
  <2> QED BY <2>2, <2>3, <2>4 DEF DraftInv, Drafts!DraftsKept
<1> QED BY <1>3, <1>4 DEF Drafts!SetDraftRemoteUID

(* A session that ends between APPEND and the write of the row leaves the  *)
(* copy astray.                                                            *)
LEMMA DraftStop ==
    ASSUME DraftInv, Drafts!Stop
    PROVE  DraftInv'
<1>0. /\ DraftShape /\ Drafts!Fault
      /\ uploader' = [uploader EXCEPT !.pc = "idle", !.todo = <<"drafts", "flags">>]
      /\ stray' = IF uploader.pc = "save" THEN stray \cup {uploader.uid} ELSE stray
      /\ UNCHANGED <<draft, copies, uidNext, promised, lost, edits>>
  BY DEF DraftInv, Drafts!Stop
<1>1. /\ uploader' \in Worker /\ uploader'.pc = "idle"
      /\ uploader'.remote = uploader.remote /\ uploader'.uid = uploader.uid
  BY <1>0, DraftFields DEF Worker, Todo
<1>2. failures' \in 0 .. MaxFaults /\ stray' \subseteq Drafts!UID
  BY <1>0, DraftFault, DraftFields DEF Worker
<1>3. DraftShape'
  BY <1>0, <1>1, <1>2, DraftFields DEF DraftShape, Drafts!TypeOK, Worker, Todo, Uploading
<1>4. OldCopyHandled' /\ UploadMarked'
  BY <1>1 DEF OldCopyHandled, UploadMarked, Uploading
<1>5. Drafts!CopiesKnown' /\ Drafts!CleanIsUploaded'
  BY <1>0 DEF DraftInv, Drafts!DraftsKept, Drafts!CopiesKnown, Drafts!CleanIsUploaded,
              Drafts!Uploaded
<1> QED BY <1>3, <1>4, <1>5 DEF DraftInv, Drafts!DraftsKept

LEMMA DraftNext == DraftInv /\ (Drafts!Next \/ UNCHANGED drafts) => DraftInv'
<1>1. ASSUME DraftInv, Drafts!Next PROVE DraftInv'
  <2>1. CASE Drafts!Poll \/ Drafts!SyncFlags \/ Drafts!ClearDirtyFlag
    <3>1. ~Uploading
      BY <2>1 DEF Drafts!Poll, Drafts!SyncFlags, Drafts!ClearDirtyFlag, Drafts!Turn, Uploading
    <3> QED BY <1>1, <2>1, <3>1, DraftIdle
  <2> QED BY <1>1, <2>1, DraftEdit, DraftRead, DraftDelete, DraftAppend, DraftSaved, DraftStop
          DEF Drafts!Next, Drafts!WorkerStep
<1>2. ASSUME DraftInv, UNCHANGED drafts PROVE DraftInv'
  <2>1. UNCHANGED <<draft, copies, uidNext, uploader, promised, lost, stray, edits, failures>>
    BY <1>2 DEF drafts
  <2>2. DraftShape'
    BY <1>2, <2>1 DEF DraftInv, DraftShape, Drafts!TypeOK, Uploading
  <2>3. OldCopyHandled' /\ UploadMarked' /\ Drafts!DraftsKept'
    BY <1>2, <2>1 DEF DraftInv, OldCopyHandled, UploadMarked, Uploading, Drafts!DraftsKept,
                  Drafts!CopiesKnown, Drafts!CleanIsUploaded, Drafts!Uploaded
  <2> QED BY <2>2, <2>3 DEF DraftInv
<1> QED BY <1>1, <1>2

-----------------------------------------------------------------------------
(* The start of the server.                                                *)

Migrations == Server!Files

LEMMA StartBounds ==
    /\ Migrations \in Seq(Server!File) /\ NoColumn \notin MCColumn /\ answered \in MCColumn
    /\ MaxFaults \in Nat
BY Constants DEF Server!BootstrapAssumption, Migrations

(* A file that has been executed and is about to be recorded has had its   *)
(* effect.                                                                 *)
AboutToRecord ==
    start = "record" =>
        /\ file \in DOMAIN Migrations
        /\ Migrations[file].syntax # "ifnotexists" =>
              Migrations[file].adds \in columns \cup {NoColumn}

(* A start that passes over InitSchema with no failed statement has every  *)
(* column from there on.                                                   *)
SchemaSeen ==
    found /\ ~faulty =>
        /\ start = "schema" => MCColumn \ todo \subseteq columns
        /\ start \in {"backfill", "migrate", "record", "ready"} => columns = MCColumn

StartInv ==
    /\ Server!TypeOK /\ found \in BOOLEAN
    /\ start \in {"schema", "backfill", "migrate", "record"} => file >= 1
    /\ AboutToRecord /\ SchemaSeen /\ Server!RecordedHasEffect

LEMMA StartShape ==
    Server!TypeOK <=>
        /\ columns \subseteq MCColumn
        /\ executed \subseteq recorded /\ recorded \subseteq {Migrations[i] : i \in DOMAIN Migrations}
        /\ start \in {"down", "schema", "backfill", "migrate", "record", "ready"}
        /\ todo \subseteq MCColumn /\ file \in 0 .. Len(Migrations) + 1
        /\ faults \in 0 .. MaxFaults
BY DEF Server!TypeOK, Migrations

LEMMA StartInit == Server!Init => StartInv
<1> SUFFICES ASSUME Server!Init PROVE StartInv
  OBVIOUS
<1>1. Server!TypeOK
  BY StartShape, StartBounds DEF Server!Init
<1> QED BY <1>1 DEF Server!Init, StartInv, AboutToRecord, SchemaSeen, Server!RecordedHasEffect

(* Columns are only added.                                                 *)
LEMMA ColumnAdded ==
    ASSUME columns \subseteq MCColumn, NEW c \in MCColumn \cup {NoColumn}
    PROVE  /\ columns \subseteq Server!With(c) /\ Server!With(c) \subseteq MCColumn
           /\ c \in Server!With(c) \cup {NoColumn}
BY DEF Server!With

LEMMA FileAdds ==
    \A i \in DOMAIN Migrations : Migrations[i].adds \in MCColumn \cup {NoColumn}
<1> SUFFICES ASSUME NEW i \in DOMAIN Migrations
             PROVE  Migrations[i].adds \in MCColumn \cup {NoColumn}
  OBVIOUS
<1>1. Migrations[i] \in Server!File
  BY StartBounds
<1> QED BY <1>1 DEF Server!File

(* A step that executes and records nothing keeps what was recorded.       *)
LEMMA EffectStays ==
    ASSUME Server!RecordedHasEffect, executed' = executed, columns \subseteq columns'
    PROVE  Server!RecordedHasEffect'
BY DEF Server!RecordedHasEffect

LEMMA StartSchema ==
    ASSUME StartInv,
           Server!Start \/ Server!SchemaDone \/ (\E c \in MCColumn : Server!AddColumn(c))
    PROVE  StartInv'
<1>0. /\ columns \subseteq MCColumn /\ todo \subseteq MCColumn /\ faults \in 0 .. MaxFaults
      /\ found \in BOOLEAN /\ file \in 0 .. Len(Migrations) + 1
      /\ Len(Migrations) \in Nat /\ MaxFaults \in Nat
  BY StartShape, StartBounds, LenProperties DEF StartInv
<1>1. CASE Server!Start
  <2>1. Server!TypeOK'
    BY <1>0, <1>1, StartShape DEF StartInv, Server!Start, Server!TypeOK, Migrations
  <2> QED BY <1>0, <1>1, <2>1 DEF StartInv, Server!Start, AboutToRecord, SchemaSeen,
             Server!RecordedHasEffect
<1>2. CASE Server!SchemaDone
  <2>1. Server!TypeOK'
    BY <1>0, <1>2, StartShape DEF StartInv, Server!SchemaDone, Server!TypeOK, Migrations
  <2> QED BY <1>0, <1>2, <2>1 DEF StartInv, Server!SchemaDone, AboutToRecord, SchemaSeen,
             Server!RecordedHasEffect
<1>3. ASSUME NEW c \in MCColumn, Server!AddColumn(c) PROVE StartInv'
  <2>1. /\ columns \subseteq columns' /\ columns' \subseteq MCColumn
        /\ c \in columns' \/ faulty'
        /\ faults' \in 0 .. MaxFaults
        /\ start = "schema" /\ todo' = todo \ {c}
        /\ UNCHANGED <<recorded, executed, found, start, file>>
    BY <1>0, <1>3, ColumnAdded, StartBounds DEF Server!AddColumn, Server!Fault
  <2>2. Server!TypeOK'
    BY <1>0, <2>1, StartShape DEF StartInv, Server!TypeOK, Migrations
  <2>3. SchemaSeen'
    BY <1>3, <2>1 DEF StartInv, SchemaSeen, Server!AddColumn
  <2>4. Server!RecordedHasEffect'
    BY <2>1, EffectStays DEF StartInv
  <2>5. AboutToRecord'
    BY <2>1 DEF AboutToRecord
  <2> QED BY <1>0, <2>1, <2>2, <2>3, <2>4, <2>5 DEF StartInv
<1> QED BY <1>1, <1>2, <1>3

LEMMA StartMigrations ==
    ASSUME StartInv,
           Server!Backfill \/ Server!Skip \/ Server!Stop \/ Server!Ready
    PROVE  StartInv'
<1>0. /\ columns \subseteq MCColumn /\ todo \subseteq MCColumn /\ faults \in 0 .. MaxFaults
      /\ found \in BOOLEAN /\ file \in 0 .. Len(Migrations) + 1
      /\ Len(Migrations) \in Nat /\ MaxFaults \in Nat
      /\ DOMAIN Migrations = 1 .. Len(Migrations)
      /\ executed \subseteq recorded /\ recorded \subseteq {Migrations[i] : i \in DOMAIN Migrations}
  BY StartShape, StartBounds, LenProperties DEF StartInv
<1>1. CASE Server!Backfill
  <2>1. /\ UNCHANGED <<columns, executed, found, todo, faulty, faults>>
        /\ start = "backfill" /\ start' \in {"backfill", "migrate"} /\ file >= 1
        /\ \/ file <= Len(Migrations) /\ recorded' = recorded \cup {Migrations[file]} /\ file' = file + 1
           \/ file' = 1 /\ recorded' = recorded
    BY <1>1 DEF StartInv, Server!Backfill, Migrations
  <2>2. file' \in 1 .. Len(Migrations) + 1
        /\ recorded \subseteq recorded' /\ recorded' \subseteq {Migrations[i] : i \in DOMAIN Migrations}
    BY <1>0, <2>1
  <2>3. Server!TypeOK'
    BY <1>0, <2>1, <2>2, StartShape DEF StartInv, Server!TypeOK, Migrations
  <2> QED BY <1>0, <2>1, <2>2, <2>3 DEF StartInv, AboutToRecord, SchemaSeen,
             Server!RecordedHasEffect
<1>2. CASE Server!Skip
  <2>1. Server!TypeOK' /\ file' >= 1
    BY <1>0, <1>2, StartShape DEF StartInv, Server!Skip, Server!TypeOK, Migrations
  <2> QED BY <1>0, <1>2, <2>1 DEF StartInv, Server!Skip, AboutToRecord, SchemaSeen,
             Server!RecordedHasEffect
<1>3. CASE Server!Stop
  <2>1. Server!TypeOK'
    BY <1>0, <1>3, StartShape DEF StartInv, Server!Stop, Server!Fault, Server!TypeOK, Migrations
  <2> QED BY <1>0, <1>3, <2>1 DEF StartInv, Server!Stop, AboutToRecord, SchemaSeen,
             Server!RecordedHasEffect
<1>4. CASE Server!Ready
  <2>1. /\ columns \subseteq columns' /\ columns' \subseteq MCColumn
        /\ start = "migrate" /\ start' = "ready"
        /\ UNCHANGED <<recorded, executed, found, todo, file, faulty, faults>>
    BY <1>0, <1>4, ColumnAdded, StartBounds DEF Server!Ready
  <2>2. Server!TypeOK'
    BY <1>0, <2>1, StartShape DEF StartInv, Server!TypeOK, Migrations
  <2> QED BY <1>0, <2>1, <2>2, EffectStays DEF StartInv, AboutToRecord, SchemaSeen
<1> QED BY <1>1, <1>2, <1>3, <1>4

(* The statements of a file, and its record in a step of its own.          *)
LEMMA StartExecute ==
    ASSUME StartInv, Server!Execute \/ Server!Record
    PROVE  StartInv'
<1>0. /\ columns \subseteq MCColumn /\ todo \subseteq MCColumn /\ faults \in 0 .. MaxFaults
      /\ found \in BOOLEAN /\ file \in 0 .. Len(Migrations) + 1
      /\ Len(Migrations) \in Nat /\ DOMAIN Migrations = 1 .. Len(Migrations)
      /\ executed \subseteq recorded /\ recorded \subseteq {Migrations[i] : i \in DOMAIN Migrations}
  BY StartShape, StartBounds, LenProperties DEF StartInv
<1>1. CASE Server!Execute
  <2> DEFINE f == Migrations[file]
  <2>1. /\ start = "migrate" /\ file \in DOMAIN Migrations
        /\ UNCHANGED <<recorded, executed, found, todo, file, faulty, faults>>
        /\ start' = IF Server!Succeeds(f) \/ Server!Benign(f) THEN "record" ELSE "down"
        /\ columns' = IF Server!Succeeds(f) THEN Server!With(f.adds) ELSE columns
    BY <1>0, <1>1 DEF StartInv, Server!Execute, Migrations
  <2>2. f.adds \in MCColumn \cup {NoColumn}
    BY <2>1, FileAdds
  <2> HIDE DEF f
  <2>3. columns \subseteq columns' /\ columns' \subseteq MCColumn
    BY <1>0, <2>1, <2>2, ColumnAdded
  <2>4. start' = "record" => f.syntax = "ifnotexists" \/ f.adds \in columns' \cup {NoColumn}
    BY <1>0, <2>1, <2>2, <2>3, ColumnAdded DEF Server!Succeeds, Server!Benign
  <2>5. Server!TypeOK'
    BY <1>0, <2>1, <2>3, StartShape DEF StartInv, Server!TypeOK, Migrations
  <2>6. AboutToRecord'
    BY <2>1, <2>4 DEF AboutToRecord, f
  <2>7. SchemaSeen'
    BY <2>1, <2>3 DEF StartInv, SchemaSeen
  <2> QED BY <1>0, <2>1, <2>3, <2>5, <2>6, <2>7, EffectStays DEF StartInv
<1>2. CASE Server!Record
  <2> DEFINE f == Migrations[file]
  <2>1. /\ start = "record" /\ file \in DOMAIN Migrations
        /\ recorded' = recorded \cup {f} /\ executed' = executed \cup {f}
        /\ file' = file + 1 /\ start' = "migrate"
        /\ UNCHANGED <<columns, found, todo, faulty, faults>>
        /\ f.syntax # "ifnotexists" => f.adds \in columns \cup {NoColumn}
    BY <1>2 DEF StartInv, AboutToRecord, Server!Record, Migrations
  <2> HIDE DEF f
  <2>2. /\ f \in {Migrations[i] : i \in DOMAIN Migrations}
        /\ file' \in 1 .. Len(Migrations) + 1
    BY <1>0, <2>1 DEF f
  <2>3. Server!TypeOK'
    BY <1>0, <2>1, <2>2, StartShape DEF StartInv, Server!TypeOK, Migrations
  <2>4. Server!RecordedHasEffect'
    BY <2>1 DEF StartInv, Server!RecordedHasEffect
  <2> QED BY <1>0, <2>1, <2>2, <2>3, <2>4 DEF StartInv, AboutToRecord, SchemaSeen
<1> QED BY <1>1, <1>2

LEMMA StartNext == StartInv /\ (Server!Next \/ UNCHANGED boot) => StartInv'
<1>1. ASSUME StartInv, Server!Next PROVE StartInv'
  BY <1>1, StartSchema, StartMigrations, StartExecute DEF Server!Next, Server!Step
<1>2. ASSUME StartInv, UNCHANGED boot PROVE StartInv'
  <2>1. UNCHANGED <<columns, recorded, executed, found, start, todo, file, faulty, faults>>
    BY <1>2 DEF boot
  <2> QED BY <1>2, <2>1 DEF StartInv, Server!TypeOK, AboutToRecord, SchemaSeen,
             Server!RecordedHasEffect
<1> QED BY <1>1, <1>2

LEMMA StartIsComplete == StartInv => Server!SchemaComplete
BY DEF StartInv, SchemaSeen, Server!SchemaComplete, Server!ReadyIsComplete

-----------------------------------------------------------------------------
(* The manager of the sync workers.                                        *)

LEMMA ManagerBounds ==
    /\ Account # {} /\ Slot \subseteq Nat /\ NoSlot \notin Slot
    /\ MaxChecks \in Nat \ {0}
BY Constants DEF Manager!WorkerManagerAssumption

(* A sync worker that was not told to stop is the only one of its account, *)
(* and known, unless it was started beside a cancelled one: the cleanup of *)
(* another worker, which deletes by account, does not make it unknown.     *)
Alone ==
    \A a \in Account \ overlap : \A n, m \in Manager!Running(a) :
        ~sync[n].cancelled => n = m /\ workers[a] = n

(* Only check workers that run have an entry.                              *)
ChecksRun == \A a \in Account : checks[a].entry => checks[a].live > 0

ManagerInv == Manager!TypeOK /\ Manager!EntriesLive /\ Alone /\ ChecksRun

(* What a step does to the maps and to the sync workers decides whether    *)
(* they still agree.                                                       *)
MapsType(w, o, s) ==
    /\ w \in [Account -> Slot \cup {NoSlot}]
    /\ s \in [Slot -> Manager!Goroutine]
    /\ LET E == {w[a] : a \in Account} \ {NoSlot}
       IN o \subseteq E \X E /\ \A m, n \in E : m # n => (<<m, n>> \in o <=> <<n, m>> \notin o)

EntriesLiveIn(w, s) ==
    \A a \in Account : w[a] # NoSlot =>
        s[w[a]].pc # "none" /\ s[w[a]].account = a /\ ~s[w[a]].cancelled

AloneIn(w, s, v) ==
    \A a \in Account \ v : \A n, m \in Slot :
        /\ s[n].pc # "none" /\ s[n].account = a
        /\ s[m].pc # "none" /\ s[m].account = a
        /\ ~s[n].cancelled
        => n = m /\ w[a] = n

Agree(w, o, s, v) == MapsType(w, o, s) /\ EntriesLiveIn(w, s) /\ AloneIn(w, s, v)

LEMMA AgreeNow ==
    Manager!TypeOK /\ Manager!EntriesLive /\ Alone <=> Manager!TypeOK /\ Agree(workers, older, sync, overlap)
BY DEF Manager!TypeOK, Manager!Entries, Manager!EntriesLive, Alone, Manager!Running,
       Agree, MapsType, EntriesLiveIn, AloneIn

(* Entries deleted, of accounts whose workers are cancelled or have ended. *)
LEMMA EntriesDeleted ==
    ASSUME Agree(workers, older, sync, overlap), NEW A \in SUBSET Account,
           Manager!DeleteEntries(A), NEW s \in [Slot -> Manager!Goroutine],
           \A n \in Slot : sync[n].account \notin A => s[n] = sync[n],
           \A n \in Slot : s[n].pc # "none" =>
               sync[n].pc # "none" /\ s[n].account = sync[n].account
               /\ (sync[n].cancelled => s[n].cancelled),
           \A a \in A : workers[a] # NoSlot =>
               s[workers[a]].pc = "none" \/ s[workers[a]].cancelled \/ a \in overlap
    PROVE  Agree(workers', older', s, overlap)
<1>1. /\ workers' = [a \in Account |-> IF a \in A THEN NoSlot ELSE workers[a]]
      /\ older' = {p \in older : p[1] \in Slot \ Manager!Entries(A) /\ p[2] \in Slot \ Manager!Entries(A)}
  BY DEF Manager!DeleteEntries, Manager!Without, Manager!OlderAmong
<1>2. /\ workers \in [Account -> Slot \cup {NoSlot}] /\ sync \in [Slot -> Manager!Goroutine]
      /\ EntriesLiveIn(workers, sync) /\ AloneIn(workers, sync, overlap)
  BY DEF Agree, MapsType
<1>3. MapsType(workers', older', s)
  <2> DEFINE E == {workers[a] : a \in Account} \ {NoSlot}
             F == {workers'[a] : a \in Account} \ {NoSlot}
  <2>1. workers' \in [Account -> Slot \cup {NoSlot}]
    BY <1>1, <1>2
  <2>2. F = E \ Manager!Entries(A)
    <3>1. ASSUME NEW a \in Account, NEW b \in A, workers[a] = workers[b], workers[a] # NoSlot
          PROVE  a \in A
      BY <1>2, <3>1 DEF EntriesLiveIn
    <3> QED BY <1>1, <3>1 DEF Manager!Entries
  <2>3. E \subseteq Slot
    BY <1>2
  <2>4. /\ older \subseteq E \X E
        /\ \A m, n \in E : m # n => (<<m, n>> \in older <=> <<n, m>> \notin older)
    BY DEF Agree, MapsType
  <2>5. older' \subseteq F \X F
    BY <1>1, <2>2, <2>4
  <2>6. \A m, n \in F : (<<m, n>> \in older') <=> (<<m, n>> \in older)
    BY <1>1, <2>2, <2>3
  <2>7. ASSUME NEW m \in F, NEW n \in F, m # n PROVE <<m, n>> \in older' <=> <<n, m>> \notin older'
    <3>1. <<m, n>> \in older <=> <<n, m>> \notin older
      BY <2>2, <2>4, <2>7
    <3>2. /\ (<<m, n>> \in older') <=> (<<m, n>> \in older)
          /\ (<<n, m>> \in older') <=> (<<n, m>> \in older)
      BY <2>6
    <3> QED BY <3>1, <3>2
  <2> QED BY <2>1, <2>5, <2>7 DEF MapsType
<1>4. EntriesLiveIn(workers', s)
  <2> SUFFICES ASSUME NEW a \in Account, workers'[a] # NoSlot
               PROVE  s[workers'[a]].pc # "none" /\ s[workers'[a]].account = a
                      /\ ~s[workers'[a]].cancelled
    BY DEF EntriesLiveIn
  <2>1. a \notin A /\ workers'[a] = workers[a] /\ workers[a] \in Slot
    BY <1>1, <1>2
  <2> QED BY <1>2, <2>1 DEF EntriesLiveIn
<1>5. AloneIn(workers', s, overlap)
  <2> SUFFICES ASSUME NEW a \in Account \ overlap, NEW n \in Slot, NEW m \in Slot,
                      s[n].pc # "none", s[n].account = a, s[m].pc # "none", s[m].account = a,
                      ~s[n].cancelled
               PROVE  n = m /\ workers'[a] = n
    BY DEF AloneIn
  <2>1. /\ sync[n].pc # "none" /\ sync[n].account = a /\ sync[m].pc # "none" /\ sync[m].account = a
    OBVIOUS
  <2>2. ~sync[n].cancelled
    OBVIOUS
  <2>3. n = m /\ workers[a] = n
    BY <1>2, <2>1, <2>2 DEF AloneIn
  <2>4. a \notin A
    BY <2>3, ManagerBounds
  <2> QED BY <1>1, <2>3, <2>4
<1> QED BY <1>3, <1>4, <1>5 DEF Agree

ManagerRest ==
    /\ accounts \subseteq Account
    /\ checks \in [Account -> Manager!Checks]
    /\ refreshCh \in BOOLEAN
    /\ resync \subseteq Account /\ \A a, b \in resync : a = b
    /\ mail \cup tasks \cup work \cup overlap \subseteq Account
    /\ server \in {"running", "stopping", "stopped"}

LEMMA ManagerParts ==
    ManagerInv <=> ManagerRest /\ ChecksRun /\ Agree(workers, older, sync, overlap)
<1>1. Manager!TypeOK <=> ManagerRest /\ MapsType(workers, older, sync)
  BY DEF Manager!TypeOK, Manager!Entries, ManagerRest, MapsType
<1>2. Agree(workers, older, sync, overlap) => MapsType(workers, older, sync)
  BY DEF Agree
<1> QED BY <1>1, <1>2, AgreeNow DEF ManagerInv

AgreeHere == Agree(workers, older, sync, overlap)

LEMMA ManagerNow ==
    ManagerInv' <=> ManagerRest' /\ ChecksRun' /\ Agree(workers', older', sync', overlap')
<1>1. ManagerInv <=> ManagerRest /\ ChecksRun /\ AgreeHere
  BY ManagerParts DEF AgreeHere
<1>2. ManagerInv' <=> ManagerRest' /\ ChecksRun' /\ AgreeHere'
  BY <1>1, PTL
<1> QED BY <1>2 DEF AgreeHere

LEMMA WorkersCancelled ==
    ASSUME Agree(workers, older, sync, overlap), NEW A \in SUBSET Account,
           Manager!CancelWorkers(A)
    PROVE  Agree(workers', older', sync', overlap)
<1>1. /\ workers \in [Account -> Slot \cup {NoSlot}] /\ sync \in [Slot -> Manager!Goroutine]
      /\ EntriesLiveIn(workers, sync)
  BY DEF Agree, MapsType
<1>2. /\ Manager!DeleteEntries(A)
      /\ sync' = [n \in Slot |-> IF n \in Manager!Entries(A)
                                 THEN [sync[n] EXCEPT !.cancelled = TRUE] ELSE sync[n]]
  BY DEF Manager!CancelWorkers, Manager!Cancelled
<1>3. ASSUME NEW n \in Slot
      PROVE  /\ sync'[n] \in Manager!Goroutine
             /\ sync'[n].pc = sync[n].pc /\ sync'[n].account = sync[n].account
             /\ sync[n].cancelled => sync'[n].cancelled
             /\ n \in Manager!Entries(A) => sync'[n].cancelled
             /\ n \notin Manager!Entries(A) => sync'[n] = sync[n]
  <2>1. sync[n] \in Manager!Goroutine
    BY <1>1
  <2> QED BY <1>2, <2>1 DEF Manager!Goroutine
<1>4. sync' \in [Slot -> Manager!Goroutine]
  BY <1>2, <1>3
<1>5. \A n \in Slot : sync[n].account \notin A => sync'[n] = sync[n]
  <2>1. \A n \in Manager!Entries(A) : sync[n].account \in A
    BY <1>1 DEF Manager!Entries, EntriesLiveIn
  <2> QED BY <1>3, <2>1
<1>6. \A a \in A : workers[a] # NoSlot => sync'[workers[a]].cancelled
  BY <1>1, <1>3 DEF Manager!Entries
<1>7. \A n \in Slot : sync'[n].pc # "none" =>
         sync[n].pc # "none" /\ sync'[n].account = sync[n].account
         /\ (sync[n].cancelled => sync'[n].cancelled)
  BY <1>3
<1> DEFINE s == sync'
<1>8. /\ s \in [Slot -> Manager!Goroutine]
      /\ \A n \in Slot : sync[n].account \notin A => s[n] = sync[n]
      /\ \A n \in Slot : s[n].pc # "none" =>
               sync[n].pc # "none" /\ s[n].account = sync[n].account
               /\ (sync[n].cancelled => s[n].cancelled)
      /\ \A a \in A : workers[a] # NoSlot =>
               s[workers[a]].pc = "none" \/ s[workers[a]].cancelled \/ a \in overlap
  BY <1>4, <1>5, <1>6, <1>7
<1> HIDE DEF s
<1>9. Agree(workers', older', s, overlap)
  BY <1>2, <1>8, EntriesDeleted
<1> QED BY <1>9 DEF s

(* A goroutine goes on, under the entry it has.                            *)
LEMMA GoroutineMoves ==
    ASSUME Agree(workers, older, sync, overlap), NEW n \in Slot, sync[n].pc # "none",
           NEW pc \in {"wait", "login", "loop", "exit"},
           sync' = [sync EXCEPT ![n].pc = pc], UNCHANGED <<workers, older>>
    PROVE  Agree(workers', older', sync', overlap)
<1>1. sync \in [Slot -> Manager!Goroutine] /\ workers \in [Account -> Slot \cup {NoSlot}]
  BY DEF Agree, MapsType
<1>2. \A m \in Slot : /\ sync'[m] \in Manager!Goroutine
                      /\ sync'[m].pc = "none" <=> sync[m].pc = "none"
                      /\ sync'[m].account = sync[m].account
                      /\ sync'[m].cancelled = sync[m].cancelled
  <2> SUFFICES ASSUME NEW m \in Slot
               PROVE  /\ sync'[m] \in Manager!Goroutine
                      /\ sync'[m].pc = "none" <=> sync[m].pc = "none"
                      /\ sync'[m].account = sync[m].account
                      /\ sync'[m].cancelled = sync[m].cancelled
    OBVIOUS
  <2>1. sync[m] \in Manager!Goroutine
    BY <1>1
  <2> QED BY <1>1, <2>1 DEF Manager!Goroutine
<1>3. sync' \in [Slot -> Manager!Goroutine]
  BY <1>1, <1>2
<1>4. MapsType(workers', older', sync')
  BY <1>3 DEF Agree, MapsType
<1>5. EntriesLiveIn(workers', sync')
  BY <1>1, <1>2 DEF Agree, EntriesLiveIn
<1>6. AloneIn(workers', sync', overlap)
  BY <1>2 DEF Agree, AloneIn
<1> QED BY <1>4, <1>5, <1>6 DEF Agree

(* Its cleanup deletes the entry of its account: its own, or that of a     *)
(* worker that was started beside it.                                      *)
LEMMA GoroutineEnds ==
    ASSUME Agree(workers, older, sync, overlap), NEW n \in Slot, Manager!SyncExit(n)
    PROVE  Agree(workers', older', sync', overlap)
<1> DEFINE s == [sync EXCEPT ![n].pc = "none"]
           A == {sync[n].account}
<1>1. /\ sync[n].pc = "exit" /\ Manager!DeleteEntries(A) /\ sync' = s
  BY DEF Manager!SyncExit, Manager!Owner
<1>2. /\ sync \in [Slot -> Manager!Goroutine] /\ workers \in [Account -> Slot \cup {NoSlot}]
      /\ AloneIn(workers, sync, overlap) /\ EntriesLiveIn(workers, sync)
  BY DEF Agree, MapsType
<1>3. A \in SUBSET Account
  BY <1>2 DEF Manager!Goroutine
<1>4. /\ \A m \in Slot : m # n => s[m] = sync[m]
      /\ s[n].pc = "none" /\ s[n].account = sync[n].account /\ s[n] \in Manager!Goroutine
      /\ s \in [Slot -> Manager!Goroutine]
  <2>1. sync[n] \in Manager!Goroutine
    BY <1>2
  <2> QED BY <1>2, <2>1 DEF Manager!Goroutine
<1> HIDE DEF s
<1>5. \A m \in Slot : sync[m].account \notin A => s[m] = sync[m]
  BY <1>4
<1>6. \A m \in Slot : s[m].pc # "none" =>
         sync[m].pc # "none" /\ s[m].account = sync[m].account
         /\ (sync[m].cancelled => s[m].cancelled)
  BY <1>4
<1>7. \A a \in A : workers[a] # NoSlot =>
         s[workers[a]].pc = "none" \/ s[workers[a]].cancelled \/ a \in overlap
  <2> SUFFICES ASSUME workers[sync[n].account] # NoSlot, sync[n].account \notin overlap
               PROVE  s[workers[sync[n].account]].pc = "none"
    OBVIOUS
  <2> DEFINE a == sync[n].account
             m == workers[a]
  <2>1. a \in Account /\ m \in Slot
    BY <1>2, <1>3
  <2>2. sync[m].pc # "none" /\ sync[m].account = a /\ ~sync[m].cancelled
    BY <1>2, <2>1 DEF EntriesLiveIn
  <2>3. m = n
    BY <1>1, <1>2, <2>1, <2>2 DEF AloneIn
  <2> QED BY <1>4, <2>3
<1> HIDE DEF A
<1>8. Agree(workers', older', s, overlap)
  BY <1>1, <1>3, <1>4, <1>5, <1>6, <1>7, EntriesDeleted
<1> QED BY <1>1, <1>8

(* A worker is started where the map has none: a goroutine of the account  *)
(* that still runs was told to stop, and overlap says so.                  *)
LEMMA WorkerStarted ==
    ASSUME Agree(workers, older, sync, overlap), overlap \subseteq Account,
           NEW a \in Account, Manager!StartWorker(a)
    PROVE  Agree(workers', older', sync', overlap') /\ overlap' \subseteq Account
<1>1. PICK n \in Manager!Free :
         /\ workers' = [workers EXCEPT ![a] = n]
         /\ older' = older \cup (Manager!Entries(Account) \X {n})
         /\ sync' = [sync EXCEPT ![n] = [pc |-> "wait", account |-> a, cancelled |-> FALSE]]
  BY DEF Manager!StartWorker
<1>2. /\ workers \in [Account -> Slot \cup {NoSlot}] /\ sync \in [Slot -> Manager!Goroutine]
      /\ EntriesLiveIn(workers, sync) /\ AloneIn(workers, sync, overlap)
      /\ older \subseteq Manager!Entries(Account) \X Manager!Entries(Account)
      /\ \A i, j \in Manager!Entries(Account) : i # j => (<<i, j>> \in older <=> <<j, i>> \notin older)
  BY DEF Agree, MapsType, Manager!Entries
<1>3. n \in Slot /\ sync[n].pc = "none" /\ n # NoSlot
  BY <1>1, ManagerBounds DEF Manager!Free
<1>4. /\ workers[a] = NoSlot
      /\ overlap' = overlap \cup {b \in {a} : \E i \in Manager!Running(a) : sync[i].cancelled}
  BY DEF Manager!StartWorker, Manager!Missing
<1>5. /\ workers' \in [Account -> Slot \cup {NoSlot}]
      /\ workers'[a] = n /\ \A b \in Account : b # a => workers'[b] = workers[b]
  BY <1>1, <1>2, <1>3
<1>6. /\ sync' \in [Slot -> Manager!Goroutine]
      /\ sync'[n] = [pc |-> "wait", account |-> a, cancelled |-> FALSE]
      /\ \A m \in Slot : m # n => sync'[m] = sync[m]
  BY <1>1, <1>2, <1>3 DEF Manager!Goroutine
<1>7. n \notin Manager!Entries(Account)
  BY <1>2, <1>3 DEF Manager!Entries, EntriesLiveIn
<1> DEFINE F == {workers'[b] : b \in Account} \ {NoSlot}
<1>8. F = Manager!Entries(Account) \cup {n}
  BY <1>3, <1>4, <1>5 DEF Manager!Entries
<1>9. MapsType(workers', older', sync')
  <2>1. older' \subseteq F \X F
    BY <1>1, <1>2, <1>8
  <2>2. ASSUME NEW i \in F, NEW j \in F, i # j
        PROVE  <<i, j>> \in older' <=> <<j, i>> \notin older'
    <3>1. CASE i # n /\ j # n
      BY <1>1, <1>2, <1>8, <2>2, <3>1
    <3>2. CASE i = n \/ j = n
      BY <1>1, <1>2, <1>7, <1>8, <2>2, <3>2
    <3> QED BY <3>1, <3>2
  <2> QED BY <1>5, <1>6, <2>1, <2>2 DEF MapsType
<1>10. EntriesLiveIn(workers', sync')
  <2> SUFFICES ASSUME NEW b \in Account, workers'[b] # NoSlot
               PROVE  sync'[workers'[b]].pc # "none" /\ sync'[workers'[b]].account = b
                      /\ ~sync'[workers'[b]].cancelled
    BY DEF EntriesLiveIn
  <2>1. CASE b = a
    BY <1>5, <1>6, <2>1
  <2>2. CASE b # a
    <3>1. workers'[b] = workers[b] /\ workers[b] \in Slot
      BY <1>2, <1>5, <2>2
    <3>2. workers[b] # n
      BY <1>2, <1>3, <3>1 DEF EntriesLiveIn
    <3> QED BY <1>2, <1>6, <3>1, <3>2 DEF EntriesLiveIn
  <2> QED BY <2>1, <2>2
<1>11. AloneIn(workers', sync', overlap')
  <2> SUFFICES ASSUME NEW b \in Account \ overlap', NEW i \in Slot, NEW j \in Slot,
                      sync'[i].pc # "none", sync'[i].account = b,
                      sync'[j].pc # "none", sync'[j].account = b, ~sync'[i].cancelled
               PROVE  i = j /\ workers'[b] = i
    BY DEF AloneIn
  <2>1. b \notin overlap
    BY <1>4
  <2>2. CASE b # a
    <3>1. i # n /\ j # n
      BY <1>6, <2>2
    <3> QED BY <1>2, <1>5, <1>6, <2>1, <2>2, <3>1 DEF AloneIn
  <2>3. CASE b = a
    <3>1. ASSUME NEW m \in Slot, m # n, sync[m].pc # "none", sync[m].account = a PROVE FALSE
      <4>1. m \in Manager!Running(a)
        BY <3>1 DEF Manager!Running
      <4>2. ~sync[m].cancelled
        BY <1>4, <2>3, <4>1
      <4>3. a \in Account \ overlap
        BY <2>1, <2>3
      <4>4. workers[a] = m
        BY <1>2, <3>1, <4>2, <4>3 DEF AloneIn
      <4> QED BY <1>4, <3>1, <4>4, ManagerBounds
    <3>2. i = n /\ j = n
      BY <1>6, <2>3, <3>1
    <3> QED BY <1>5, <2>3, <3>2
  <2> QED BY <2>2, <2>3
<1> QED BY <1>4, <1>9, <1>10, <1>11 DEF Agree

LEMMA CheckBounds ==
    \A k \in Nat : Manager!AtMost(k) \in 0 .. MaxChecks /\ (k > 0 => Manager!AtMost(k) > 0)
BY ManagerBounds DEF Manager!AtMost

LEMMA ChecksCancelled ==
    ASSUME checks \in [Account -> Manager!Checks], ChecksRun, NEW A, Manager!CancelChecks(A)
    PROVE  checks' \in [Account -> Manager!Checks] /\ ChecksRun'
<1>1. ASSUME NEW a \in Account
      PROVE  checks'[a] \in Manager!Checks /\ (checks'[a].entry => checks'[a].live > 0)
  <2>1. checks[a] \in Manager!Checks /\ (checks[a].entry => checks[a].live > 0)
    BY DEF ChecksRun
  <2>2. CASE a \in A /\ checks[a].entry
    <3>1. checks'[a] = [live |-> checks[a].live - 1, entry |-> FALSE,
                        ending |-> Manager!AtMost(checks[a].ending + 1)]
      BY <2>2 DEF Manager!CancelChecks
    <3>2. checks[a].live - 1 \in 0 .. MaxChecks /\ checks[a].ending + 1 \in Nat
      BY <2>1, <2>2, ManagerBounds DEF Manager!Checks
    <3> QED BY <3>1, <3>2, CheckBounds DEF Manager!Checks
  <2>3. CASE ~(a \in A /\ checks[a].entry)
    BY <2>1, <2>3 DEF Manager!CancelChecks
  <2> QED BY <2>2, <2>3
<1>2. checks' \in [Account -> Manager!Checks]
  BY <1>1 DEF Manager!CancelChecks
<1> QED BY <1>1, <1>2 DEF ChecksRun

-----------------------------------------------------------------------------
(* The steps of the manager.                                               *)

LEMMA ManagerCancels ==
    ASSUME ManagerInv,
           \/ Manager!RefreshWorkers \/ Manager!MaybeRotateWorkers \/ Manager!ForceRestartWorkers
           \/ \E a \in Account : Manager!StopAccount(a) \/ Manager!ResyncAccount(a)
           \/ Manager!StopAll
    PROVE  ManagerInv'
<1>1. ManagerRest /\ ChecksRun /\ Agree(workers, older, sync, overlap)
  BY ManagerParts
<1>2. PICK A \in SUBSET Account :
         /\ Manager!CancelWorkers(A)
         /\ UNCHANGED checks \/ \E B \in SUBSET Account : Manager!CancelChecks(B)
         /\ UNCHANGED <<accounts, mail, tasks, work, overlap>>
         /\ resync' = resync \/ \E a \in Account : resync' = {a}
         /\ refreshCh' = refreshCh \/ refreshCh' = FALSE
         /\ server' = server \/ server' = "stopping"
  <2> USE <1>1 DEF ManagerRest, Manager!jobs
  <2>1. CASE Manager!RefreshWorkers
    <3>1. PICK A : A \in SUBSET Account /\ Manager!CancelWorkers(A)
      BY <2>1 DEF Manager!RefreshWorkers
    <3> QED BY <2>1, <3>1 DEF Manager!RefreshWorkers
  <2>2. CASE Manager!MaybeRotateWorkers
    <3>1. PICK a \in Account : Manager!CancelWorkers({a})
      BY <2>2 DEF Manager!MaybeRotateWorkers
    <3> QED BY <2>2, <3>1 DEF Manager!MaybeRotateWorkers
  <2>3. CASE Manager!ForceRestartWorkers
    BY <2>3 DEF Manager!ForceRestartWorkers
  <2>4. ASSUME NEW a \in Account, Manager!StopAccount(a) \/ Manager!ResyncAccount(a)
        PROVE  \E A \in SUBSET Account :
         /\ Manager!CancelWorkers(A)
         /\ UNCHANGED checks \/ \E B \in SUBSET Account : Manager!CancelChecks(B)
         /\ UNCHANGED <<accounts, mail, tasks, work, overlap>>
         /\ resync' = resync \/ \E b \in Account : resync' = {b}
         /\ refreshCh' = refreshCh \/ refreshCh' = FALSE
         /\ server' = server \/ server' = "stopping"
    <3>1. {a} \in SUBSET Account /\ Manager!CancelWorkers({a}) /\ Manager!CancelChecks({a})
      BY <2>4 DEF Manager!StopAccount, Manager!ResyncAccount
    <3> QED BY <2>4, <3>1 DEF Manager!StopAccount, Manager!ResyncAccount
  <2>5. CASE Manager!StopAll
    BY <2>5 DEF Manager!StopAll
  <2> QED BY <2>1, <2>2, <2>3, <2>4, <2>5
<1>3. Agree(workers', older', sync', overlap')
  BY <1>1, <1>2, WorkersCancelled
<1>4. checks' \in [Account -> Manager!Checks] /\ ChecksRun'
  BY <1>1, <1>2, ChecksCancelled DEF ManagerRest, ChecksRun
<1>5. ManagerRest'
  BY <1>1, <1>2, <1>4 DEF ManagerRest
<1> QED BY <1>3, <1>4, <1>5, ManagerNow

(* Requests and passes of a worker that touch neither map nor goroutine.   *)
LEMMA ManagerElse ==
    ASSUME ManagerInv,
           \/ Manager!TriggerRefresh \/ Manager!ResetAccountSync
           \/ \E a \in Account : Manager!DeleteAccount(a) \/ Manager!WakeUpAccount(a)
                                 \/ Manager!NewMail(a) \/ Manager!CheckNewEmails(a)
                                 \/ Manager!CheckExit(a)
           \/ \E n \in Slot : Manager!ProcessTasks(n) \/ Manager!Poll(n) \/ Manager!FolderScan(n)
    PROVE  ManagerInv'
<1>1. ManagerRest /\ ChecksRun /\ Agree(workers, older, sync, overlap)
  BY ManagerParts
<1>2. UNCHANGED <<workers, older, sync, overlap>>
  BY DEF Manager!TriggerRefresh, Manager!ResetAccountSync, Manager!DeleteAccount,
         Manager!WakeUpAccount, Manager!NewMail, Manager!CheckNewEmails, Manager!CheckExit,
         Manager!ProcessTasks, Manager!Poll, Manager!FolderScan, Manager!maps
<1>3. Agree(workers', older', sync', overlap')
  BY <1>1, <1>2
<1>4. ManagerRest' /\ ChecksRun'
  <2>1. CASE \E a \in Account : Manager!CheckExit(a)
    <3>1. PICK a \in Account : Manager!CheckExit(a)
      BY <2>1
    <3>2. /\ checks' = [checks EXCEPT ![a].ending = @ - 1, ![a].entry = FALSE]
          /\ checks[a].ending > 0
          /\ UNCHANGED <<accounts, refreshCh, resync, server, mail, tasks, work, overlap>>
      BY <3>1 DEF Manager!CheckExit, Manager!jobs
    <3>3. checks \in [Account -> Manager!Checks]
      BY <1>1 DEF ManagerRest
    <3>4. checks[a] \in Manager!Checks
      BY <3>3
    <3>5. checks'[a] = [checks[a] EXCEPT !.ending = @ - 1, !.entry = FALSE]
      BY <3>2, <3>3
    <3>6. checks'[a] \in Manager!Checks /\ ~checks'[a].entry
      <4>1. checks[a].ending - 1 \in 0 .. MaxChecks
        BY <3>2, <3>4, ManagerBounds DEF Manager!Checks
      <4>2. checks'[a] = [live |-> checks[a].live, entry |-> FALSE, ending |-> checks[a].ending - 1]
        BY <3>4, <3>5 DEF Manager!Checks
      <4>3. checks[a].live \in 0 .. MaxChecks
        BY <3>4 DEF Manager!Checks
      <4> QED BY <4>1, <4>2, <4>3 DEF Manager!Checks
    <3>7. checks' \in [Account -> Manager!Checks] /\ ChecksRun'
      BY <1>1, <3>2, <3>3, <3>6 DEF ChecksRun
    <3> QED BY <1>1, <3>2, <3>7 DEF ManagerRest
  <2>2. CASE ~(\E a \in Account : Manager!CheckExit(a))
    <3>1. checks' = checks /\ server' = server
      BY <2>2 DEF Manager!TriggerRefresh, Manager!ResetAccountSync, Manager!DeleteAccount,
         Manager!WakeUpAccount, Manager!NewMail, Manager!CheckNewEmails,
         Manager!ProcessTasks, Manager!Poll, Manager!FolderScan
    <3>2. resync' \subseteq resync /\ refreshCh' \in BOOLEAN /\ accounts' \subseteq accounts
      BY <1>1, <2>2 DEF ManagerRest, Manager!TriggerRefresh, Manager!ResetAccountSync, Manager!DeleteAccount,
         Manager!WakeUpAccount, Manager!NewMail, Manager!CheckNewEmails,
         Manager!ProcessTasks, Manager!Poll, Manager!FolderScan
    <3>3. mail' \cup tasks' \cup work' \subseteq Account
      <4>1. /\ mail \subseteq Account /\ tasks \subseteq Account /\ work \subseteq Account
            /\ resync \subseteq Account
            /\ \A n \in Slot : Manager!Owner(n) \in Account
        BY <1>1 DEF ManagerRest, Agree, MapsType, Manager!Owner, Manager!Goroutine
      <4> QED BY <2>2, <4>1 DEF Manager!TriggerRefresh, Manager!ResetAccountSync, Manager!DeleteAccount,
         Manager!WakeUpAccount, Manager!NewMail, Manager!CheckNewEmails,
         Manager!ProcessTasks, Manager!Poll, Manager!FolderScan, Manager!jobs
    <3> QED BY <1>1, <1>2, <3>1, <3>2, <3>3 DEF ManagerRest, ChecksRun
  <2> QED BY <2>1, <2>2
<1> QED BY <1>3, <1>4, ManagerNow

LEMMA ManagerGoroutines ==
    ASSUME ManagerInv, NEW n \in Slot,
           Manager!Dial(n) \/ Manager!LogIn(n) \/ Manager!Leave(n) \/ Manager!Broken(n)
           \/ Manager!SyncExit(n)
    PROVE  ManagerInv'
<1>1. ManagerRest /\ ChecksRun /\ Agree(workers, older, sync, overlap)
  BY ManagerParts
<1>2. UNCHANGED <<accounts, checks, refreshCh, resync, server, mail, tasks, work, overlap>>
  BY DEF Manager!Dial, Manager!LogIn, Manager!Leave, Manager!Broken, Manager!SyncExit, Manager!jobs
<1>3. Agree(workers', older', sync', overlap)
  <2>1. CASE Manager!SyncExit(n)
    BY <1>1, <2>1, GoroutineEnds
  <2>2. CASE ~Manager!SyncExit(n)
    <3>1. PICK pc \in {"wait", "login", "loop", "exit"} : sync' = [sync EXCEPT ![n].pc = pc]
      BY <2>2 DEF Manager!Dial, Manager!LogIn, Manager!Leave, Manager!Broken
    <3>2. sync[n].pc # "none" /\ UNCHANGED <<workers, older>>
      BY <2>2 DEF Manager!Dial, Manager!LogIn, Manager!Leave, Manager!Broken, Manager!maps
    <3> QED BY <1>1, <3>1, <3>2, GoroutineMoves
  <2> QED BY <2>1, <2>2
<1>4. ManagerRest' /\ ChecksRun'
  BY <1>1, <1>2 DEF ManagerRest, ChecksRun
<1> QED BY <1>2, <1>3, <1>4, ManagerNow

LEMMA ManagerStarts ==
    ASSUME ManagerInv, NEW a \in Account, Manager!StartWorker(a)
    PROVE  ManagerInv'
<1>1. ManagerRest /\ ChecksRun /\ Agree(workers, older, sync, overlap)
  BY ManagerParts
<1>2. Agree(workers', older', sync', overlap') /\ overlap' \subseteq Account
  BY <1>1, WorkerStarted DEF ManagerRest
<1>3. /\ checks' = [checks EXCEPT ![a].live = Manager!AtMost(@ + 1), ![a].entry = TRUE]
      /\ UNCHANGED <<accounts, refreshCh, resync, server, mail, tasks, work>>
  BY DEF Manager!StartWorker, Manager!jobs
<1>4. checks \in [Account -> Manager!Checks]
  BY <1>1 DEF ManagerRest
<1>5. checks'[a] \in Manager!Checks /\ checks'[a].live > 0
  <2>1. checks[a].live \in 0 .. MaxChecks /\ checks[a].ending \in 0 .. MaxChecks
    BY <1>4 DEF Manager!Checks
  <2>2. checks'[a] = [live |-> Manager!AtMost(checks[a].live + 1), entry |-> TRUE,
                      ending |-> checks[a].ending]
    BY <1>3, <1>4 DEF Manager!Checks
  <2>3. Manager!AtMost(checks[a].live + 1) \in 0 .. MaxChecks /\ Manager!AtMost(checks[a].live + 1) > 0
    BY <2>1, CheckBounds, ManagerBounds
  <2> QED BY <2>1, <2>2, <2>3 DEF Manager!Checks
<1>6. checks' \in [Account -> Manager!Checks] /\ ChecksRun'
  BY <1>1, <1>3, <1>4, <1>5 DEF ChecksRun
<1>7. ManagerRest'
  BY <1>1, <1>2, <1>3, <1>6 DEF ManagerRest
<1> QED BY <1>2, <1>6, <1>7, ManagerNow

(* With the process its goroutines end.                                    *)
LEMMA ManagerExits ==
    ASSUME ManagerInv, Manager!Exit
    PROVE  ManagerInv'
<1>1. ManagerRest /\ ChecksRun /\ Agree(workers, older, sync, overlap)
  BY ManagerParts
<1> DEFINE s == [n \in Slot |-> [sync[n] EXCEPT !.pc = "none"]]
<1>2. /\ Manager!DeleteEntries(Account) /\ sync' = s
      /\ checks' = [a \in Account |-> [live |-> 0, entry |-> FALSE, ending |-> 0]]
      /\ server' = "stopped"
      /\ UNCHANGED <<accounts, refreshCh, resync, mail, tasks, work, overlap>>
  BY DEF Manager!Exit, Manager!jobs
<1>3. sync \in [Slot -> Manager!Goroutine] /\ workers \in [Account -> Slot \cup {NoSlot}]
  BY <1>1 DEF Agree, MapsType
<1>4. \A n \in Slot : s[n] \in Manager!Goroutine /\ s[n].pc = "none"
  BY <1>3 DEF Manager!Goroutine
<1>5. s \in [Slot -> Manager!Goroutine] /\ \A n \in Slot : sync[n].account \in Account
  BY <1>3, <1>4 DEF Manager!Goroutine
<1> HIDE DEF s
<1>6. \A a \in Account : workers[a] # NoSlot => s[workers[a]].pc = "none"
  BY <1>3, <1>4
<1>7. Agree(workers', older', s, overlap)
  BY <1>1, <1>2, <1>4, <1>5, <1>6, EntriesDeleted
<1>8. checks' \in [Account -> Manager!Checks] /\ ChecksRun'
  BY <1>2, ManagerBounds DEF ChecksRun, Manager!Checks
<1>9. ManagerRest'
  BY <1>1, <1>2, <1>8 DEF ManagerRest
<1> QED BY <1>2, <1>7, <1>8, <1>9, ManagerNow

LEMMA ManagerInit == Manager!Init => ManagerInv
<1> SUFFICES ASSUME Manager!Init PROVE ManagerInv
  OBVIOUS
<1> DEFINE any == CHOOSE a \in Account : TRUE
<1>1. /\ workers = [a \in Account |-> NoSlot] /\ older = {} /\ overlap = {}
      /\ sync = [n \in Slot |-> [pc |-> "none", account |-> any, cancelled |-> FALSE]]
      /\ checks = [a \in Account |-> [live |-> 0, entry |-> FALSE, ending |-> 0]]
      /\ accounts = Account /\ refreshCh = FALSE /\ resync = {} /\ server = "running"
      /\ mail = {} /\ tasks = {} /\ work = {}
  BY DEF Manager!Init
<1>2. any \in Account
  BY ManagerBounds
<1> HIDE DEF any
<1>3. sync \in [Slot -> Manager!Goroutine]
  BY <1>1, <1>2 DEF Manager!Goroutine
<1>4. Agree(workers, older, sync, overlap)
  BY <1>1, <1>3 DEF Agree, MapsType, EntriesLiveIn, AloneIn
<1>5. checks \in [Account -> Manager!Checks] /\ ChecksRun
  <2>1. 0 \in 0 .. MaxChecks
    BY ManagerBounds
  <2>2. [live |-> 0, entry |-> FALSE, ending |-> 0] \in Manager!Checks
    BY <2>1 DEF Manager!Checks
  <2> QED BY <1>1, <2>2 DEF ChecksRun
<1>6. ManagerRest
  BY <1>1, <1>5 DEF ManagerRest
<1> QED BY <1>4, <1>5, <1>6, ManagerParts

LEMMA ManagerStep == ManagerInv /\ (Manager!Next \/ UNCHANGED manager) => ManagerInv'
<1>1. ASSUME ManagerInv, Manager!Next PROVE ManagerInv'
  <2>1. ASSUME NEW a \in Account,
               \/ Manager!StartWorker(a) \/ Manager!StopAccount(a) \/ Manager!ResyncAccount(a)
               \/ Manager!DeleteAccount(a) \/ Manager!WakeUpAccount(a) \/ Manager!NewMail(a)
               \/ Manager!CheckNewEmails(a) \/ Manager!CheckExit(a)
        PROVE  ManagerInv'
    BY <1>1, <2>1, ManagerStarts, ManagerCancels, ManagerElse
  <2>2. ASSUME NEW n \in Slot, Manager!GoroutineStep(n) \/ Manager!Broken(n)
        PROVE  ManagerInv'
    BY <1>1, <2>2, ManagerElse, ManagerGoroutines DEF Manager!GoroutineStep
  <2>3. CASE \/ Manager!RefreshWorkers \/ Manager!MaybeRotateWorkers
             \/ Manager!ForceRestartWorkers \/ Manager!TriggerRefresh
             \/ Manager!ResetAccountSync \/ Manager!StopAll \/ Manager!Exit
    BY <1>1, <2>3, ManagerCancels, ManagerElse, ManagerExits
  <2> QED BY <1>1, <2>1, <2>2, <2>3 DEF Manager!Next
<1>2. ASSUME ManagerInv, UNCHANGED manager PROVE ManagerInv'
  <2>1. UNCHANGED <<accounts, workers, older, sync, checks, refreshCh, resync, server, mail, tasks,
                    work, overlap>>
    BY <1>2 DEF manager
  <2>2. ManagerRest /\ ChecksRun /\ Agree(workers, older, sync, overlap)
    BY <1>2, ManagerParts
  <2>3. ManagerRest' /\ ChecksRun' /\ Agree(workers', older', sync', overlap')
    BY <2>1, <2>2 DEF ManagerRest, ChecksRun
  <2> QED BY <2>3, ManagerNow
<1> QED BY <1>1, <1>2

LEMMA ManagerKnows == ManagerInv => Manager!WorkersKnown
BY DEF ManagerInv, Alone, Manager!WorkersKnown, Manager!OneWorker

-----------------------------------------------------------------------------
(* All of them.                                                            *)

BackgroundInv == Inv /\ ManagerInv /\ DraftInv /\ StartInv

LEMMA BackgroundInit == MCInit => BackgroundInv
BY InvInit, ManagerInit, DraftInit, StartInit DEF MCInit, BackgroundInv

LEMMA BackgroundNext == BackgroundInv /\ [MCNext]_background => BackgroundInv'
<1> SUFFICES ASSUME BackgroundInv, [MCNext]_background PROVE BackgroundInv'
  OBVIOUS
<1>1. /\ Next \/ UNCHANGED writeQueue
      /\ Manager!Next \/ UNCHANGED manager
      /\ Drafts!Next \/ UNCHANGED drafts
      /\ Server!Next \/ UNCHANGED boot
  BY DEF MCNext, Writes, Manages, Uploads, Starts, background
<1>2. Inv'
  BY <1>1, NextInv DEF BackgroundInv
<1> QED BY <1>1, <1>2, ManagerStep, DraftNext, StartNext DEF BackgroundInv

(* The maps, goroutines, drafts, queues and columns of a running server    *)
(* have the declared shapes: no check worker is counted below zero, no     *)
(* upload reads past its list of turns, no start past its files.           *)
THEOREM BackgroundTypes == MCSpec => []TypesOK
<1>1. BackgroundInv => TypesOK
  BY DEF BackgroundInv, Inv, ManagerInv, DraftInv, DraftShape, StartInv, TypesOK
<1> QED BY <1>1, BackgroundInit, BackgroundNext, PTL DEF MCSpec

(* The cleanup of a sync worker deletes by account, whoever the entry      *)
(* belongs to by then; even so an entry always stands for a goroutine of   *)
(* its account that was not told to stop, and an account has one such      *)
(* goroutine at most, unless one was started beside a cancelled one.       *)
THEOREM WorkersAreKnown == MCSpec => []WorkersKnown
<1>1. BackgroundInv => WorkersKnown
  BY ManagerKnows DEF BackgroundInv, WorkersKnown
<1> QED BY <1>1, BackgroundInit, BackgroundNext, PTL DEF MCSpec

(* Every copy of a draft can be replaced by the next upload, and a draft   *)
(* that is not marked was uploaded as it is, whatever fails, stops or is   *)
(* edited between the statements of syncDrafts, except where CopiesKnown   *)
(* and CleanIsUploaded say otherwise.                                      *)
THEOREM DraftsAreKept == MCSpec => []DraftsKept
<1>1. BackgroundInv => DraftsKept
  BY DEF BackgroundInv, DraftInv, DraftsKept
<1> QED BY <1>1, BackgroundInit, BackgroundNext, PTL DEF MCSpec

(* A migration that is recorded as executed has had its effect, and a      *)
(* start that had the schema file and no failed statement leaves no column *)
(* out, however often starts were cut off between two statements.          *)
THEOREM SchemaIsComplete == MCSpec => []SchemaComplete
<1>1. BackgroundInv => SchemaComplete
  BY StartIsComplete DEF BackgroundInv, SchemaComplete
<1> QED BY <1>1, BackgroundInit, BackgroundNext, PTL DEF MCSpec

=============================================================================
