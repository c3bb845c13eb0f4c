---------------------------- MODULE WorkerManager ----------------------------
(***************************************************************************)
(* The manager of the sync workers: the maps of running workers, the       *)
(* goroutine pairs that startWorkerWithJitter spawns (a sync worker and a  *)
(* check worker), the loop that refreshes, rotates and restarts them, the  *)
(* requests that stop, resync or wake a worker, and the shutdown.          *)
(*                                                                         *)
(* Nothing in the repository calls startWorkerWithJitter: the loops that   *)
(* pick the accounts without a worker end without the call.  Started says  *)
(* whether somebody calls it, with the lock held as its comment demands,   *)
(* for an account those loops would pick.                                  *)
(*                                                                         *)
(* Each critical section of the manager's mutex is one step.  No account   *)
(* is locked or paused: main installs a LockChecker that always says no,   *)
(* and nothing writes the flag that IsPaused reads.                        *)
(***************************************************************************)
EXTENDS Naturals, FiniteSets

CONSTANTS
    Account,     \* accounts
    Slot,        \* sync worker goroutines that may exist at a time (a bound)
    NoSlot,      \* no entry in the map, e.g. 0
    MaxWorkers,  \* maxWorkers
    MaxChecks,   \* bound: check workers of an account that are told apart
    Started,     \* whether startWorkerWithJitter has a caller
    MaxRequests, \* bound: requests of users
    MaxFaults    \* bound: failures, and restarts by the manager's timers

WorkerManagerAssumption ==
    /\ Account # {} /\ IsFiniteSet(Account) /\ IsFiniteSet(Slot) /\ Slot \subseteq Nat /\ NoSlot \notin Slot
    /\ MaxWorkers \in Nat \ {0} /\ MaxChecks \in Nat \ {0}
    /\ Started \in BOOLEAN
    /\ MaxRequests \in Nat /\ MaxFaults \in Nat

VARIABLES
    accounts,  \* rows of accounts
    workers,   \* the map workers, with workerStartedAt and workerWakeUp
    older,     \* its pairs of slots, the one started earlier first
    sync,      \* Slot -> goroutine of a sync worker
    checks,    \* Account -> its check workers and their entry in checkWorkers
    refreshCh, \* whether a refresh is requested
    resync,    \* ResyncAccount: account whose workers are being awaited
    server,    \* running, stopping or stopped
    mail,      \* accounts with new messages on the server
    tasks,     \* accounts with pending rows in email_sync_queue
    work,      \* accounts with flags, moves or drafts to be sent
    overlap,   \* history: accounts started again beside a cancelled worker
    spent      \* requests and faults so far

vars == <<accounts, workers, older, sync, checks, refreshCh, resync, server,
          mail, tasks, work, overlap, spent>>

maps == <<workers, older>>
jobs == <<mail, tasks, work>>

------------------------------------------------------------------------------
(* wait: before its first connection (jitter), while it dials, or between  *)
(* two attempts; login: while it logs in; loop: in consumerLoop; exit: in  *)
(* the deferred cleanup.                                                   *)
Goroutine == [pc : {"none", "wait", "login", "loop", "exit"}, account : Account,
              cancelled : BOOLEAN]

Running(a) == {n \in Slot : sync[n].pc # "none" /\ sync[n].account = a}

(* The check workers of an account: those not cancelled, whether the map   *)
(* has an entry for one of them, and those that are about to end.          *)
Checks == [live : 0..MaxChecks, entry : BOOLEAN, ending : 0..MaxChecks]

AtMost(n) == IF n > MaxChecks THEN MaxChecks ELSE n

Spend(kind, bound) == spent[kind] < bound /\ spent' = [spent EXCEPT ![kind] = @ + 1]
Request == server = "running" /\ Spend("requests", MaxRequests)
Fault == Spend("faults", MaxFaults)

Init ==
    /\ accounts = Account
    /\ workers = [a \in Account |-> NoSlot]
    /\ older = {}
    /\ sync = [n \in Slot |-> [pc |-> "none", account |-> CHOOSE a \in Account : TRUE,
                               cancelled |-> FALSE]]
    /\ checks = [a \in Account |-> [live |-> 0, entry |-> FALSE, ending |-> 0]]
    /\ refreshCh = FALSE /\ resync = {}
    /\ server = "running"
    /\ mail = {} /\ tasks = {} /\ work = {}
    /\ overlap = {}
    /\ spent = [requests |-> 0, faults |-> 0]

------------------------------------------------------------------------------
(* Entries of the maps.                                                    *)

Entries(A) == {workers[a] : a \in A} \ {NoSlot}

(* workerStartedAt, for some of the entries.                               *)
OlderAmong(N) == {p \in older : p[1] \in N /\ p[2] \in N}

Without(A) == [a \in Account |-> IF a \in A THEN NoSlot ELSE workers[a]]

(* Mutant: the entry of a worker that ended stays.                         *)
DeleteEntriesOfCancelled(A) ==
    LET C == {a \in A : \E n \in Slot : workers[a] = n /\ sync[n].pc # "exit"}
    IN /\ workers' = Without(C)
       /\ older' = OlderAmong(Slot \ Entries(C))

(* The entries of accounts go, whoever they belong to by now.              *)
DeleteEntries(A) ==
    /\ workers' = Without(A)
    /\ older' = OlderAmong(Slot \ Entries(A))

Cancelled(N) ==
    [n \in Slot |-> IF n \in N THEN [sync[n] EXCEPT !.cancelled = TRUE] ELSE sync[n]]

(* Mutant: the entries go, but the workers are not cancelled.              *)
CancelWorkersKept(A) == DeleteEntries(A) /\ UNCHANGED sync

(* Sync workers are cancelled and their entries deleted.                   *)
CancelWorkers(A) == DeleteEntries(A) /\ sync' = Cancelled(Entries(A))

CancelChecks(A) ==
    checks' = [a \in Account |->
        IF a \in A /\ checks[a].entry
        THEN [live |-> checks[a].live - 1, entry |-> FALSE, ending |-> AtMost(checks[a].ending + 1)]
        ELSE checks[a]]

(* Those bootstrapMissingWorkers and refreshWorkers would start.  The      *)
(* latter counts its new workers only, so passes together exceed           *)
(* MaxWorkers.                                                             *)
Missing(a) == a \in accounts /\ workers[a] = NoSlot

(* Goroutines do not differ in their slots: the first one free is taken.   *)
Free == LET F == {n \in Slot : sync[n].pc = "none"} IN {n \in F : \A o \in F : n <= o}

(* startWorkerWithJitter.  The entry in checkWorkers is overwritten.       *)
StartWorker(a) ==
    /\ Started /\ server # "stopped"
    /\ Missing(a)
    /\ \E n \in Free :
          /\ workers' = [workers EXCEPT ![a] = n]
          /\ older' = older \cup (Entries(Account) \X {n})
          /\ sync' = [sync EXCEPT ![n] = [pc |-> "wait", account |-> a, cancelled |-> FALSE]]
    /\ checks' = [checks EXCEPT ![a].live = AtMost(@ + 1), ![a].entry = TRUE]
    /\ overlap' = overlap \cup {b \in {a} : \E n \in Running(a) : sync[n].cancelled}
    /\ UNCHANGED <<accounts, refreshCh, resync, server, jobs, spent>>

------------------------------------------------------------------------------
(* The loop of the manager.                                                *)

(* The workers of removed accounts end; so may one that showed no activity *)
(* for InactivityRestart.                                                  *)
RefreshWorkers ==
    /\ server # "stopped"
    /\ \/ Account \ accounts # {} /\ CancelWorkers(Account \ accounts) /\ UNCHANGED spent
       \/ Fault /\ \E a \in accounts :
             workers[a] # NoSlot /\ CancelWorkers((Account \ accounts) \cup {a})
    /\ UNCHANGED <<accounts, checks, refreshCh, resync, server, jobs, overlap>>

(* When every place is taken the oldest worker makes room.                 *)
MaybeRotateWorkers ==
    /\ server # "stopped" /\ Fault
    /\ Cardinality(Entries(Account)) >= MaxWorkers
    /\ \E a \in Account :
          /\ workers[a] # NoSlot /\ \A n \in Slot : <<n, workers[a]>> \notin older
          /\ CancelWorkers({a})
    /\ UNCHANGED <<accounts, checks, refreshCh, resync, server, jobs, overlap>>

(* All sync workers are cancelled; the check workers are not.              *)
ForceRestartWorkers ==
    /\ server # "stopped" /\ refreshCh
    /\ refreshCh' = FALSE
    /\ CancelWorkers(Account)
    /\ UNCHANGED <<accounts, checks, resync, server, jobs, overlap, spent>>

------------------------------------------------------------------------------
(* Requests.                                                               *)

(* Also what is left of ResumeAccount.                                     *)
TriggerRefresh ==
    /\ Request /\ ~refreshCh
    /\ refreshCh' = TRUE
    /\ UNCHANGED <<accounts, maps, sync, checks, resync, server, jobs, overlap>>

(* PauseAccount does no more than StopAccount.                             *)
StopAccount(a) ==
    /\ Request
    /\ CancelWorkers({a}) /\ CancelChecks({a})
    /\ UNCHANGED <<accounts, refreshCh, resync, server, jobs, overlap>>

ResyncAccount(a) ==
    /\ Request /\ resync = {}
    /\ CancelWorkers({a}) /\ CancelChecks({a})
    /\ resync' = {a}
    /\ UNCHANGED <<accounts, refreshCh, server, jobs, overlap>>

(* The entries are gone, or three seconds are over.  Everything the folders *)
(* have is new again, and the queue is empty.                              *)
ResetAccountSync ==
    /\ resync # {} /\ server # "stopped"
    /\ resync' = {}
    /\ mail' = mail \cup (resync \cap accounts) /\ tasks' = tasks \ resync
    /\ UNCHANGED <<accounts, maps, sync, checks, refreshCh, server, work, overlap, spent>>

(* The manager is not told.                                                *)
DeleteAccount(a) ==
    /\ Request /\ a \in accounts
    /\ accounts' = accounts \ {a}
    /\ mail' = mail \ {a} /\ tasks' = tasks \ {a} /\ work' = work \ {a}
    /\ UNCHANGED <<maps, sync, checks, refreshCh, resync, server, overlap>>

(* A request leaves something to be sent.  The wake-up it gives the worker *)
(* only makes the next poll come sooner.                                   *)
WakeUpAccount(a) ==
    /\ Request /\ a \in accounts \ work
    /\ work' = work \cup {a}
    /\ UNCHANGED <<accounts, maps, sync, checks, refreshCh, resync, server, mail, tasks, overlap>>

------------------------------------------------------------------------------
(* Goroutines.                                                             *)

Owner(n) == sync[n].account

(* Mutant: it also waits for the other workers of the account.             *)
DialAlone(n) ==
    /\ sync[n].pc = "wait" /\ Running(Owner(n)) = {n}
    /\ sync' = [sync EXCEPT ![n].pc = "login"]
    /\ UNCHANGED <<accounts, maps, checks, refreshCh, resync, server, jobs, overlap, spent>>

(* dialWithRateLimit waits for one of the places of the host, or until it  *)
(* is cancelled; while it dials it does not look.                          *)
Dial(n) ==
    /\ sync[n].pc = "wait"
    /\ \E pc \in {"login", "exit"} :
          /\ pc = "exit" => sync[n].cancelled
          /\ sync' = [sync EXCEPT ![n].pc = pc]
    /\ UNCHANGED <<accounts, maps, checks, refreshCh, resync, server, jobs, overlap, spent>>

LogIn(n) ==
    /\ sync[n].pc = "login"
    /\ sync' = [sync EXCEPT ![n].pc = "loop"]
    /\ UNCHANGED <<accounts, maps, checks, refreshCh, resync, server, jobs, overlap, spent>>

(* The connection breaks, or an error that will not go away, such as a     *)
(* missing password, ends the worker.                                      *)
Broken(n) ==
    /\ sync[n].pc \in {"wait", "login", "loop"} /\ Fault
    /\ \E pc \in {"wait", "exit"} : sync' = [sync EXCEPT ![n].pc = pc]
    /\ UNCHANGED <<accounts, maps, checks, refreshCh, resync, server, jobs, overlap>>

InLoop(n) == sync[n].pc = "loop" /\ ~sync[n].cancelled

(* consumerLoop: while there are tasks, nothing else is done; then it waits *)
(* for a wake-up or the poll timer and sends what is to be sent.  A worker *)
(* of a removed account finds nothing to do.                               *)
ProcessTasks(n) ==
    /\ InLoop(n) /\ Owner(n) \in tasks
    /\ tasks' = tasks \ {Owner(n)}
    /\ UNCHANGED <<accounts, maps, sync, checks, refreshCh, resync, server, mail, work, overlap, spent>>

Poll(n) ==
    /\ InLoop(n) /\ Owner(n) \in work \ tasks
    /\ work' = work \ {Owner(n)}
    /\ UNCHANGED <<accounts, maps, sync, checks, refreshCh, resync, server, mail, tasks, overlap, spent>>

(* syncNonInboxFolders, or SyncAllFolders of a session, finds messages.    *)
FolderScan(n) ==
    /\ InLoop(n) /\ Owner(n) \in mail \ tasks
    /\ mail' = mail \ {Owner(n)} /\ tasks' = tasks \cup {Owner(n)}
    /\ UNCHANGED <<accounts, maps, sync, checks, refreshCh, resync, server, work, overlap, spent>>

Leave(n) ==
    /\ sync[n].pc = "loop" /\ sync[n].cancelled
    /\ sync' = [sync EXCEPT ![n].pc = "exit"]
    /\ UNCHANGED <<accounts, maps, checks, refreshCh, resync, server, jobs, overlap, spent>>

(* The deferred cleanup deletes the entries of the account.                *)
SyncExit(n) ==
    /\ sync[n].pc = "exit"
    /\ DeleteEntries({Owner(n)})
    /\ sync' = [sync EXCEPT ![n].pc = "none"]
    /\ UNCHANGED <<accounts, checks, refreshCh, resync, server, jobs, overlap, spent>>

(* A check worker, cancelled or not, finds new messages in the inbox.      *)
CheckNewEmails(a) ==
    /\ checks[a].live > 0 /\ server # "stopped" /\ a \in mail
    /\ mail' = mail \ {a} /\ tasks' = tasks \cup {a}
    /\ UNCHANGED <<accounts, maps, sync, checks, refreshCh, resync, server, work, overlap, spent>>

(* Its deferred cleanup, too, deletes the entry of its successor.          *)
CheckExit(a) ==
    /\ checks[a].ending > 0
    /\ checks' = [checks EXCEPT ![a].ending = @ - 1, ![a].entry = FALSE]
    /\ UNCHANGED <<accounts, maps, sync, refreshCh, resync, server, jobs, overlap, spent>>

------------------------------------------------------------------------------
(* Shutdown, and the mail server.                                          *)

StopAll ==
    /\ server = "running" /\ server' = "stopping"
    /\ CancelWorkers(Account) /\ CancelChecks(Account)
    /\ UNCHANGED <<accounts, refreshCh, resync, jobs, overlap, spent>>

(* All goroutines have ended, or fifteen seconds are over.                 *)
Exit ==
    /\ server = "stopping" /\ server' = "stopped"
    /\ DeleteEntries(Account)
    /\ sync' = [n \in Slot |-> [sync[n] EXCEPT !.pc = "none"]]
    /\ checks' = [a \in Account |-> [live |-> 0, entry |-> FALSE, ending |-> 0]]
    /\ UNCHANGED <<accounts, refreshCh, resync, jobs, overlap, spent>>

NewMail(a) ==
    /\ Request /\ a \in accounts \ mail
    /\ mail' = mail \cup {a}
    /\ UNCHANGED <<accounts, maps, sync, checks, refreshCh, resync, server, tasks, work, overlap>>

GoroutineStep(n) ==
    Dial(n) \/ LogIn(n) \/ ProcessTasks(n) \/ Poll(n) \/ FolderScan(n) \/ Leave(n) \/ SyncExit(n)

Next ==
    \/ \E a \in Account : StartWorker(a) \/ StopAccount(a) \/ ResyncAccount(a)
                          \/ DeleteAccount(a) \/ WakeUpAccount(a) \/ NewMail(a)
                          \/ CheckNewEmails(a) \/ CheckExit(a)
    \/ RefreshWorkers \/ MaybeRotateWorkers \/ ForceRestartWorkers
    \/ TriggerRefresh \/ ResetAccountSync
    \/ \E n \in Slot : GoroutineStep(n) \/ Broken(n)
    \/ StopAll \/ Exit

Spec == Init /\ [][Next]_vars

(* Goroutines run on, that of the manager included.                        *)
FairSpec ==
    /\ Spec
    /\ \A n \in Slot : WF_vars(GoroutineStep(n))
    /\ WF_vars(ForceRestartWorkers)

(* Moreover a worker is started where one is missing, if anybody does so.  *)
StartingSpec == FairSpec /\ \A a \in Account : WF_vars(StartWorker(a))

------------------------------------------------------------------------------
(* Properties.                                                             *)

(* The state has the declared shape.                                       *)
TypeOK ==
    /\ accounts \subseteq Account
    /\ workers \in [Account -> Slot \cup {NoSlot}]
    /\ sync \in [Slot -> Goroutine]
    /\ checks \in [Account -> Checks]
    /\ older \subseteq Entries(Account) \X Entries(Account)
    /\ \A m, n \in Entries(Account) : m # n => (<<m, n>> \in older <=> <<n, m>> \notin older)
    /\ refreshCh \in BOOLEAN
    /\ resync \subseteq Account /\ \A a, b \in resync : a = b
    /\ mail \cup tasks \cup work \cup overlap \subseteq Account
    /\ server \in {"running", "stopping", "stopped"}

(* An entry of the map stands for a goroutine of its account that was not  *)
(* told to stop, although every cancelled predecessor and every failing    *)
(* worker deletes by account: an entry without a goroutine would keep the  *)
(* account from ever getting a worker again.                               *)
EntriesLive ==
    \A a \in Account : workers[a] # NoSlot =>
        LET n == workers[a]
        IN sync[n].pc # "none" /\ sync[n].account = a /\ ~sync[n].cancelled

(* No account has two sync workers that have not been told to stop, which  *)
(* would send its flags and moves twice, unless one was started while a    *)
(* cancelled predecessor, which deletes by account, was still ending.      *)
OneWorker ==
    \A a \in Account \ overlap : \A m, n \in Running(a) :
        ~sync[m].cancelled /\ ~sync[n].cancelled => m = n

(* An entry in the map is good for something: new messages are fetched and *)
(* what a request leaves to be sent is sent in the end, or the entry goes, *)
(* so that the account can get another worker; whichever worker of the     *)
(* account is stopped, fails or ends in between.  That workers are started *)
(* is not assumed.                                                         *)
WorkDone ==
    \A a \in Account :
        a \in mail \cup tasks \cup work ~>
            a \notin mail \cup tasks \cup work \/ workers[a] = NoSlot \/ server # "running"

(* An account gets a worker.                                               *)
AccountsServed ==
    \A a \in Account : a \in accounts ~> workers[a] # NoSlot \/ a \notin accounts
                                         \/ server # "running"

(* The maps of the manager and its goroutines agree.                       *)
WorkersKnown == EntriesLive /\ OneWorker

=============================================================================
