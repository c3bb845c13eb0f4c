----------------------------- MODULE MCRequests -----------------------------
(***************************************************************************)
(* Requests, ingests and the files and rows they share: the message store, *)
(* credentials, lists, the labels of Gmail accounts, the rows of folders,  *)
(* the items users keep, and team handling.  The modules share no state    *)
(* they tell apart, so that one run checks each by itself: focus chooses   *)
(* the one that moves, the others stay in their initial state.             *)
(***************************************************************************)
EXTENDS Organizer, TLC

CONSTANTS
    Msg, NoMsg, NoEmail, Hash, Content,
    i1,
    Login, MaxPassword, MaxRequests,
    Messages, Date, Limit, SearchLimit, IdLimit, MaxChanges,
    Letter, Folder, NoFolder, MaxRows, MaxMoves,
    User, Nobody,
    Path, NoPath, Mailbox, Inbox, Trash, Syncer, Worker, Checkpoint, MaxMail, MaxOrders,
    MaxId,
    MaxFaults

VARIABLES
    focus,
    gmail, rows, bodies, atts, files, index, next, ingest, purge, reset, gc, server, doomed,
    cut, faults, torn,
    provider, credentials, hash, mcp, login, rekey, env, config,
    careful, skipped, confirmed, spent,
    listed, walk, indexed, found, budget,
    google, settled, copies, labels, nextId, todo, moves, worker, due, doubled, moved, failures,
    tickets, stored, users, handling, unstamped, mishaps,
    mail, folders, nextFolder, emails, tasks, done, syncer, deleting, left,
    started, gone, missed, outlived, erased, renamed, stale

(* Messages with the same attachment; messages of one day and of the next. *)
OneFile == [m \in Msg |-> CHOOSE h \in Hash : TRUE]
TwoADay == [m \in Messages |-> 2 * (m \div 2)]

(* Members of these sets are not told apart.  Only one component moves, so *)
(* that permutations of several sets need not be combined in every way.    *)
Exchange(S) == CHOOSE p \in Permutations(S) :
                  (\E x \in S : p[x] # x) /\ \A x \in S : p[p[x]] = x
Exchanged == Exchange(Msg) @@ Exchange(Client) @@ Exchange(Login) @@ Exchange(Folder)
                 @@ Exchange(User)
Symmetry == {[x \in DOMAIN Exchanged |-> IF both THEN Exchanged[x] ELSE x] : both \in BOOLEAN}

Store == INSTANCE MessageStore WITH MaxCrashes <- MaxFaults
Accounts == INSTANCE Credentials WITH account <- credentials
Lists == INSTANCE Listing WITH rows <- listed
Gmail == INSTANCE GmailLabels WITH Msg <- Letter, MaxId <- MaxRows, gmail <- google, rows <- copies,
             next <- nextId
Team == INSTANCE Triage WITH MaxFailures <- MaxFaults
FolderRows == INSTANCE FolderList WITH MaxRequests <- MaxOrders, rows <- folders, next <- nextFolder,
                  requests <- left

ASSUME RequestsAssumption ==
    /\ Store!MessageStoreAssumption
    /\ Accounts!CredentialsAssumption
    /\ Lists!ListingAssumption
    /\ Gmail!GmailLabelsAssumption
    /\ Team!TriageAssumption
    /\ FolderRows!FolderListAssumption

store == <<gmail, rows, bodies, atts, files, index, next, ingest, purge, reset, gc, server,
           doomed, cut, faults, torn>>
secrets == <<provider, credentials, hash, mcp, login, rekey, env,
             config, careful, skipped, confirmed, spent>>
lists == <<listed, walk, indexed, found, budget>>
mailboxes == <<google, settled, copies, labels, nextId, todo, moves, worker, due, doubled,
               moved, failures>>
team == <<tickets, stored, users, handling, unstamped, mishaps>>
names == <<mail, folders, nextFolder, emails, tasks, done, syncer, deleting, left, started,
           gone, missed, outlived, erased, renamed, stale>>
requests == <<focus, organizer, store, secrets, lists, mailboxes, team, names>>

Pair(k, l) == [i \in Item |-> IF i = i1 THEN k ELSE l]
Pairs == {Pair("label", "label"), Pair("contact", "group"), Pair("template", "rule"),
          Pair("webhook", "contact")}

MCInit ==
    /\ focus \in {"store", "secrets", "lists", "mailboxes", "items", "team", "worker", "passes"}
    /\ kind \in Pairs /\ Init
    /\ Store!Init /\ Accounts!Init /\ Lists!Init /\ Gmail!Init /\ Team!Init
    /\ FolderRows!Init
    /\ focus # "items" => kind = Pair("label", "label")
    /\ focus # "store" => ~gmail
    /\ focus # "secrets" => careful
    /\ focus \notin {"worker", "passes"} => mail = [p \in Mailbox |-> 0]

(* The rows of folders under a sync worker alone, and under all syncers    *)
(* while users leave them alone and each mailbox has one message.          *)
Passes ==
    /\ FolderRows!Next
    /\ \/ focus = "worker" /\ \A s \in Syncer \ Worker : syncer'[s].pc = "idle"
       \/ focus = "passes" /\ left' = left /\ \A p \in Mailbox : mail'[p] <= 1

MCNext ==
    \/ /\ focus = "items" /\ Next
       /\ UNCHANGED <<focus, store, secrets, lists, mailboxes, team, names>>
    \/ /\ focus = "store" /\ Store!Next
       /\ UNCHANGED <<focus, organizer, secrets, lists, mailboxes, team, names>>
    \/ /\ focus = "secrets" /\ Accounts!Next
       /\ UNCHANGED <<focus, organizer, store, lists, mailboxes, team, names>>
    \/ /\ focus = "lists" /\ Lists!Next
       /\ UNCHANGED <<focus, organizer, store, secrets, mailboxes, team, names>>
    \/ /\ focus = "mailboxes" /\ Gmail!Next
       /\ UNCHANGED <<focus, organizer, store, secrets, lists, team, names>>
    \/ /\ focus = "team" /\ Team!Next
       /\ UNCHANGED <<focus, organizer, store, secrets, lists, mailboxes, names>>
    \/ /\ focus \in {"worker", "passes"} /\ Passes
       /\ UNCHANGED <<focus, organizer, store, secrets, lists, mailboxes, team>>

MCSpec == MCInit /\ [][MCNext]_requests

-----------------------------------------------------------------------------
(* What the modules state, each about the states in which its component    *)
(* may have moved.                                                         *)

(* The states of all seven have the declared shapes.                       *)
TypesOK ==
    /\ focus = "items" => TypeOK
    /\ focus = "store" => Store!TypeOK
    /\ focus = "secrets" => Accounts!TypeOK
    /\ focus = "lists" => Lists!TypeOK
    /\ focus = "mailboxes" => Gmail!TypeOK
    /\ focus = "team" => Team!TypeOK
    /\ focus \in {"worker", "passes"} => FolderRows!TypeOK

(* What the database says of files on the disk is so: a message with a row *)
(* has the file of its body, an attachment that is known has its file.     *)
RowsBacked == focus = "store" => Store!RowsBacked

(* The words of a message are in the index once its ingest is over.        *)
Indexed == focus = "store" => Store!Indexed

(* The password of a login that nothing disturbed is kept, and what is     *)
(* stored can be read in every phase of a key rotation.                    *)
SecretsKept == focus = "secrets" => Accounts!SecretsKept

(* Pages never repeat a message that did not change, and leave none out    *)
(* but those of the days they ended in.                                    *)
PagesSound == focus = "lists" => Lists!PagesSound

(* Badges, "select all" and searches agree with the list, up to the limits *)
(* of their queries.                                                       *)
QueriesAgree == focus = "lists" => Lists!QueriesAgree

(* A mailbox of a Gmail account lists every message ingested from it, and  *)
(* after the cleanup each message has one row.                             *)
LabelsKept == focus = "mailboxes" => Gmail!LabelsKept

(* A ticket in progress or resolved carries its times, and the dashboard   *)
(* counts every unread email.                                              *)
TicketsCounted == focus = "team" => Team!TicketsCounted

(* Messages belong to the folder of their mailbox, and what its cursor has *)
(* passed over is accounted for.                                           *)
FoldersSound == focus \in {"worker", "passes"} => FolderRows!FoldersSound
=============================================================================
