------------------------------ MODULE Listing ------------------------------
(***************************************************************************)
(* The message lists of the API: GET /api/emails page by page, the counts  *)
(* and id lists behind badges and "select all", and the search.            *)
(*                                                                         *)
(* One user walks through the pages of a view while mail arrives, goes or  *)
(* changes between two requests.  A walk is what useEmailsInfinite does:   *)
(* it sends back the X-Next-Cursor of the last page until a page comes     *)
(* without one.  Lists of accounts and folders use a keyset cursor         *)
(* (GetEmailsCursor), the label lists of Gmail accounts an offset hidden   *)
(* in the cursor (GetEmailsByLabel), project groups return one page.       *)
(*                                                                         *)
(* Times.  The store writes date_sent as 2006-01-02T15:04:05.000Z, while   *)
(* GetEmailsCursor binds cursor.DateSent as a time.Time, which the driver  *)
(* writes as 2006-01-02 15:04:05 +0000 UTC.  The texts are compared: on    *)
(* one day the stored one is always the greater ('T' follows ' '), and the *)
(* two are never equal.  Date \div 2 stands for the day.  The same query   *)
(* scans first_response_at, resolved_at and snooze_until, which are TEXT,  *)
(* into sql.NullTime: a page that holds a row with one of them set fails.  *)
(***************************************************************************)
EXTENDS Integers, FiniteSets

CONSTANTS Messages,     \* ids: a set of numbers, compared by ORDER BY id
          Date,         \* [Messages -> Nat]: date_sent
          Limit,        \* rows of a page
          SearchLimit,  \* rows of a search
          IdLimit,      \* ids behind "select all", of one account
          MaxChanges    \* changes of rows besides their arrival

ListingAssumption ==
  /\ Messages \subseteq Nat /\ Messages # {} /\ IsFiniteSet(Messages)
  /\ Date \in [Messages -> Nat]
  /\ {Limit, SearchLimit, IdLimit} \subseteq Nat \ {0} /\ MaxChanges \in Nat

VARIABLES rows,      \* emails
          walk,      \* the list the user scrolls through
          indexed,   \* messages ever written to emails_fts
          found,     \* the last search
          budget     \* changes left

listing == <<rows, walk, indexed, found, budget>>

Folders == {"INBOX", "Archive"}
NoRow == [there |-> FALSE, folder |-> "INBOX", pinned |-> FALSE, unread |-> FALSE,
          muted |-> FALSE, category |-> FALSE, snoozed |-> FALSE, stamped |-> FALSE]
Rows == [there : BOOLEAN, folder : Folders, pinned : BOOLEAN, unread : BOOLEAN,
         muted : BOOLEAN, category : BOOLEAN, snoozed : BOOLEAN, stamped : BOOLEAN]

Present == {m \in Messages : rows[m].there}

----------------------------------------------------------------------------
(* The WHERE clauses.                                                      *)

Kinds == {"unified", "folder", "account", "group", "label"}

\* Smart categories are hidden from inboxes by folder lists, not by account
\* lists, groups and labels.
InView(kind, folder, r) ==
  /\ r.there
  /\ ~r.snoozed
  /\ kind # "account" => r.folder = folder
  /\ kind \in {"unified", "folder"} /\ folder = "INBOX" => ~r.category

\* GetEmailsByLabel takes no filter.
Filtered(kind, unread, r) == unread /\ kind # "label" => r.unread /\ ~r.muted

Visible(kind, folder, unread) ==
  {m \in Messages : InView(kind, folder, rows[m]) /\ Filtered(kind, unread, rows[m])}

\* Mutant: the count does not leave the smart categories out.
InboxWhereAll == {m \in Present : rows[m].folder = "INBOX" /\ ~rows[m].snoozed}

\* buildFilterWhere for the inbox by name, as the count and the ids of the
\* unified inbox use it.
InboxWhere == {m \in Present : /\ rows[m].folder = "INBOX"
                               /\ ~rows[m].category
                               /\ ~rows[m].snoozed}

\* GetEmailIDs of the store, for one account and folder: nothing is hidden.
RowsOf(kind, folder) == {m \in Present : kind = "account" \/ rows[m].folder = folder}

\* What LIMIT may leave of the rows of a query that states no order.
Within(limit, set) ==
  IF Cardinality(set) <= limit THEN {set} ELSE {some \in SUBSET set : Cardinality(some) = limit}

\* The ids behind "select all": any of these sets.
GetEmailIDs(kind, folder) ==
  Within(IdLimit, IF kind = "unified" THEN InboxWhere ELSE RowsOf(kind, folder))

\* The same conditions for counting, where only a smart category hides a
\* message of a folder.
Counted(kind, folder) ==
  IF kind = "unified" THEN InboxWhere
  ELSE {m \in RowsOf(kind, folder) :
          kind = "folder" => ~(rows[m].folder = "INBOX" /\ rows[m].category)}

GetEmailCount(kind, folder, unread) ==
  Cardinality({m \in Counted(kind, folder) : unread => rows[m].unread /\ ~rows[m].muted})

----------------------------------------------------------------------------
(* Pages.                                                                  *)

\* ORDER BY date_sent DESC; rows of one date come in the order of the table.
LabelBefore(a, b) == Date[a] > Date[b] \/ (Date[a] = Date[b] /\ a > b)

\* ORDER BY is_pinned DESC, date_sent DESC, id DESC
KeysetBefore(a, b) ==
  \/ rows[a].pinned /\ ~rows[b].pinned
  \/ rows[a].pinned = rows[b].pinned /\ LabelBefore(a, b)

Before(kind, a, b) == IF kind = "label" THEN LabelBefore(a, b) ELSE KeysetBefore(a, b)

\* How many rows of a result come before m.
Rank(kind, m, set) == Cardinality({n \in set : Before(kind, n, m)})

LastOf(kind, page) == CHOOSE m \in page : \A n \in page \ {m} : Before(kind, n, m)

\* Mutant: the page begins with the day of the cursor.
AfterOrOn(m, cursor) ==
  \/ ~rows[m].pinned /\ cursor.pinned
  \/ rows[m].pinned = cursor.pinned /\ Date[m] \div 2 <= cursor.date \div 2

\* Mutant: the cursor forgets is_pinned.
AfterByDate(m, cursor) == Date[m] \div 2 < cursor.date \div 2

\* is_pinned < ? OR (is_pinned = ? AND date_sent < ?) OR (... = ? AND id < ?)
After(m, cursor) ==
  \/ ~rows[m].pinned /\ cursor.pinned
  \/ rows[m].pinned = cursor.pinned /\ Date[m] \div 2 < cursor.date \div 2

Start == [pinned |-> FALSE, date |-> 0, offset |-> 0, first |-> TRUE]

\* The rows the query returns.
Page(w) ==
  LET visible == Visible(w.kind, w.folder, w.unread)
      rest == IF w.kind \in {"label", "group"} \/ w.cursor.first THEN visible
              ELSE {m \in visible : After(m, w.cursor)}
  IN  {m \in rest : Rank(w.kind, m, rest) \in w.cursor.offset .. w.cursor.offset + Limit - 1}

\* Mutant: the next offset is one too far.
NextCursorPast(w, page) ==
  IF w.kind = "label"
  THEN [Start EXCEPT !.first = FALSE, !.offset = w.cursor.offset + Limit + 1]
  ELSE [Start EXCEPT !.first = FALSE, !.pinned = rows[LastOf(w.kind, page)].pinned,
                     !.date = Date[LastOf(w.kind, page)]]

\* X-Next-Cursor.
NextCursor(w, page) ==
  IF w.kind = "label"
  THEN [Start EXCEPT !.first = FALSE, !.offset = w.cursor.offset + Limit]
  ELSE [Start EXCEPT !.first = FALSE, !.pinned = rows[LastOf(w.kind, page)].pinned,
                     !.date = Date[LastOf(w.kind, page)]]

Fails(w, page) ==
  w.kind \notin {"label", "group"} /\ \E m \in page : rows[m].stamped

----------------------------------------------------------------------------
NoSearch == [searched |-> FALSE, matched |-> FALSE, shown |-> FALSE, crowded |-> FALSE]
NoWalk == [kind |-> "unified", folder |-> "INBOX", unread |-> FALSE, cursor |-> Start,
           shown |-> [m \in Messages |-> 0], steady |-> {}, calm |-> TRUE,
           ends |-> {}, pc |-> "closed"]

Init ==
  /\ rows = [m \in Messages |-> NoRow]
  /\ walk = NoWalk
  /\ indexed = {}
  /\ found = NoSearch
  /\ budget = MaxChanges

\* Nothing is followed beyond the end of a walk or during a search.
Followed == walk.pc \in {"closed", "open"} /\ ~found.searched

\* What a change of the row of m does to the walk under way.
Disturb(m) ==
  walk' = IF walk.pc = "open"
          THEN [walk EXCEPT !.steady = @ \ {m}, !.calm = FALSE] ELSE walk

\* The ingest inserts m, unread, and indexes it.
Arrive(m) ==
  /\ m \notin indexed /\ Followed
  /\ \E folder \in Folders, category \in BOOLEAN :
       /\ category => folder = "INBOX"
       /\ rows' = [rows EXCEPT ![m] =
                     [NoRow EXCEPT !.there = TRUE, !.folder = folder,
                                   !.unread = TRUE, !.category = category]]
  /\ indexed' = indexed \cup {m}
  /\ Disturb(m)
  /\ UNCHANGED <<found, budget>>

\* The user, another request or the synchronisation changes or deletes m.
Change(m) ==
  /\ m \in Present /\ budget > 0 /\ Followed
  /\ \E r \in { NoRow,
                [rows[m] EXCEPT !.pinned = ~@],
                [rows[m] EXCEPT !.unread = ~@],
                [rows[m] EXCEPT !.muted = ~@],
                [rows[m] EXCEPT !.snoozed = ~@],
                [rows[m] EXCEPT !.stamped = TRUE],
                [rows[m] EXCEPT !.folder = "Archive"] } :
       rows' = [rows EXCEPT ![m] = r]
  /\ budget' = budget - 1
  /\ Disturb(m)
  /\ UNCHANGED <<indexed, found>>

\* The user opens a view: the folders of a Gmail account are read by label,
\* those of other accounts by folder_id.
OpenView ==
  /\ walk.pc = "closed" /\ Followed
  /\ \E kind \in Kinds, folder \in Folders, unread \in BOOLEAN :
       /\ kind \notin {"folder", "label"} => folder = "INBOX"
       /\ walk' = [NoWalk EXCEPT !.kind = kind, !.folder = folder, !.unread = unread,
                     !.steady = Visible(kind, folder, unread), !.pc = "open"]
  /\ UNCHANGED <<rows, indexed, found, budget>>

\* GET /api/emails for the next page.
GetEmails ==
  LET page == Page(walk)
  IN  /\ walk.pc = "open"
      /\ IF Fails(walk, page)
         THEN walk' = [walk EXCEPT !.pc = "failed"]
         ELSE walk' = [walk EXCEPT
                !.shown = [m \in Messages |-> IF m \in page THEN @[m] + 1 ELSE @[m]],
                !.ends = IF page = {} THEN @ ELSE @ \cup {LastOf(walk.kind, page)},
                !.cursor = IF Cardinality(page) = Limit THEN NextCursor(walk, page) ELSE @,
                !.pc = IF Cardinality(page) = Limit /\ walk.kind # "group"
                       THEN "open" ELSE "done"]
      /\ UNCHANGED <<rows, indexed, found, budget>>

\* emails_fts keeps no content and its columns read as NULL: in one account
\* no row qualifies, and without an account the scan of an id fails.
SearchFTS(inAccount) == IF inAccount \/ indexed = {} THEN "nothing" ELSE "error"

\* Mutant: LIKE is only asked when the index fails.
LikeAskedOnError(fts) == fts = "error"

LikeAsked(fts) == fts \in {"nothing", "error"}

\* LIKE looks for the text with a space for each of @ . < > - _ in it, which
\* only finds a text without them, and returns the latest of what it finds:
\* any of these sets, as messages of one time come in any order.
SearchEmails(matches, plain) ==
  LET like == IF plain THEN matches \cap Present ELSE {}
  IN  {some \in Within(SearchLimit, like) :
         \A m \in some, n \in like \ some : Date[m] >= Date[n]}

\* So many messages of other folders with the text are as late as each of
\* the folder searched.
Crowded(matches, folder) ==
  \A m \in {n \in matches \cap Present : rows[n].folder \in folder} :
    Cardinality({n \in matches \cap Present : rows[n].folder \notin folder /\ Date[n] >= Date[m]})
      >= SearchLimit

\* GET /api/search for a text that some messages contain, perhaps in one
\* folder, to which the result is cut down at the end.
Search ==
  /\ walk.pc = "closed" /\ ~found.searched
  /\ \E matches \in SUBSET Messages, plain, inAccount \in BOOLEAN, folder \in SUBSET Folders :
       LET Of(set) == {m \in set \cap Present : rows[m].folder \in folder}
       IN  \E emails \in IF LikeAsked(SearchFTS(inAccount)) THEN SearchEmails(matches, plain)
                         ELSE {{}} :
             found' = [searched |-> TRUE, matched |-> plain /\ Of(matches) # {},
                       shown |-> Of(emails) # {}, crowded |-> Crowded(matches, folder)]
  /\ UNCHANGED <<rows, walk, indexed, budget>>

\* The result is shown and gone.
Forget ==
  /\ found.searched
  /\ found' = NoSearch
  /\ UNCHANGED <<rows, walk, indexed, budget>>

Next ==
  \/ \E m \in Messages : Arrive(m) \/ Change(m)
  \/ OpenView
  \/ GetEmails
  \/ Search
  \/ Forget

Spec == Init /\ [][Next]_listing

----------------------------------------------------------------------------
\* The state has the declared shape.
TypeOK ==
  /\ rows \in [Messages -> Rows]
  /\ walk.pc \in {"closed", "open", "failed", "done"}
  /\ walk.shown \in [Messages -> Nat]
  /\ walk.steady \subseteq Messages
  /\ indexed \subseteq Messages

\* Pages by keyset never repeat a message that did not change since the list
\* was opened, whatever arrives, goes or is pinned in between.
NoRepeats ==
  walk.kind # "label" => \A m \in walk.steady : walk.shown[m] <= 1

\* A keyset list that was scrolled to its end has shown every message that was
\* there from the beginning and did not change, but for those of the day a
\* page ended in, which the comparison of the two time formats skips.
OnlyDaysOfPageEndsSkipped ==
  walk.pc = "done" /\ walk.kind \notin {"label", "group"} =>
    \A m \in walk.steady :
      \/ walk.shown[m] = 1
      \/ \E e \in walk.ends : Date[e] \div 2 = Date[m] \div 2

\* The offset pages of a Gmail label show every message exactly once when
\* nothing changes meanwhile.
CalmLabelComplete ==
  walk.pc = "done" /\ walk.kind = "label" /\ walk.calm =>
    \A m \in walk.steady : walk.shown[m] = 1

\* The badge and "select all" use other queries than the list.  For the
\* unified inbox they agree with it on the messages and the unread ones.  For a
\* folder "select all" leaves none of the list out, and the badge counts what
\* is shown, and the snoozed messages besides.  "Select all" that comes back
\* with as many ids as the query may return can leave messages out.
InboxQueriesAgree ==
  /\ \A ids \in GetEmailIDs("unified", "INBOX") :
       /\ ids \subseteq Visible("unified", "INBOX", FALSE)
       /\ Cardinality(ids) < IdLimit => ids = Visible("unified", "INBOX", FALSE)
  /\ GetEmailCount("unified", "INBOX", TRUE) = Cardinality(Visible("unified", "INBOX", TRUE))
  /\ \A folder \in Folders, unread \in BOOLEAN :
       LET shown == Visible("folder", folder, unread)
           count == GetEmailCount("folder", folder, unread)
       IN  /\ \A ids \in GetEmailIDs("folder", folder) :
                Cardinality(ids) < IdLimit => shown \subseteq ids
           /\ count >= Cardinality(shown)
           /\ (\A m \in Present : ~rows[m].snoozed) => count = Cardinality(shown)

\* A search finds something when some message contains its text, although the
\* full-text index never answers and may be out of date.  (A text with one of
\* the separators in it is not found.)  In a folder nothing is found either
\* when a whole result of later messages comes from other folders: the search
\* takes the latest messages of all folders before it cuts to the one asked.
SearchFinds == found.matched => found.shown \/ found.crowded

\* Scrolling shows what there is, once.
PagesSound == NoRepeats /\ OnlyDaysOfPageEndsSkipped /\ CalmLabelComplete

\* The queries beside the list find what the list has.
QueriesAgree == InboxQueriesAgree /\ SearchFinds

=============================================================================
