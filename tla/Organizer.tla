----------------------------- MODULE Organizer -----------------------------
(***************************************************************************)
(* What users keep beside their mail: templates, contacts, labels, filter  *)
(* rules, webhooks and groups of accounts, with the labels set on an email *)
(* and the accounts put into a group.  A handler reads the row, checks     *)
(* that its account is the caller's, and writes by id alone in a later     *)
(* statement, so that requests of several clients interleave in between.   *)
(*                                                                         *)
(* An item is a row with its id, which is drawn anew for every row: kind   *)
(* says what it is a row of.  In this edition a user is an account.        *)
(***************************************************************************)
EXTENDS Naturals, FiniteSets

CONSTANTS
    Client,    \* requests being served at once
    Account,
    Unified,   \* the account_id "unified"
    NoAccount,
    Item,      \* bound: rows ever made
    NoItem,
    Email

ASSUME OrganizerAssumption ==
    /\ IsFiniteSet(Item) /\ NoItem \notin Item
    /\ Unified \notin Account /\ NoAccount \notin Account \cup {Unified}
    /\ Email \cap Item = {}

Kinds == {"template", "contact", "label", "rule", "webhook", "group"}
Owner == Account \cup {Unified}
NoRequest == [pc |-> "idle", item |-> NoItem, user |-> NoAccount, account |-> NoAccount]

VARIABLES
    kind,      \* the table an id belongs to; never changes
    state,     \* of an item: "new", "live" or "gone"
    account,   \* its account_id
    writer,    \* history: the user who wrote it last
    labelled,  \* email_labels: the labels set on an email
    members,   \* project_group_accounts: the accounts in a group
    asked,     \* history: the sets that requests gave to an email or a group
    request    \* of a client

organizer == <<kind, state, account, writer, labelled, members, asked, request>>

contents == <<kind, state, account, writer, labelled, members, asked>>

------------------------------------------------------------------------------
Live(i) == state[i] = "live"

(* CheckAccountAccess: everybody may use "unified", an account only the    *)
(* user with its address.                                                  *)
Check(user, a) == a \in {user, Unified}

Init ==
    /\ kind \in [Item -> Kinds]
    /\ state = [i \in Item |-> "new"]
    /\ account = [i \in Item |-> NoAccount] /\ writer = [i \in Item |-> NoAccount]
    /\ labelled = [e \in Email |-> {}] /\ members = [i \in Item |-> {}]
    /\ asked = [x \in Email \cup Item |-> {{}}]
    /\ request = [c \in Client |-> NoRequest]

(* The handler up to its check: the account is that of the request for a   *)
(* creation, that of the row for a change or a deletion.                   *)
Begin(c, k, op, i, user, a) ==
    /\ request[c] = NoRequest /\ kind[i] = k
    /\ IF op = "create" THEN state[i] = "new" ELSE Live(i) /\ a = account[i]
    /\ k # "group" => Check(user, a)
    /\ \A d \in Client : op = "create" => request[d].item # i
    /\ request' = [request EXCEPT ![c] = [pc |-> op, item |-> i, user |-> user, account |-> a]]
    /\ UNCHANGED contents

(* Answered, or ended early: a statement fails, or the caller goes away    *)
(* and its context cancels the statement.                                  *)
Answer(c) ==
    /\ request[c].pc # "idle"
    /\ request' = [request EXCEPT ![c] = NoRequest]
    /\ UNCHANGED contents

(* Which handlers there are for each kind.                                 *)
Template(c, i, u, a) == \E op \in {"create", "delete"} : Begin(c, "template", op, i, u, a)
Contact(c, i, u, a) == \E op \in {"create", "update", "delete"} : Begin(c, "contact", op, i, u, a)
Label(c, i, u, a) == \E op \in {"create", "update", "delete"} : Begin(c, "label", op, i, u, a)
Rule(c, i, u, a) == \E op \in {"create", "update", "delete"} : Begin(c, "rule", op, i, u, a)
Webhook(c, i, u, a) == \E op \in {"create", "delete"} : Begin(c, "webhook", op, i, u, a)

(* Groups belong to no account; only an administrator handles them.        *)
Group(c, i, u) == \E op \in {"create", "update", "delete"} : Begin(c, "group", op, i, u, Unified)

------------------------------------------------------------------------------
(* The statements.                                                         *)

(* For a label "unified" becomes NULL, which the column never takes.  The  *)
(* other tables take it, those with a foreign key only on a connection     *)
(* that does not enforce it; a statement that fails ends in Answer.        *)
MayTake(k, a) == ~(k = "label" /\ a = Unified)

Insert(c) ==
    LET r == request[c]
    IN /\ r.pc = "create" /\ MayTake(kind[r.item], r.account)
       /\ state' = [state EXCEPT ![r.item] = "live"]
       /\ account' = [account EXCEPT ![r.item] = r.account]
       /\ writer' = [writer EXCEPT ![r.item] = r.user]
       /\ request' = [request EXCEPT ![c] = NoRequest]
       /\ UNCHANGED <<kind, labelled, members, asked>>

(* Mutant: the account of the body is written with the rest.               *)
AccountOfBody(i) == CHOOSE a \in Account : a # account[i]

(* UPDATE ... WHERE id: nothing happens to a row deleted since the check.  *)
(* The account is not among the columns written.                           *)
AccountAfter(i) == account[i]

Update(c) ==
    LET i == request[c].item
    IN /\ request[c].pc = "update"
       /\ account' = [account EXCEPT ![i] = AccountAfter(i)]
       /\ writer' = [writer EXCEPT ![i] = IF Live(i) THEN request[c].user ELSE @]
       /\ request' = [request EXCEPT ![c].pc = IF kind[i] = "label" THEN "reread" ELSE "answer"]
       /\ UNCHANGED <<kind, state, labelled, members, asked>>

(* UpdateLabel reads the label again for its answer and fails if it has    *)
(* been deleted; the others answer with what they were given.              *)
Reread(c) == request[c].pc = "reread" /\ Answer(c)

(* The rows that refer to the item go with it on a connection that         *)
(* enforces foreign keys, else they stay.                                  *)
Delete(c) ==
    LET i == request[c].item
    IN /\ request[c].pc = "delete"
       /\ state' = [state EXCEPT ![i] = "gone"]
       /\ \/ /\ labelled' = [e \in Email |-> labelled[e] \ {i}]
             /\ members' = [members EXCEPT ![i] = {}]
          \/ UNCHANGED <<labelled, members>>
       /\ request' = [request EXCEPT ![c].pc = "answer"]
       /\ UNCHANGED <<kind, account, writer, asked>>

WriteTemplate(c) == kind[request[c].item] = "template" /\ (Insert(c) \/ Delete(c))
WriteContact(c) == kind[request[c].item] = "contact" /\ (Insert(c) \/ Update(c) \/ Delete(c))
WriteLabel(c) ==
    kind[request[c].item] = "label" /\ (Insert(c) \/ Update(c) \/ Reread(c) \/ Delete(c))
WriteRule(c) == kind[request[c].item] = "rule" /\ (Insert(c) \/ Update(c) \/ Delete(c))
WriteWebhook(c) == kind[request[c].item] = "webhook" /\ (Insert(c) \/ Delete(c))
WriteGroup(c) == kind[request[c].item] = "group" /\ (Insert(c) \/ Update(c) \/ Delete(c))

------------------------------------------------------------------------------
(* Labels of an email, accounts of a group.                                *)

(* Mutant: the new rows are added to those there are.                      *)
Added(old, new) == old \cup new

(* DELETE and INSERT OR IGNORE in one transaction.                         *)
Replaced(old, new) == new

(* A request lists the labels its client knows of; some may be gone.  Then *)
(* a connection that enforces foreign keys refuses the whole transaction,  *)
(* and another one stores rows that no read joins.                         *)
SetEmailLabels(e, L) ==
    /\ \A i \in L : kind[i] = "label" /\ state[i] # "new"
    /\ labelled' = [labelled EXCEPT ![e] = Replaced(@, L)]
    /\ asked' = [asked EXCEPT ![e] = @ \cup {L}]
    /\ UNCHANGED <<kind, state, account, writer, members, request>>

GetEmailLabels(e) == {i \in labelled[e] : Live(i)}

(* The accounts of a group that is gone stay possible in the same way.     *)
SetGroupAccounts(i, A) ==
    /\ kind[i] = "group" /\ state[i] # "new"
    /\ members' = [members EXCEPT ![i] = Replaced(@, A)]
    /\ asked' = [asked EXCEPT ![i] = @ \cup {A}]
    /\ UNCHANGED <<kind, state, account, writer, labelled, request>>

------------------------------------------------------------------------------
(* The lists a user asks for.  "unified" lists the items kept under that   *)
(* account, not those of all.                                              *)
ListOf(k, user, a) ==
    IF Check(user, a) THEN {i \in Item : Live(i) /\ kind[i] = k /\ account[i] = a} ELSE {}

GetTemplates(user, a) == ListOf("template", user, a)
GetLabels(user, a) == ListOf("label", user, a)
GetRules(user, a) == ListOf("rule", user, a)
GetWebhooks(user, a) == ListOf("webhook", user, a)

(* Without an account the contacts of all.                                 *)
GetContacts(user, a) ==
    IF a = NoAccount THEN {i \in Item : Live(i) /\ kind[i] = "contact"}
    ELSE ListOf("contact", user, a)

Listed(user, a) ==
    UNION {GetTemplates(user, a), GetContacts(user, a), GetLabels(user, a),
           GetRules(user, a), GetWebhooks(user, a)}

------------------------------------------------------------------------------
Next ==
    \/ \E c \in Client, i \in Item, u \in Account : Group(c, i, u)
    \/ \E c \in Client, i \in Item, u \in Account, a \in Owner :
          \/ Template(c, i, u, a) \/ Contact(c, i, u, a) \/ Label(c, i, u, a)
          \/ Rule(c, i, u, a) \/ Webhook(c, i, u, a)
    \/ \E c \in Client :
          /\ request[c] # NoRequest
          /\ \/ Answer(c)
             \/ WriteTemplate(c) \/ WriteContact(c) \/ WriteLabel(c)
             \/ WriteRule(c) \/ WriteWebhook(c) \/ WriteGroup(c)
    \/ \E e \in Email, L \in SUBSET Item : SetEmailLabels(e, L)
    \/ \E i \in Item, A \in SUBSET Account : SetGroupAccounts(i, A)

Spec == Init /\ [][Next]_organizer

------------------------------------------------------------------------------
(* The state has the declared shape.                                       *)
TypeOK ==
    /\ kind \in [Item -> Kinds]
    /\ state \in [Item -> {"new", "live", "gone"}]
    /\ account \in [Item -> Owner \cup {NoAccount}]
    /\ writer \in [Item -> Account \cup {NoAccount}]
    /\ labelled \in [Email -> SUBSET Item] /\ members \in [Item -> SUBSET Account]
    /\ \A c \in Client : request[c].pc \in
          {"idle", "create", "update", "delete", "reread", "answer"}

(* What the lists of a user's account show was last written by that user:  *)
(* a request that passed its check for one account never writes a row of   *)
(* another, whatever the other requests do between its check and its       *)
(* write.                                                                  *)
WrittenByOwner ==
    \A user \in Account, a \in Owner :
        \A i \in Listed(user, a) : Check(writer[i], a)

(* The labels of an email are those one request asked for, less the ones   *)
(* deleted since, and the accounts of a group one request's, or none:      *)
(* never a mixture of two requests.                                        *)
OneRequestsSet ==
    /\ \A e \in Email : \E L \in asked[e] : GetEmailLabels(e) = {i \in L : Live(i)}
    /\ \A i \in Item : members[i] \in asked[i]

=============================================================================
