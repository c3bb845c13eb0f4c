-------------------------- MODULE OrganizerProofs --------------------------
(***************************************************************************)
(* Theorems about Organizer, for every set of clients, accounts, items and *)
(* emails.                                                                 *)
(***************************************************************************)
EXTENDS Organizer, TLAPS

Request ==
    [pc : {"idle", "create", "update", "delete", "reread", "answer"},
     item : Item \cup {NoItem}, user : Account \cup {NoAccount},
     account : Owner \cup {NoAccount}]

Shape ==
    /\ TypeOK
    /\ request \in [Client -> Request]
    /\ asked \in [Email \cup Item -> SUBSET ((SUBSET Item) \cup (SUBSET Account))]

(* A row that was ever made has an account that its last writer may use.   *)
RowsChecked ==
    \A i \in Item :
        state[i] # "new" =>
            /\ account[i] \in Owner
            /\ kind[i] # "group" => writer[i] \in Account /\ Check(writer[i], account[i])

(* What the check of a request found still holds when it writes: the id    *)
(* of a row to be made belongs to that request alone, and the account of   *)
(* a row never changes.                                                    *)
RequestChecked(c) ==
    LET r == request[c]
    IN r.pc \in {"create", "update", "delete"} =>
          /\ r.item \in Item /\ r.user \in Account /\ r.account \in Owner
          /\ kind[r.item] # "group" => Check(r.user, r.account)
          /\ IF r.pc = "create"
             THEN /\ state[r.item] = "new"
                  /\ \A d \in Client : request[d].item = r.item => d = c
             ELSE state[r.item] # "new" /\ account[r.item] = r.account

RequestsChecked ==
    \A c \in Client : RequestChecked(c) /\ (request[c].pc # "idle" => request[c].item \in Item)

(* Nobody asks for labels that are not there yet, and a deleted label      *)
(* shows nowhere.                                                          *)
AskedLabels ==
    \A e \in Email :
        /\ \A i \in labelled[e] : state[i] # "new"
        /\ \A L \in asked[e] : \A i \in L : i \in Item /\ state[i] # "new"
        /\ \E L \in asked[e] : GetEmailLabels(e) = {i \in L : Live(i)}

AskedMembers ==
    \A i \in Item : {} \in asked[i] /\ members[i] \in asked[i]

Inv == Shape /\ RowsChecked /\ RequestsChecked /\ AskedLabels /\ AskedMembers

LEMMA InvInit == Init => Inv
<1> SUFFICES ASSUME Init PROVE Inv
  OBVIOUS
<1> USE OrganizerAssumption
<1>1. Shape
  BY DEF Init, Shape, TypeOK, Request, NoRequest
<1>2. RowsChecked
  BY DEF Init, RowsChecked
<1>3. RequestsChecked
  BY DEF Init, RequestsChecked, RequestChecked, NoRequest
<1>4. AskedLabels
  BY DEF Init, AskedLabels, GetEmailLabels
<1>5. AskedMembers
  BY DEF Init, AskedMembers
<1> QED BY <1>1, <1>2, <1>3, <1>4, <1>5 DEF Inv

(* A step that leaves items, labels and members alone.                     *)
LEMMA ContentsKept ==
    ASSUME Inv, UNCHANGED contents
    PROVE  /\ TypeOK' <=> \A c \in Client : request'[c].pc \in
                 {"idle", "create", "update", "delete", "reread", "answer"}
           /\ RowsChecked' /\ AskedLabels' /\ AskedMembers'
BY DEF Inv, Shape, TypeOK, contents, RowsChecked, AskedLabels, GetEmailLabels, Live, AskedMembers

LEMMA RequestPcs == request \in [Client -> Request] =>
    \A c \in Client : request[c].pc \in
        {"idle", "create", "update", "delete", "reread", "answer"}
BY DEF Request

LEMMA BeginInv ==
    ASSUME Inv, NEW c \in Client, NEW k \in Kinds, NEW op \in {"create", "update", "delete"},
           NEW i \in Item, NEW u \in Account, NEW a \in Owner, Begin(c, k, op, i, u, a)
    PROVE  Inv'
<1> USE OrganizerAssumption
<1> DEFINE r == [pc |-> op, item |-> i, user |-> u, account |-> a]
<1>1. /\ request' = [request EXCEPT ![c] = r] /\ UNCHANGED contents /\ kind[i] = k
      /\ request \in [Client -> Request] /\ r \in Request /\ request[c] = NoRequest
  BY DEF Begin, Inv, Shape, Request
<1>2. Shape'
  <2>1. request' \in [Client -> Request]
    BY <1>1
  <2>2. \A d \in Client : request'[d].pc \in
           {"idle", "create", "update", "delete", "reread", "answer"}
    BY <2>1 DEF Request
  <2> QED BY <1>1, <2>1, <2>2, ContentsKept DEF Inv, Shape, contents
<1>3. RequestsChecked'
  <2> SUFFICES ASSUME NEW d \in Client
               PROVE  RequestChecked(d)' /\ (request'[d].pc # "idle" => request'[d].item \in Item)
    BY DEF RequestsChecked
  <2>1. CASE d = c
    <3>1. request'[d] = r /\ \A e \in Client : e # c => request'[e] = request[e]
      BY <1>1, <2>1
    <3>2. op = "create" => state[i] = "new" /\ \A e \in Client : request[e].item # i
      BY DEF Begin
    <3>3. op # "create" => state[i] # "new" /\ account[i] = a
      BY DEF Begin, Live
    <3>4. kind[i] # "group" => Check(u, a)
      BY DEF Begin
    <3> QED BY <1>1, <2>1, <3>1, <3>2, <3>3, <3>4 DEF RequestChecked, contents
  <2>2. CASE d # c
    <3>1. request'[d] = request[d] /\ request'[c] = r
          /\ \A e \in Client : e # c => request'[e] = request[e]
      BY <1>1, <2>2
    <3>2. request[d].pc = "create" => request[d].item # i
      BY DEF Begin, Inv, RequestsChecked, RequestChecked, Live
    <3> QED BY <1>1, <2>2, <3>1, <3>2 DEF Inv, RequestsChecked, RequestChecked, contents
  <2> QED BY <2>1, <2>2
<1> QED BY <1>1, <1>2, <1>3, ContentsKept DEF Inv

(* A request that ends.                                                    *)
LEMMA EndedChecked ==
    ASSUME Inv, NEW c \in Client, request' = [request EXCEPT ![c] = NoRequest]
    PROVE  /\ request' \in [Client -> Request]
           /\ request'[c] = NoRequest /\ \A d \in Client : d # c => request'[d] = request[d]
BY OrganizerAssumption DEF Inv, Shape, Request, NoRequest

LEMMA AnswerInv ==
    ASSUME Inv, NEW c \in Client, Answer(c)
    PROVE  Inv'
<1> USE OrganizerAssumption
<1>1. request' = [request EXCEPT ![c] = NoRequest] /\ UNCHANGED contents
  BY DEF Answer
<1>2. Shape'
  <2>1. \A d \in Client : request'[d].pc \in
           {"idle", "create", "update", "delete", "reread", "answer"}
    BY <1>1, EndedChecked DEF Request
  <2> QED BY <1>1, <2>1, EndedChecked, ContentsKept DEF Inv, Shape, contents
<1>3. RequestsChecked'
  <2> SUFFICES ASSUME NEW d \in Client
               PROVE  RequestChecked(d)' /\ (request'[d].pc # "idle" => request'[d].item \in Item)
    BY DEF RequestsChecked
  <2>1. CASE d = c
    BY <1>1, <2>1, EndedChecked DEF RequestChecked, NoRequest
  <2>2. CASE d # c
    BY <1>1, <2>2, EndedChecked DEF Inv, RequestsChecked, RequestChecked, NoRequest, contents
  <2> QED BY <2>1, <2>2
<1> QED BY <1>1, <1>2, <1>3, ContentsKept DEF Inv

LEMMA InsertInv ==
    ASSUME Inv, NEW c \in Client, Insert(c)
    PROVE  Inv'
<1> USE OrganizerAssumption
<1> DEFINE r == request[c]
           i == r.item
<1>1. /\ r.pc = "create" /\ request' = [request EXCEPT ![c] = NoRequest]
      /\ state' = [state EXCEPT ![i] = "live"] /\ account' = [account EXCEPT ![i] = r.account]
      /\ writer' = [writer EXCEPT ![i] = r.user]
      /\ UNCHANGED <<kind, labelled, members, asked>>
  BY DEF Insert
<1>2. /\ i \in Item /\ r.user \in Account /\ r.account \in Owner /\ state[i] = "new"
      /\ kind[i] # "group" => Check(r.user, r.account)
      /\ \A d \in Client : request[d].item = i => d = c
  BY <1>1 DEF Inv, RequestsChecked, RequestChecked
<1> HIDE DEF r, i
<1>3. /\ state'[i] = "live" /\ account'[i] = r.account /\ writer'[i] = r.user
      /\ \A j \in Item : j # i => /\ state'[j] = state[j] /\ account'[j] = account[j]
                                  /\ writer'[j] = writer[j]
  BY <1>1, <1>2 DEF Inv, Shape, TypeOK
<1>4. Shape'
  <2>1. \A d \in Client : request'[d].pc \in
           {"idle", "create", "update", "delete", "reread", "answer"}
    BY <1>1, EndedChecked DEF Request
  <2> QED BY <1>1, <1>2, <2>1, EndedChecked DEF Inv, Shape, TypeOK
<1>5. RowsChecked'
  BY <1>1, <1>2, <1>3 DEF Inv, RowsChecked
<1>6. RequestsChecked'
  <2> SUFFICES ASSUME NEW d \in Client
               PROVE  RequestChecked(d)' /\ (request'[d].pc # "idle" => request'[d].item \in Item)
    BY DEF RequestsChecked
  <2>1. CASE d = c
    BY <1>1, <2>1, EndedChecked DEF RequestChecked, NoRequest
  <2>2. CASE d # c
    <3>1. request'[d] = request[d] /\ request[d].item # i
      BY <1>1, <1>2, <2>2, EndedChecked
    <3>2. \A e \in Client : request'[e].item = request[d].item /\ request[d].item \in Item
                               => request[e].item = request[d].item
      BY <1>1, EndedChecked DEF NoRequest
    <3> QED BY <1>1, <1>3, <3>1, <3>2 DEF Inv, RequestsChecked, RequestChecked
  <2> QED BY <2>1, <2>2
<1>7. AskedLabels'
  <2>1. \A L \in SUBSET Item : (\A j \in L : state[j] # "new") =>
           {j \in L : Live(j)}' = {j \in L : Live(j)}
    BY <1>2, <1>3 DEF Live
  <2>2. \A e \in Email : GetEmailLabels(e)' = GetEmailLabels(e)
    BY <1>1, <1>2, <1>3 DEF Inv, AskedLabels, GetEmailLabels, Live, Shape, TypeOK
  <2> QED BY <1>1, <1>2, <1>3, <2>1, <2>2 DEF Inv, AskedLabels, Shape, TypeOK, Live
<1>8. AskedMembers'
  BY <1>1 DEF Inv, AskedMembers
<1> QED BY <1>4, <1>5, <1>6, <1>7, <1>8 DEF Inv

LEMMA UpdateInv ==
    ASSUME Inv, NEW c \in Client, Update(c)
    PROVE  Inv'
<1> USE OrganizerAssumption
<1> DEFINE r == request[c]
           i == r.item
           pc == IF kind[i] = "label" THEN "reread" ELSE "answer"
<1>1. /\ r.pc = "update" /\ request' = [request EXCEPT ![c].pc = pc]
      /\ account' = [account EXCEPT ![i] = account[i]]
      /\ writer' = [writer EXCEPT ![i] = IF Live(i) THEN r.user ELSE writer[i]]
      /\ UNCHANGED <<kind, state, labelled, members, asked>>
  BY DEF Update, AccountAfter
<1>2. /\ i \in Item /\ r.user \in Account /\ r.account \in Owner /\ state[i] # "new"
      /\ kind[i] # "group" => Check(r.user, r.account)
      /\ account[i] = r.account
  BY <1>1 DEF Inv, RequestsChecked, RequestChecked
<1>3. /\ request' \in [Client -> Request] /\ request'[c].pc = pc /\ request'[c].item = i
      /\ \A d \in Client : d # c => request'[d] = request[d]
  BY <1>1 DEF Inv, Shape, Request
<1>4. pc \in {"reread", "answer"}
  OBVIOUS
<1> HIDE DEF r, i, pc
<1>5. account' = account
  BY <1>1, <1>2 DEF Inv, Shape, TypeOK
<1>6. Shape'
  <2>1. \A d \in Client : request'[d].pc \in
           {"idle", "create", "update", "delete", "reread", "answer"}
    BY <1>3 DEF Request
  <2> QED BY <1>1, <1>2, <1>3, <1>5, <2>1 DEF Inv, Shape, TypeOK
<1>7. RowsChecked'
  BY <1>1, <1>2, <1>5 DEF Inv, RowsChecked, Shape, TypeOK
<1>8. RequestsChecked'
  BY <1>1, <1>2, <1>3, <1>4, <1>5 DEF Inv, RequestsChecked, RequestChecked
<1>9. AskedLabels' /\ AskedMembers'
  BY <1>1 DEF Inv, AskedLabels, AskedMembers, GetEmailLabels, Live
<1> QED BY <1>6, <1>7, <1>8, <1>9 DEF Inv

LEMMA DeleteInv ==
    ASSUME Inv, NEW c \in Client, Delete(c)
    PROVE  Inv'
<1> USE OrganizerAssumption
<1> DEFINE i == request[c].item
<1>1. /\ request[c].pc = "delete" /\ request' = [request EXCEPT ![c].pc = "answer"]
      /\ state' = [state EXCEPT ![i] = "gone"]
      /\ \/ /\ labelled' = [e \in Email |-> labelled[e] \ {i}]
            /\ members' = [members EXCEPT ![i] = {}]
         \/ UNCHANGED <<labelled, members>>
      /\ UNCHANGED <<kind, account, writer, asked>>
  BY DEF Delete
<1>2. i \in Item /\ state[i] # "new"
  BY <1>1 DEF Inv, RequestsChecked, RequestChecked
<1>3. /\ request' \in [Client -> Request] /\ request'[c].pc = "answer" /\ request'[c].item = i
      /\ \A d \in Client : d # c => request'[d] = request[d]
  BY <1>1 DEF Inv, Shape, Request
<1> HIDE DEF i
<1>4. state'[i] = "gone" /\ \A j \in Item : j # i => state'[j] = state[j]
  BY <1>1, <1>2 DEF Inv, Shape, TypeOK
<1>5. Shape'
  <2>1. \A d \in Client : request'[d].pc \in
           {"idle", "create", "update", "delete", "reread", "answer"}
    BY <1>3 DEF Request
  <2>2. labelled' \in [Email -> SUBSET Item] /\ members' \in [Item -> SUBSET Account]
    BY <1>1 DEF Inv, Shape, TypeOK
  <2>3. state' \in [Item -> {"new", "live", "gone"}]
    BY <1>1 DEF Inv, Shape, TypeOK
  <2> QED BY <1>1, <1>3, <2>1, <2>2, <2>3 DEF Inv, Shape, TypeOK
<1>6. RowsChecked'
  BY <1>1, <1>2, <1>4 DEF Inv, RowsChecked
<1>7. RequestsChecked'
  BY <1>1, <1>2, <1>3, <1>4 DEF Inv, RequestsChecked, RequestChecked
<1>8. AskedLabels'
  <2> SUFFICES ASSUME NEW e \in Email
               PROVE  /\ \A j \in labelled'[e] : state'[j] # "new"
                      /\ \A L \in asked'[e] : \A j \in L : j \in Item /\ state'[j] # "new"
                      /\ \E L \in asked'[e] : GetEmailLabels(e)' = {j \in L : Live(j)'}
    BY DEF AskedLabels
  <2>2. labelled[e] \subseteq Item /\ labelled'[e] \subseteq labelled[e]
        /\ labelled[e] \ {i} \subseteq labelled'[e]
    BY <1>1 DEF Inv, Shape, TypeOK
  <2>3. PICK L \in asked[e] : GetEmailLabels(e) = {j \in L : Live(j)}
    BY DEF Inv, AskedLabels
  <2>4. L \subseteq Item
    BY <2>3 DEF Inv, AskedLabels
  <2>5. GetEmailLabels(e)' = GetEmailLabels(e) \ {i}
    BY <1>4, <2>2 DEF GetEmailLabels, Live
  <2>6. {j \in L : Live(j)'} = {j \in L : Live(j)} \ {i}
    BY <1>4, <2>4 DEF Live
  <2>7. \A j \in labelled'[e] : state'[j] # "new"
    BY <1>4, <2>2 DEF Inv, AskedLabels
  <2>8. \A K \in asked'[e] : \A j \in K : j \in Item /\ state'[j] # "new"
    BY <1>1, <1>4 DEF Inv, AskedLabels
  <2> QED BY <1>1, <2>3, <2>5, <2>6, <2>7, <2>8
<1>9. AskedMembers'
  <2>1. \A j \in Item : members'[j] \in {members[j], {}}
    BY <1>1 DEF Inv, Shape, TypeOK
  <2> QED BY <1>1, <2>1 DEF Inv, AskedMembers
<1> QED BY <1>5, <1>6, <1>7, <1>8, <1>9 DEF Inv

LEMMA SetEmailLabelsInv ==
    ASSUME Inv, NEW e \in Email, NEW L \in SUBSET Item, SetEmailLabels(e, L)
    PROVE  Inv'
<1> USE OrganizerAssumption
<1>1. /\ \A i \in L : state[i] # "new"
      /\ labelled' = [labelled EXCEPT ![e] = L] /\ asked' = [asked EXCEPT ![e] = asked[e] \cup {L}]
      /\ UNCHANGED <<kind, state, account, writer, members, request>>
  BY DEF SetEmailLabels, Replaced
<1>2. e \in Email \cup Item /\ e \notin Item
  OBVIOUS
<1>3. Shape'
  BY <1>1 DEF Inv, Shape, TypeOK
<1>4. RowsChecked' /\ RequestsChecked'
  BY <1>1 DEF Inv, RowsChecked, RequestsChecked, RequestChecked
<1>5. AskedLabels'
  <2>1. /\ labelled'[e] = L /\ L \in asked'[e]
        /\ \A f \in Email : f # e => labelled'[f] = labelled[f]
        /\ \A f \in Email : asked'[f] \subseteq asked[f] \cup {L} /\ asked[f] \subseteq asked'[f]
    BY <1>1, <1>2 DEF Inv, Shape, TypeOK
  <2>2. \A i : Live(i)' = Live(i)
    BY <1>1 DEF Live
  <2> SUFFICES ASSUME NEW f \in Email
               PROVE  /\ \A i \in labelled'[f] : state'[i] # "new"
                      /\ \A K \in asked'[f] : \A i \in K : i \in Item /\ state'[i] # "new"
                      /\ \E K \in asked'[f] : GetEmailLabels(f)' = {i \in K : Live(i)'}
    BY DEF AskedLabels
  <2>3. \A K \in asked'[f] : \A i \in K : i \in Item /\ state'[i] # "new"
    BY <1>1, <2>1 DEF Inv, AskedLabels
  <2>4. CASE f = e
    <3>1. GetEmailLabels(e)' = {i \in L : Live(i)'}
      BY <2>1 DEF GetEmailLabels
    <3> QED BY <1>1, <2>1, <2>3, <2>4, <3>1
  <2>5. CASE f # e
    <3>1. GetEmailLabels(f)' = GetEmailLabels(f)
      BY <2>1, <2>2, <2>5 DEF GetEmailLabels
    <3>2. PICK K \in asked[f] : GetEmailLabels(f) = {i \in K : Live(i)}
      BY DEF Inv, AskedLabels
    <3>3. GetEmailLabels(f)' = {i \in K : Live(i)'}
      BY <2>2, <3>1, <3>2
    <3> QED BY <1>1, <2>1, <2>3, <2>5, <3>2, <3>3 DEF Inv, AskedLabels
  <2> QED BY <2>4, <2>5
<1>6. AskedMembers'
  BY <1>1, <1>2 DEF Inv, Shape, AskedMembers
<1> QED BY <1>3, <1>4, <1>5, <1>6 DEF Inv

LEMMA SetGroupAccountsInv ==
    ASSUME Inv, NEW i \in Item, NEW A \in SUBSET Account, SetGroupAccounts(i, A)
    PROVE  Inv'
<1> USE OrganizerAssumption
<1>1. /\ members' = [members EXCEPT ![i] = A] /\ asked' = [asked EXCEPT ![i] = asked[i] \cup {A}]
      /\ UNCHANGED <<kind, state, account, writer, labelled, request>>
  BY DEF SetGroupAccounts, Replaced
<1>2. i \in Email \cup Item /\ i \notin Email
  OBVIOUS
<1>3. Shape'
  <2> DEFINE Sets == (SUBSET Item) \cup (SUBSET Account)
  <2>1. asked' \in [Email \cup Item -> SUBSET Sets]
    <3>1. asked \in [Email \cup Item -> SUBSET Sets]
      BY DEF Inv, Shape
    <3>2. A \in Sets
      OBVIOUS
    <3> HIDE DEF Sets
    <3>3. asked[i] \cup {A} \in SUBSET Sets
      BY <1>2, <3>1, <3>2
    <3> QED BY <1>1, <1>2, <3>1, <3>3
  <2>2. members' \in [Item -> SUBSET Account]
    BY <1>1 DEF Inv, Shape, TypeOK
  <2> QED BY <1>1, <2>1, <2>2 DEF Inv, Shape, TypeOK
<1>4. RowsChecked' /\ RequestsChecked'
  BY <1>1 DEF Inv, RowsChecked, RequestsChecked, RequestChecked
<1>5. AskedLabels'
  BY <1>1, <1>2 DEF Inv, Shape, AskedLabels, GetEmailLabels, Live
<1>6. AskedMembers'
  BY <1>1, <1>2 DEF Inv, Shape, TypeOK, AskedMembers
<1> QED BY <1>3, <1>4, <1>5, <1>6 DEF Inv

LEMMA NextInv == Inv /\ [Next]_organizer => Inv'
<1> SUFFICES ASSUME Inv, [Next]_organizer PROVE Inv'
  OBVIOUS
<1>1. ASSUME NEW c \in Client, NEW i \in Item, NEW u \in Account, Group(c, i, u)
      PROVE  Inv'
  BY <1>1, BeginInv DEF Group, Owner, Kinds
<1>2. ASSUME NEW c \in Client, NEW i \in Item, NEW u \in Account, NEW a \in Owner,
             \/ Template(c, i, u, a) \/ Contact(c, i, u, a) \/ Label(c, i, u, a)
             \/ Rule(c, i, u, a) \/ Webhook(c, i, u, a)
      PROVE  Inv'
  BY <1>2, BeginInv DEF Template, Contact, Label, Rule, Webhook, Kinds
<1>3. ASSUME NEW c \in Client,
             \/ Answer(c)
             \/ WriteTemplate(c) \/ WriteContact(c) \/ WriteLabel(c)
             \/ WriteRule(c) \/ WriteWebhook(c) \/ WriteGroup(c)
      PROVE  Inv'
  BY <1>3, AnswerInv, InsertInv, UpdateInv, DeleteInv
     DEF WriteTemplate, WriteContact, WriteLabel, WriteRule, WriteWebhook, WriteGroup, Reread
<1>4. CASE \E e \in Email, L \in SUBSET Item : SetEmailLabels(e, L)
  BY <1>4, SetEmailLabelsInv
<1>5. CASE \E i \in Item, A \in SUBSET Account : SetGroupAccounts(i, A)
  BY <1>5, SetGroupAccountsInv
<1>6. CASE UNCHANGED organizer
  BY <1>6 DEF organizer, Inv, Shape, TypeOK, RowsChecked, RequestsChecked, RequestChecked,
              AskedLabels, GetEmailLabels, Live, AskedMembers
<1> QED BY <1>1, <1>2, <1>3, <1>4, <1>5, <1>6 DEF Next

LEMMA InvOwned == Inv => WrittenByOwner
<1> SUFFICES ASSUME Inv, NEW user \in Account, NEW a \in Owner, NEW i \in Listed(user, a)
             PROVE  Check(writer[i], a)
  BY DEF WrittenByOwner
<1>1. a # NoAccount
  BY OrganizerAssumption DEF Owner
<1>2. i \in Item /\ Live(i) /\ kind[i] # "group" /\ account[i] = a
  BY <1>1 DEF Listed, GetTemplates, GetContacts, GetLabels, GetRules, GetWebhooks, ListOf
<1> QED BY <1>2 DEF Inv, RowsChecked, Live

LEMMA InvOneSet == Inv => OneRequestsSet
BY DEF Inv, AskedLabels, AskedMembers, OneRequestsSet

(* Items, requests, labels and groups have the declared shape.             *)
THEOREM OrganizerTypes == Spec => []TypeOK
<1>1. Inv => TypeOK
  BY DEF Inv, Shape
<1> QED BY <1>1, InvInit, NextInv, PTL DEF Spec

(* The handlers check the account of a row and write by id in a later      *)
(* statement; even so what a list of a user's account shows was last       *)
(* written by a user that may use it, whatever requests interleave.        *)
THEOREM OwnersWrite == Spec => []WrittenByOwner
BY InvInit, NextInv, InvOwned, PTL DEF Spec

(* SetEmailLabels and SetProjectGroupAccounts replace a set in one         *)
(* transaction: an email has the labels of one request, less those deleted *)
(* since, a group the accounts of one request.                             *)
THEOREM SetsOfOneRequest == Spec => []OneRequestsSet
BY InvInit, NextInv, InvOneSet, PTL DEF Spec

=============================================================================
