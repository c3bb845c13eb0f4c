--------------------------- MODULE RequestsProofs ---------------------------
(***************************************************************************)
(* Theorems about requests, ingests and the files and rows they share, for *)
(* every value of the constants; those about the items that users keep are *)
(* in OrganizerProofs.                                                     *)
(***************************************************************************)
EXTENDS MCRequests, OrganizerProofs, FiniteSetTheorems, FunctionTheorems

-----------------------------------------------------------------------------
(* Tickets.                                                                *)

LEMMA TeamBounds ==
    Nobody \notin User /\ MaxFaults \in Nat
BY RequestsAssumption DEF RequestsAssumption, Team!TriageAssumption

Ticket == [status : Team!Status, responded : BOOLEAN, resolved : BOOLEAN,
           assigned : User \cup {Nobody}, read : BOOLEAN]
Handling == [pc : {"idle", "stamp", "assign", "answer"}, email : Email \cup {Nobody},
             status : Team!Status, user : User \cup {Nobody},
             responded : BOOLEAN, resolved : BOOLEAN]

TeamShape ==
    /\ tickets \in [Email -> Ticket]
    /\ stored \subseteq Email /\ users \subseteq User /\ unstamped \subseteq Email
    /\ handling \in [Client -> Handling]
    /\ \A c \in Client : handling[c].pc # "idle" => handling[c].email \in Email
    /\ mishaps \in 0 .. MaxFaults

(* A time the request has found, or has stamped, is in the row: times are  *)
(* never taken back, so that the status may be written later.              *)
StampsFirst ==
    \A c \in Client : LET r == handling[c] IN
        r.pc = "stamp" /\ r.email \in stored \ unstamped =>
            /\ r.status # "open" /\ r.responded => tickets[r.email].responded
            /\ r.status = "resolved" /\ r.resolved => tickets[r.email].resolved

StatusTimes ==
    \A e \in stored \ unstamped :
        /\ tickets[e].status # "open" => tickets[e].responded
        /\ tickets[e].status = "resolved" => tickets[e].resolved

TeamInv == TeamShape /\ StampsFirst /\ StatusTimes

LEMMA TeamInit == Team!Init => TeamInv
<1> SUFFICES ASSUME Team!Init PROVE TeamInv
  OBVIOUS
<1>1. TeamShape
  BY TeamBounds DEF Team!Init, TeamShape, Team!NoRequest, Ticket, Handling, Team!Status
<1>2. StampsFirst /\ StatusTimes
  BY <1>1 DEF Team!Init, Team!NoRequest, StampsFirst, StatusTimes, TeamShape
<1> QED BY <1>1, <1>2 DEF TeamInv

(* The parts of a request that the steps below rely on.                    *)
LEMMA HandlingFields ==
    ASSUME TeamShape, NEW c \in Client
    PROVE  /\ handling[c] \in Handling
           /\ handling[c].pc \in {"idle", "stamp", "assign", "answer"}
           /\ handling[c].pc # "idle" => handling[c].email \in Email
           /\ handling[c].status \in Team!Status
           /\ handling[c].user \in User \cup {Nobody}
BY DEF TeamShape, Handling

(* A statement that keeps the shape of the ticket keeps that of the table. *)
LEMMA WithShape ==
    ASSUME TeamShape, NEW e \in Email, NEW t \in Ticket
    PROVE  /\ Team!With(e, t) \in [Email -> Ticket]
           /\ e \in stored => Team!With(e, t)[e] = t
           /\ \A x \in Email : x # e => Team!With(e, t)[x] = tickets[x]
           /\ e \notin stored => Team!With(e, t) = tickets
BY DEF TeamShape, Team!With

(* A ticket with one field set anew is a ticket.                           *)
LEMMA TicketFields ==
    ASSUME TeamShape, NEW e \in Email
    PROVE  /\ tickets[e] \in Ticket
           /\ [tickets[e] EXCEPT !.responded = TRUE] \in Ticket
           /\ [tickets[e] EXCEPT !.resolved = TRUE] \in Ticket
           /\ [tickets[e] EXCEPT !.read = TRUE] \in Ticket
           /\ \A s \in Team!Status : [tickets[e] EXCEPT !.status = s] \in Ticket
           /\ \A u \in User \cup {Nobody} : [tickets[e] EXCEPT !.assigned = u] \in Ticket
<1>1. tickets[e] \in Ticket
  BY DEF TeamShape
<1> QED BY <1>1 DEF Ticket

(* The request of a client ends, or begins something other than stamps.    *)
LEMMA TeamGo ==
    ASSUME TeamInv, NEW c \in Client, NEW r \in Handling, Team!Go(c, r),
           r.pc # "idle" => r.email \in Email,
           tickets' = tickets, stored' = stored, users' = users, unstamped' = unstamped,
           mishaps' = mishaps,
           r.pc = "stamp" /\ r.email \in stored \ unstamped =>
               /\ r.status # "open" /\ r.responded => tickets[r.email].responded
               /\ r.status = "resolved" /\ r.resolved => tickets[r.email].resolved
    PROVE  TeamInv'
<1>1. /\ handling' \in [Client -> Handling]
      /\ handling'[c] = r
      /\ \A d \in Client : d # c => handling'[d] = handling[d]
  BY DEF TeamInv, TeamShape, Team!Go
<1>2. TeamShape'
  BY <1>1 DEF TeamInv, TeamShape
<1>3. StampsFirst'
  <2> SUFFICES ASSUME NEW d \in Client, handling'[d].pc = "stamp",
                      handling'[d].email \in stored \ unstamped
               PROVE  /\ handling'[d].status # "open" /\ handling'[d].responded =>
                             tickets[handling'[d].email].responded
                      /\ handling'[d].status = "resolved" /\ handling'[d].resolved =>
                             tickets[handling'[d].email].resolved
    BY DEF StampsFirst
  <2>1. CASE d = c
    BY <1>1, <2>1
  <2>2. CASE d # c
    BY <1>1, <2>2 DEF TeamInv, StampsFirst
  <2> QED BY <2>1, <2>2
<1>4. StatusTimes'
  BY DEF TeamInv, StatusTimes
<1> QED BY <1>2, <1>3, <1>4 DEF TeamInv

LEMMA TeamEnd ==
    ASSUME TeamInv, NEW c \in Client, Team!End(c)
    PROVE  TeamInv'
<1>1. Team!NoRequest \in Handling /\ Team!NoRequest.pc = "idle"
  BY DEF Team!NoRequest, Handling, Team!Status
<1> QED BY <1>1, TeamGo DEF Team!End

LEMMA TeamSetEmailStatus ==
    ASSUME TeamInv, NEW c \in Client, NEW e \in Email, NEW s \in Team!Status,
           Team!SetEmailStatus(c, e, s)
    PROVE  TeamInv'
<1> DEFINE r == [Team!NoRequest EXCEPT !.pc = "stamp", !.email = e, !.status = s,
                     !.responded = s = "open" \/ tickets[e].responded,
                     !.resolved = s # "resolved" \/ tickets[e].resolved]
<1>1. tickets[e].responded \in BOOLEAN /\ tickets[e].resolved \in BOOLEAN
  BY DEF TeamInv, TeamShape, Ticket
<1>2. /\ r.pc = "stamp" /\ r.email = e /\ r.status = s
      /\ r.responded = (s = "open" \/ tickets[e].responded)
      /\ r.resolved = (s # "resolved" \/ tickets[e].resolved)
  BY DEF Team!NoRequest
<1>3. r \in Handling
  BY <1>1 DEF Team!NoRequest, Handling
<1>4. Team!Go(c, r) /\ tickets' = tickets /\ stored' = stored /\ users' = users
      /\ unstamped' = unstamped /\ mishaps' = mishaps
  BY DEF Team!SetEmailStatus
<1> HIDE DEF r
<1> QED BY <1>2, <1>3, <1>4, TeamGo

LEMMA TeamAssignEmail ==
    ASSUME TeamInv, NEW c \in Client, NEW e \in Email, NEW u \in User \cup {Nobody},
           Team!AssignEmail(c, e, u)
    PROVE  TeamInv'
<1> DEFINE r == [Team!NoRequest EXCEPT !.pc = "assign", !.email = e, !.user = u]
<1>1. r.pc = "assign" /\ r.email = e
  BY DEF Team!NoRequest
<1>2. r \in Handling
  BY DEF Team!NoRequest, Handling, Team!Status
<1>3. Team!Go(c, r) /\ tickets' = tickets /\ stored' = stored /\ users' = users
      /\ unstamped' = unstamped /\ mishaps' = mishaps
  BY DEF Team!AssignEmail
<1> HIDE DEF r
<1> QED BY <1>1, <1>2, <1>3, TeamGo

(* A ticket of which no time is taken back, and the status of which has    *)
(* its times, leaves the others and the requests about them as they are.   *)
LEMMA TeamWrites ==
    ASSUME TeamInv, NEW c \in Client, NEW e \in Email, NEW t \in Ticket,
           tickets' = Team!With(e, t),
           tickets[e].responded => t.responded, tickets[e].resolved => t.resolved,
           e \in stored \ unstamped =>
               /\ t.status # "open" => t.responded
               /\ t.status = "resolved" => t.resolved,
           stored' = stored, unstamped' = unstamped
    PROVE  /\ tickets' \in [Email -> Ticket]
           /\ \A x \in Email : /\ tickets[x].responded => tickets'[x].responded
                               /\ tickets[x].resolved => tickets'[x].resolved
           /\ StatusTimes'
<1>1. TeamShape
  BY DEF TeamInv
<1>2. /\ tickets' \in [Email -> Ticket]
      /\ e \in stored => tickets'[e] = t
      /\ \A x \in Email : x # e => tickets'[x] = tickets[x]
      /\ e \notin stored => tickets' = tickets
  BY <1>1, WithShape
<1>3. \A x \in Email : /\ tickets[x].responded => tickets'[x].responded
                       /\ tickets[x].resolved => tickets'[x].resolved
  BY <1>2
<1>4. StatusTimes'
  <2> SUFFICES ASSUME NEW x \in stored \ unstamped
               PROVE  /\ tickets'[x].status # "open" => tickets'[x].responded
                      /\ tickets'[x].status = "resolved" => tickets'[x].resolved
    BY DEF StatusTimes
  <2>1. x \in Email
    BY <1>1 DEF TeamShape
  <2>2. CASE x = e
    BY <1>2, <2>2
  <2>3. CASE x # e
    BY <1>2, <2>1, <2>3 DEF TeamInv, StatusTimes
  <2> QED BY <2>2, <2>3
<1> QED BY <1>2, <1>3, <1>4

(* Tickets of which no time is taken back: what requests have found holds. *)
LEMMA TeamGrows ==
    ASSUME TeamInv, NEW c \in Client, NEW r \in Handling, Team!Go(c, r),
           r.pc # "idle" => r.email \in Email,
           tickets' \in [Email -> Ticket],
           \A x \in Email : /\ tickets[x].responded => tickets'[x].responded
                            /\ tickets[x].resolved => tickets'[x].resolved,
           StatusTimes',
           stored' = stored, users' = users, unstamped' \subseteq Email,
           unstamped \subseteq unstamped', mishaps' \in 0 .. MaxFaults,
           r.pc = "stamp" /\ r.email \in stored \ unstamped' =>
               /\ r.status # "open" /\ r.responded => tickets'[r.email].responded
               /\ r.status = "resolved" /\ r.resolved => tickets'[r.email].resolved
    PROVE  TeamInv'
<1>1. /\ handling' \in [Client -> Handling]
      /\ handling'[c] = r
      /\ \A d \in Client : d # c => handling'[d] = handling[d]
  BY DEF TeamInv, TeamShape, Team!Go
<1>2. TeamShape'
  BY <1>1 DEF TeamInv, TeamShape
<1>3. StampsFirst'
  <2> SUFFICES ASSUME NEW d \in Client, handling'[d].pc = "stamp",
                      handling'[d].email \in stored' \ unstamped'
               PROVE  /\ handling'[d].status # "open" /\ handling'[d].responded =>
                             tickets'[handling'[d].email].responded
                      /\ handling'[d].status = "resolved" /\ handling'[d].resolved =>
                             tickets'[handling'[d].email].resolved
    BY DEF StampsFirst
  <2>1. CASE d = c
    BY <1>1, <2>1
  <2>2. CASE d # c
    <3>1. handling'[d] = handling[d] /\ handling[d].email \in stored \ unstamped
      BY <1>1, <2>2
    <3>2. handling[d].email \in Email
      BY <3>1 DEF TeamInv, TeamShape
    <3>3. /\ handling[d].status # "open" /\ handling[d].responded =>
                 tickets[handling[d].email].responded
          /\ handling[d].status = "resolved" /\ handling[d].resolved =>
                 tickets[handling[d].email].resolved
      BY <3>1 DEF TeamInv, StampsFirst
    <3> QED BY <3>1, <3>2, <3>3
  <2> QED BY <2>1, <2>2
<1> QED BY <1>2, <1>3 DEF TeamInv

LEMMA TeamStampResponse ==
    ASSUME TeamInv, NEW c \in Client, Team!StampResponse(c)
    PROVE  TeamInv'
<1> DEFINE q == handling[c]
           r == [q EXCEPT !.responded = TRUE]
           e == q.email
           t == [tickets[e] EXCEPT !.responded = TRUE]
<1>1. TeamShape
  BY DEF TeamInv
<1>2. /\ q \in Handling /\ q.pc = "stamp" /\ e \in Email /\ ~q.responded
      /\ Team!Go(c, r) /\ stored' = stored /\ users' = users
  BY <1>1, HandlingFields DEF Team!StampResponse
<1>3. /\ r \in Handling /\ r.pc = "stamp" /\ r.email = e /\ r.status = q.status
      /\ r.responded = TRUE /\ r.resolved = q.resolved
  BY <1>2 DEF Handling
<1>4. /\ tickets[e] \in Ticket /\ t \in Ticket
      /\ t.responded = TRUE /\ t.resolved = tickets[e].resolved /\ t.status = tickets[e].status
  <2>1. tickets[e] \in Ticket /\ t \in Ticket
    BY <1>1, <1>2, TicketFields
  <2> QED BY <2>1 DEF Ticket
<1>5. e \in stored \ unstamped =>
          /\ tickets[e].status = "resolved" => tickets[e].resolved
          /\ q.status = "resolved" /\ q.resolved => tickets[e].resolved
  BY <1>2 DEF TeamInv, StatusTimes, StampsFirst
<1>6. CASE /\ tickets' = Team!With(e, t)
           /\ unstamped' = unstamped /\ mishaps' = mishaps
  <2>1. /\ tickets' \in [Email -> Ticket]
        /\ \A x \in Email : /\ tickets[x].responded => tickets'[x].responded
                            /\ tickets[x].resolved => tickets'[x].resolved
        /\ StatusTimes'
    <3> HIDE DEF r, q, e, t
    <3> QED BY <1>2, <1>4, <1>5, <1>6, TeamWrites
  <2>2. e \in stored => tickets'[e] = t
    BY <1>1, <1>2, <1>4, <1>6, WithShape
  <2>3. unstamped' \subseteq Email /\ mishaps' \in 0 .. MaxFaults
    BY <1>1, <1>6 DEF TeamShape
  <2> HIDE DEF r, q, e, t
  <2> QED BY <1>2, <1>3, <1>4, <1>5, <1>6, <2>1, <2>2, <2>3, TeamGrows
<1>7. CASE /\ mishaps < MaxFaults /\ mishaps' = mishaps + 1
           /\ unstamped' = unstamped \cup {e} /\ tickets' = tickets
  <2>1. unstamped' \subseteq Email /\ mishaps' \in 0 .. MaxFaults
    BY <1>1, <1>2, <1>7, TeamBounds DEF TeamShape
  <2>2. tickets' \in [Email -> Ticket] /\ StatusTimes'
    BY <1>1, <1>2, <1>7 DEF TeamInv, TeamShape, StatusTimes
  <2> HIDE DEF r, q, e, t
  <2> QED BY <1>2, <1>3, <1>7, <2>1, <2>2, TeamGrows
<1> QED BY <1>6, <1>7 DEF Team!StampResponse

LEMMA TeamStampResolution ==
    ASSUME TeamInv, NEW c \in Client, Team!StampResolution(c)
    PROVE  TeamInv'
<1> DEFINE q == handling[c]
           r == [q EXCEPT !.resolved = TRUE]
           e == q.email
           t == [tickets[e] EXCEPT !.resolved = TRUE]
<1>1. TeamShape
  BY DEF TeamInv
<1>2. /\ q \in Handling /\ q.pc = "stamp" /\ e \in Email /\ q.responded
      /\ Team!Go(c, r) /\ stored' = stored /\ users' = users
  BY <1>1, HandlingFields DEF Team!StampResolution
<1>3. /\ r \in Handling /\ r.pc = "stamp" /\ r.email = e /\ r.status = q.status
      /\ r.resolved = TRUE /\ r.responded = q.responded
  BY <1>2 DEF Handling
<1>4. /\ tickets[e] \in Ticket /\ t \in Ticket
      /\ t.resolved = TRUE /\ t.responded = tickets[e].responded /\ t.status = tickets[e].status
  <2>1. tickets[e] \in Ticket /\ t \in Ticket
    BY <1>1, <1>2, TicketFields
  <2> QED BY <2>1 DEF Ticket
<1>5. e \in stored \ unstamped =>
          /\ tickets[e].status # "open" => tickets[e].responded
          /\ q.status # "open" => tickets[e].responded
  BY <1>2 DEF TeamInv, StatusTimes, StampsFirst
<1>6. CASE /\ tickets' = Team!With(e, t)
           /\ unstamped' = unstamped /\ mishaps' = mishaps
  <2>1. /\ tickets' \in [Email -> Ticket]
        /\ \A x \in Email : /\ tickets[x].responded => tickets'[x].responded
                            /\ tickets[x].resolved => tickets'[x].resolved
        /\ StatusTimes'
    <3> HIDE DEF r, q, e, t
    <3> QED BY <1>2, <1>4, <1>5, <1>6, TeamWrites
  <2>2. e \in stored => tickets'[e] = t
    BY <1>1, <1>2, <1>4, <1>6, WithShape
  <2>3. unstamped' \subseteq Email /\ mishaps' \in 0 .. MaxFaults
    BY <1>1, <1>6 DEF TeamShape
  <2> HIDE DEF r, q, e, t
  <2> QED BY <1>2, <1>3, <1>4, <1>5, <1>6, <2>1, <2>2, <2>3, TeamGrows
<1>7. CASE /\ mishaps < MaxFaults /\ mishaps' = mishaps + 1
           /\ unstamped' = unstamped \cup {e} /\ tickets' = tickets
  <2>1. unstamped' \subseteq Email /\ mishaps' \in 0 .. MaxFaults
    BY <1>1, <1>2, <1>7, TeamBounds DEF TeamShape
  <2>2. tickets' \in [Email -> Ticket] /\ StatusTimes'
    BY <1>1, <1>2, <1>7 DEF TeamInv, TeamShape, StatusTimes
  <2> HIDE DEF r, q, e, t
  <2> QED BY <1>2, <1>3, <1>7, <2>1, <2>2, TeamGrows
<1> QED BY <1>6, <1>7 DEF Team!StampResolution

LEMMA TeamWriteStatus ==
    ASSUME TeamInv, NEW c \in Client, Team!WriteStatus(c)
    PROVE  TeamInv'
<1> DEFINE q == handling[c]
           r == [q EXCEPT !.pc = "answer"]
           e == q.email
           t == [tickets[e] EXCEPT !.status = q.status]
<1>1. TeamShape
  BY DEF TeamInv
<1>2. /\ q \in Handling /\ q.pc = "stamp" /\ e \in Email /\ q.responded /\ q.resolved
      /\ Team!Go(c, r) /\ stored' = stored /\ users' = users /\ q.status \in Team!Status
      /\ tickets' = Team!With(e, t) /\ unstamped' = unstamped /\ mishaps' = mishaps
  BY <1>1, HandlingFields DEF Team!WriteStatus, Team!Ready
<1>3. r \in Handling /\ r.pc = "answer" /\ r.email = e
  BY <1>2 DEF Handling
<1>4. /\ tickets[e] \in Ticket /\ t \in Ticket
      /\ t.responded = tickets[e].responded /\ t.resolved = tickets[e].resolved
      /\ t.status = q.status
  <2>1. tickets[e] \in Ticket /\ t \in Ticket
    BY <1>1, <1>2, TicketFields
  <2> QED BY <2>1 DEF Ticket
<1>5. e \in stored \ unstamped =>
          /\ q.status # "open" => tickets[e].responded
          /\ q.status = "resolved" => tickets[e].resolved
  BY <1>2 DEF TeamInv, StampsFirst
<1>6. unstamped' \subseteq Email /\ mishaps' \in 0 .. MaxFaults
  BY <1>1, <1>2 DEF TeamShape
<1> HIDE DEF r, q, e, t
<1>7. /\ tickets' \in [Email -> Ticket]
      /\ \A x \in Email : /\ tickets[x].responded => tickets'[x].responded
                          /\ tickets[x].resolved => tickets'[x].resolved
      /\ StatusTimes'
  BY <1>2, <1>4, <1>5, TeamWrites
<1> QED BY <1>2, <1>3, <1>6, <1>7, TeamGrows

LEMMA TeamWriteAssigned ==
    ASSUME TeamInv, NEW c \in Client, Team!WriteAssigned(c)
    PROVE  TeamInv'
<1> DEFINE q == handling[c]
           r == [q EXCEPT !.pc = "answer"]
           e == q.email
           t == [tickets[e] EXCEPT !.assigned = q.user]
<1>1. TeamShape
  BY DEF TeamInv
<1>2. /\ q \in Handling /\ q.pc = "assign" /\ e \in Email /\ q.user \in User \cup {Nobody}
      /\ Team!Go(c, r) /\ stored' = stored /\ users' = users
      /\ tickets' = Team!With(e, t) /\ unstamped' = unstamped /\ mishaps' = mishaps
  BY <1>1, HandlingFields DEF Team!WriteAssigned
<1>3. r \in Handling /\ r.pc = "answer" /\ r.email = e
  BY <1>2 DEF Handling
<1>4. /\ tickets[e] \in Ticket /\ t \in Ticket
      /\ t.responded = tickets[e].responded /\ t.resolved = tickets[e].resolved
      /\ t.status = tickets[e].status
  <2>1. tickets[e] \in Ticket /\ t \in Ticket
    BY <1>1, <1>2, TicketFields
  <2> QED BY <2>1 DEF Ticket
<1>5. e \in stored \ unstamped =>
          /\ tickets[e].status # "open" => tickets[e].responded
          /\ tickets[e].status = "resolved" => tickets[e].resolved
  BY DEF TeamInv, StatusTimes
<1>6. unstamped' \subseteq Email /\ mishaps' \in 0 .. MaxFaults
  BY <1>1, <1>2 DEF TeamShape
<1> HIDE DEF r, q, e, t
<1>7. /\ tickets' \in [Email -> Ticket]
      /\ \A x \in Email : /\ tickets[x].responded => tickets'[x].responded
                          /\ tickets[x].resolved => tickets'[x].resolved
      /\ StatusTimes'
  BY <1>2, <1>4, <1>5, TeamWrites
<1> QED BY <1>2, <1>3, <1>6, <1>7, TeamGrows

LEMMA TeamReadEmail ==
    ASSUME TeamInv, NEW e \in Email, Team!ReadEmail(e)
    PROVE  TeamInv'
<1> DEFINE t == [tickets[e] EXCEPT !.read = TRUE]
<1>1. TeamShape
  BY DEF TeamInv
<1>2. tickets' = Team!With(e, t) /\ stored' = stored /\ users' = users
      /\ handling' = handling /\ unstamped' = unstamped /\ mishaps' = mishaps
  BY DEF Team!ReadEmail
<1>3. /\ tickets[e] \in Ticket /\ t \in Ticket
      /\ t.responded = tickets[e].responded /\ t.resolved = tickets[e].resolved
      /\ t.status = tickets[e].status
  <2>1. tickets[e] \in Ticket /\ t \in Ticket
    BY <1>1, TicketFields
  <2> QED BY <2>1 DEF Ticket
<1>4. /\ tickets' \in [Email -> Ticket]
      /\ \A x \in Email : /\ tickets'[x].responded = tickets[x].responded
                          /\ tickets'[x].resolved = tickets[x].resolved
                          /\ tickets'[x].status = tickets[x].status
  <2> HIDE DEF t
  <2> QED BY <1>1, <1>2, <1>3, WithShape
<1>5. TeamShape'
  BY <1>1, <1>2, <1>4 DEF TeamShape
<1>6. StatusTimes'
  BY <1>1, <1>2, <1>4 DEF TeamInv, StatusTimes, TeamShape
<1>7. StampsFirst'
  BY <1>1, <1>2, <1>4 DEF TeamInv, StampsFirst, TeamShape
<1> QED BY <1>5, <1>6, <1>7 DEF TeamInv

LEMMA TeamDeleteEmail ==
    ASSUME TeamInv, NEW e \in Email, Team!DeleteEmail(e)
    PROVE  TeamInv'
BY DEF Team!DeleteEmail, TeamInv, TeamShape, StampsFirst, StatusTimes

LEMMA TeamUsers ==
    ASSUME TeamInv, NEW u \in User, Team!CreateUser(u) \/ Team!DeleteUser(u)
    PROVE  TeamInv'
BY DEF Team!CreateUser, Team!DeleteUser, TeamInv, TeamShape, StampsFirst, StatusTimes

LEMMA TeamNext == TeamInv /\ Team!Next => TeamInv'
<1> SUFFICES ASSUME TeamInv, Team!Next PROVE TeamInv'
  OBVIOUS
<1>1. CASE \E c \in Client : \/ Team!End(c) \/ Team!StampResponse(c) \/ Team!StampResolution(c)
                             \/ Team!WriteStatus(c) \/ Team!WriteAssigned(c)
  BY <1>1, TeamEnd, TeamStampResponse, TeamStampResolution, TeamWriteStatus, TeamWriteAssigned
<1>2. CASE \E c \in Client, e \in Email, s \in Team!Status : Team!SetEmailStatus(c, e, s)
  BY <1>2, TeamSetEmailStatus
<1>3. CASE \E c \in Client, e \in Email, u \in User \cup {Nobody} : Team!AssignEmail(c, e, u)
  BY <1>3, TeamAssignEmail
<1>4. CASE \E u \in User : Team!CreateUser(u) \/ Team!DeleteUser(u)
  BY <1>4, TeamUsers
<1>5. CASE \E e \in Email : Team!ReadEmail(e) \/ Team!DeleteEmail(e)
  BY <1>5, TeamReadEmail, TeamDeleteEmail
<1> QED BY <1>1, <1>2, <1>3, <1>4, <1>5 DEF Team!Next

(* Every unread email has one of the assignees that are counted.           *)
LEMMA DashboardComplete == Team!DashboardCountsAll
<1>1. ASSUME NEW e \in stored, ~tickets[e].read
      PROVE  e \in Team!Unassigned \cup UNION {Team!UnreadOf(u) : u \in Team!Agents}
  <2>1. CASE tickets[e].assigned = Nobody
    BY <1>1, <2>1 DEF Team!Unassigned
  <2>2. CASE tickets[e].assigned # Nobody
    <3>1. tickets[e].assigned \in Team!Agents
      BY <2>2 DEF Team!Agents
    <3>2. e \in Team!UnreadOf(tickets[e].assigned)
      BY <1>1 DEF Team!UnreadOf
    <3> QED BY <3>1, <3>2
  <2> QED BY <2>1, <2>2
<1>2. ASSUME NEW e \in Team!Unassigned \cup UNION {Team!UnreadOf(u) : u \in Team!Agents}
      PROVE  e \in stored /\ ~tickets[e].read
  BY <1>2 DEF Team!Unassigned, Team!UnreadOf
<1> QED BY <1>1, <1>2 DEF Team!DashboardCountsAll

(* A component that does not move keeps its state.                         *)
LEMMA TeamStutters == TeamInv /\ UNCHANGED team => TeamInv'
BY DEF TeamInv, TeamShape, StampsFirst, StatusTimes, team

(* A ticket in progress or resolved carries its times, and the dashboard   *)
(* counts every unread email, for any number of clients, emails and users, *)
(* however their requests interleave or are cut off.                       *)
THEOREM TicketsAreCounted == MCSpec => []TicketsCounted
<1>1. MCInit => TeamInv
  BY TeamInit DEF MCInit
<1>2. TeamInv /\ [MCNext]_requests => TeamInv'
  <2> SUFFICES ASSUME TeamInv, [MCNext]_requests PROVE TeamInv'
    OBVIOUS
  <2>1. CASE UNCHANGED team
    BY <2>1, TeamStutters
  <2>2. CASE Team!Next
    BY <2>2, TeamNext
  <2> QED BY <2>1, <2>2 DEF MCNext, requests
<1>3. TeamInv => TicketsCounted
  <2> SUFFICES ASSUME TeamInv PROVE Team!StatusHasTimes
    BY DashboardComplete DEF TicketsCounted, Team!TicketsCounted
  <2>1. TeamShape /\ StatusTimes
    BY DEF TeamInv
  <2> QED BY <2>1 DEF StatusTimes, Team!StatusHasTimes, Team!Breached
<1> QED BY <1>1, <1>2, <1>3, PTL DEF MCSpec

-----------------------------------------------------------------------------
(* The message store.                                                      *)

LEMMA StoreBounds ==
    /\ NoMsg \notin Msg /\ NoEmail \notin Store!Row
    /\ \A m \in Msg : Content[m] \in Hash
    /\ MaxId \in Nat /\ MaxFaults \in Nat
BY RequestsAssumption DEF RequestsAssumption, Store!MessageStoreAssumption

IngestSteps == {"idle", "save", "file", "attachment", "flag", "rules", "delete", "index"}
Ingest == [pc : IngestSteps, msg : Msg \cup {NoMsg}, id : Nat, new : BOOLEAN, saved : BOOLEAN]

StoreShape ==
    /\ rows \in [Msg -> Store!Row \cup {NoEmail}]
    /\ bodies \subseteq Store!Id /\ index \subseteq Store!Id /\ files \subseteq Hash
    /\ atts \subseteq [email : Store!Id, hash : Hash]
    /\ next \in Nat /\ 0 < next /\ next <= MaxId + 1
    /\ ingest \in Ingest
    /\ \/ ingest = Store!Idle
       \/ ingest.pc # "idle" /\ ingest.msg \in Msg /\ 0 < ingest.id /\ ingest.id < next
    /\ purge \in Msg \cup {NoMsg} /\ reset \in BOOLEAN /\ torn \in BOOLEAN /\ gmail \in BOOLEAN
    /\ doomed \subseteq Msg /\ cut \subseteq Msg
    /\ server = "down" => ingest = Store!Idle /\ purge = NoMsg /\ ~reset

(* An id names the row or the body of one message only, and neither before *)
(* the ingest that drew it has saved its message.                          *)
IdsUnique ==
    \A m \in Msg : Store!HasRow(m) =>
        /\ rows[m].id < next /\ rows[m].body < next
        /\ ingest.pc = "save" => rows[m].id # ingest.id /\ rows[m].body # ingest.id
        /\ \A n \in Msg : m # n /\ Store!HasRow(n) =>
              rows[m].id # rows[n].id /\ rows[m].body # rows[n].body

(* The collector, which runs while the server is down, removes no file     *)
(* that came after it had asked for those in use.                          *)
WalkInTime ==
    gc.pc = "walk" =>
        server = "down" /\ gc.bodies = Store!Bodies(rows) /\ gc.files = Store!Hashes(atts)

(* Bodies are there: also that of the message about to be saved.           *)
BodiesKept ==
    /\ Store!BodyPresent
    /\ ingest.pc = "save" => ingest.id \in bodies

(* So are the files of attachments, also of that about to be entered.      *)
FilesKept ==
    /\ Store!AttachmentsBacked
    /\ ~torn /\ ingest.pc = "attachment" => Content[ingest.msg] \in files

(* The index has the id of the row of every message; that of one that came *)
(* with the ingest under way is the id of the ingest.                      *)
IndexKept ==
    \A m \in Msg \ cut : Store!HasRow(m) =>
        \/ rows[m].id \in index
        \/ /\ ingest.msg = m /\ ingest.pc \notin {"idle", "save"}
           /\ ingest.new /\ rows[m].id = ingest.id

StoreInv == StoreShape /\ IdsUnique /\ WalkInTime /\ BodiesKept /\ FilesKept /\ IndexKept

LEMMA StoreInit == Store!Init => StoreInv
<1> SUFFICES ASSUME Store!Init PROVE StoreInv
  OBVIOUS
<1>1. \A m \in Msg : ~Store!HasRow(m)
  BY DEF Store!Init, Store!HasRow
<1>2. StoreShape
  <2>1. ingest \in Ingest /\ ingest = Store!Idle
    BY DEF Store!Init, Store!Idle, Ingest, IngestSteps
  <2>2. rows \in [Msg -> Store!Row \cup {NoEmail}]
    BY DEF Store!Init
  <2>3. next = 1 /\ 1 <= MaxId + 1
    BY StoreBounds DEF Store!Init
  <2>4. /\ bodies \subseteq Store!Id /\ index \subseteq Store!Id /\ files \subseteq Hash
        /\ atts \subseteq [email : Store!Id, hash : Hash]
        /\ doomed \subseteq Msg /\ cut \subseteq Msg /\ purge \in Msg \cup {NoMsg}
    BY DEF Store!Init
  <2>5. reset \in BOOLEAN /\ torn \in BOOLEAN /\ gmail \in BOOLEAN /\ server # "down"
    BY DEF Store!Init
  <2> QED BY <2>1, <2>2, <2>3, <2>4, <2>5 DEF StoreShape
<1>3. ingest.pc = "idle" /\ gc.pc = "idle"
  BY DEF Store!Init, Store!Idle
<1>4. Store!AttachmentsBacked
  BY DEF Store!Init, Store!AttachmentsBacked, Store!Hashes
<1> QED BY <1>1, <1>2, <1>3, <1>4
        DEF StoreInv, IdsUnique, WalkInTime, BodiesKept, FilesKept, IndexKept, Store!BodyPresent

(* Rows, and what a request or a removal changes in them.                  *)
LEMMA RowFields ==
    ASSUME StoreShape, NEW m \in Msg, Store!HasRow(m)
    PROVE  /\ rows[m] \in Store!Row
           /\ rows[m].id \in Store!Id /\ rows[m].body \in Store!Id /\ rows[m].has \in BOOLEAN
BY DEF StoreShape, Store!HasRow, Store!Row

LEMMA BodiesOf ==
    /\ \A b : b \in Store!Bodies(rows) <=> \E m \in Msg : Store!HasRow(m) /\ rows[m].body = b
    /\ \A i : i \in Store!Ids(rows) <=> \E m \in Msg : Store!HasRow(m) /\ rows[m].id = i
BY DEF Store!Bodies, Store!Ids, Store!HasRow

LEMMA HashesOf == \A A, h : h \in Store!Hashes(A) <=> \E a \in A : a.hash = h
BY DEF Store!Hashes

(* The ingest under way, and what is so while it is.                       *)
LEMMA IngestFields ==
    ASSUME StoreInv
    PROVE  /\ ingest \in Ingest /\ ingest.pc \in IngestSteps /\ ingest.msg \in Msg \cup {NoMsg}
           /\ ingest.id \in Nat /\ ingest.new \in BOOLEAN /\ ingest.saved \in BOOLEAN
           /\ ingest.pc # "idle" =>
                 /\ ingest.msg \in Msg /\ ingest.id \in Store!Id /\ ingest.id < next
                 /\ server # "down" /\ gc.pc # "walk"
           /\ ingest.pc = "idle" => ingest = Store!Idle
           /\ server # "down" => gc.pc # "walk"
<1>1. ingest \in Ingest
  BY DEF StoreInv, StoreShape
<1>2. Store!Idle.pc = "idle"
  BY DEF Store!Idle
<1>3. ingest.pc # "idle" => /\ ingest.msg \in Msg /\ 0 < ingest.id /\ ingest.id < next
                            /\ server # "down"
  BY <1>2 DEF StoreInv, StoreShape
<1>4. ingest.pc # "idle" => ingest.id \in Store!Id
  BY <1>1, <1>3, StoreBounds DEF StoreInv, StoreShape, Ingest, Store!Id
<1>5. server # "down" => gc.pc # "walk"
  BY DEF StoreInv, WalkInTime
<1>6. ingest.pc = "idle" => ingest = Store!Idle
  BY DEF StoreInv, StoreShape
<1> QED BY <1>1, <1>3, <1>4, <1>5, <1>6 DEF Ingest

LEMMA StoreWriteBody ==
    ASSUME StoreInv, NEW m \in Msg, Store!WriteBody(m)
    PROVE  StoreInv'
<1>1. StoreShape /\ ingest.pc = "idle" /\ gc.pc # "walk" /\ server = "up"
  BY IngestFields DEF StoreInv, Store!WriteBody
<1>2. /\ ingest'.pc = "save" /\ ingest'.msg = m /\ ingest'.id = next
      /\ ingest'.new = FALSE /\ ingest'.saved = FALSE /\ ingest' \in Ingest
  BY <1>1 DEF Store!WriteBody, Store!Idle, StoreShape, Ingest, IngestSteps
<1>3. /\ next <= MaxId /\ next' = next + 1 /\ bodies' = bodies \cup {next}
      /\ next \in Nat /\ 0 < next /\ next \in Store!Id
  BY <1>1, StoreBounds DEF Store!WriteBody, StoreShape, Store!Id
<1>4. /\ rows' = rows /\ atts' = atts /\ files' = files /\ index' = index /\ purge' = purge
      /\ reset' = reset /\ gc' = gc /\ server' = server /\ doomed' = doomed /\ cut' = cut
      /\ torn' = torn /\ gmail' = gmail
  BY DEF Store!WriteBody
<1>5. StoreShape'
  <2>1. next' \in Nat /\ 0 < next' /\ next' <= MaxId + 1 /\ next < next'
    BY <1>3, StoreBounds
  <2>2. bodies' \subseteq Store!Id
    BY <1>1, <1>3 DEF StoreShape
  <2> QED BY <1>1, <1>2, <1>3, <1>4, <2>1, <2>2 DEF StoreShape
<1>6. IdsUnique'
  <2> SUFFICES ASSUME NEW k \in Msg, rows[k] # NoEmail
               PROVE  /\ rows[k].id < next' /\ rows[k].body < next'
                      /\ rows[k].id # next /\ rows[k].body # next
                      /\ \A n \in Msg : k # n /\ rows[n] # NoEmail =>
                            rows[k].id # rows[n].id /\ rows[k].body # rows[n].body
    BY <1>2, <1>4 DEF IdsUnique, Store!HasRow
  <2>1. rows[k].id \in Nat /\ rows[k].body \in Nat /\ rows[k].id < next /\ rows[k].body < next
    BY <1>1, RowFields DEF StoreInv, IdsUnique, Store!HasRow, Store!Id
  <2>2. \A n \in Msg : k # n /\ rows[n] # NoEmail =>
            rows[k].id # rows[n].id /\ rows[k].body # rows[n].body
    BY DEF StoreInv, IdsUnique, Store!HasRow
  <2> QED BY <1>3, <2>1, <2>2
<1>7. BodiesKept'
  BY <1>2, <1>3, <1>4 DEF StoreInv, BodiesKept, Store!BodyPresent, Store!HasRow
<1>8. WalkInTime' /\ FilesKept'
  BY <1>1, <1>2, <1>4 DEF StoreInv, WalkInTime, FilesKept, Store!AttachmentsBacked, Store!Hashes
<1>9. IndexKept'
  BY <1>1, <1>4 DEF StoreInv, IndexKept, Store!HasRow
<1> QED BY <1>5, <1>6, <1>7, <1>8, <1>9 DEF StoreInv

(* Rows that stay as they are, or are gone, under the same ids.            *)
LEMMA StoreFewer ==
    ASSUME StoreInv, next' = next,
           \A m \in Msg : rows'[m] # NoEmail =>
               /\ rows[m] # NoEmail
               /\ rows'[m].id = rows[m].id /\ rows'[m].body = rows[m].body,
           ingest'.pc = "save" => ingest.pc = "save" /\ ingest'.id = ingest.id
    PROVE  IdsUnique'
BY DEF StoreInv, IdsUnique, Store!HasRow

LEMMA StoreSkipDuplicate ==
    ASSUME StoreInv, Store!SkipDuplicate
    PROVE  StoreInv'
<1>1. StoreShape /\ ingest.pc = "save" /\ ingest' = Store!Idle /\ gc.pc # "walk"
  BY IngestFields DEF StoreInv, Store!SkipDuplicate
<1>2. Store!Idle.pc = "idle" /\ Store!Idle \in Ingest
  BY DEF Store!Idle, Ingest, IngestSteps
<1>3. UNCHANGED <<gmail, rows, bodies, files, atts, index, next, purge, reset, gc, server,
                  doomed, cut, faults, torn>>
  BY DEF Store!SkipDuplicate, Store!disk
<1>4. StoreShape'
  BY <1>1, <1>2, <1>3 DEF StoreShape
<1>5. IdsUnique'
  BY <1>1, <1>2, <1>3, StoreFewer
<1>6. WalkInTime' /\ BodiesKept' /\ FilesKept'
  BY <1>1, <1>2, <1>3 DEF StoreInv, WalkInTime, BodiesKept, FilesKept, Store!BodyPresent,
     Store!AttachmentsBacked, Store!Hashes, Store!HasRow
<1>7. IndexKept'
  BY <1>1, <1>3 DEF StoreInv, IndexKept, Store!HasRow
<1> QED BY <1>4, <1>5, <1>6, <1>7 DEF StoreInv

(* The row of the message ingested shows the new body, under the id it     *)
(* had, or under that of the ingest.                                       *)
LEMMA StoreSaved ==
    ASSUME StoreInv, ingest.pc = "save",
           rows' = [rows EXCEPT ![ingest.msg] = Store!Saved(ingest.msg, ingest.id)],
           ingest' = [ingest EXCEPT !.pc = "file", !.new = ~Store!HasRow(ingest.msg)],
           bodies' = bodies, doomed' = doomed \ {ingest.msg},
           UNCHANGED <<gmail, files, atts, index, next, purge, reset, gc, server, cut, torn>>
    PROVE  StoreInv'
<1> DEFINE m == ingest.msg
           i == ingest.id
           row == Store!Saved(m, i)
<1>1. /\ StoreShape /\ m \in Msg /\ i \in Store!Id /\ i < next /\ gc.pc # "walk" /\ server # "down"
      /\ ingest \in Ingest
  BY IngestFields DEF StoreInv
<1>2. /\ ingest'.pc = "file" /\ ingest'.msg = m /\ ingest'.id = i /\ ingest' \in Ingest
      /\ ingest'.new = ~Store!HasRow(m)
  BY <1>1 DEF Ingest, IngestSteps, Store!HasRow
<1>3. /\ row \in Store!Row /\ row.body = i
      /\ Store!HasRow(m) => row.id = rows[m].id
      /\ ~Store!HasRow(m) => row.id = i
  <2>1. CASE Store!HasRow(m)
    BY <1>1, <2>1, RowFields DEF Store!Saved, Store!Row
  <2>2. CASE ~Store!HasRow(m)
    BY <1>1, <2>2 DEF Store!Saved, Store!Row
  <2> QED BY <2>1, <2>2
<1>4. /\ rows' \in [Msg -> Store!Row \cup {NoEmail}]
      /\ rows'[m] = row /\ rows'[m] # NoEmail
      /\ \A n \in Msg : n # m => rows'[n] = rows[n]
  BY <1>1, <1>3, StoreBounds DEF StoreShape
<1> HIDE DEF row
<1>5. StoreShape'
  <2>1. UNCHANGED <<gmail, files, bodies, atts, index, next, purge, reset, server, cut, torn>>
    OBVIOUS
  <2>2. doomed' \subseteq Msg
    BY <1>1 DEF StoreShape
  <2>3. 0 < ingest.id
    BY <1>1 DEF StoreShape, Store!Idle
  <2> QED BY <1>1, <1>2, <1>4, <2>1, <2>2, <2>3 DEF StoreShape
<1>6. IdsUnique'
  <2>1. \A n \in Msg : rows[n] # NoEmail =>
            /\ rows[n].id < next /\ rows[n].body < next
            /\ rows[n].id # i /\ rows[n].body # i
            /\ \A k \in Msg : n # k /\ rows[k] # NoEmail =>
                  rows[n].id # rows[k].id /\ rows[n].body # rows[k].body
    BY DEF StoreInv, IdsUnique, Store!HasRow
  <2>2. /\ row.id < next /\ row.body < next
        /\ \A n \in Msg : n # m /\ rows[n] # NoEmail => rows[n].id # row.id /\ rows[n].body # row.body
    BY <1>1, <1>3, <2>1 DEF Store!HasRow
  <2>3. \A n \in Msg : rows'[n] # NoEmail =>
            /\ rows'[n].id < next /\ rows'[n].body < next
            /\ \A k \in Msg : n # k /\ rows'[k] # NoEmail =>
                  rows'[n].id # rows'[k].id /\ rows'[n].body # rows'[k].body
    BY <1>4, <2>1, <2>2
  <2> QED BY <1>2, <2>3 DEF IdsUnique, Store!HasRow
<1>7. BodiesKept'
  <2>1. \A n \in Msg : rows'[n] # NoEmail => rows'[n].body \in bodies \/ n \in doomed'
    BY <1>3, <1>4 DEF StoreInv, BodiesKept, Store!BodyPresent, Store!HasRow
  <2> QED BY <1>2, <2>1 DEF BodiesKept, Store!BodyPresent, Store!HasRow
<1>8. WalkInTime' /\ FilesKept'
  BY <1>1, <1>2 DEF StoreInv, WalkInTime, FilesKept, Store!AttachmentsBacked, Store!Hashes
<1>9. IndexKept'
  <2> SUFFICES ASSUME NEW n \in Msg \ cut, rows'[n] # NoEmail
               PROVE  \/ rows'[n].id \in index
                      \/ /\ ingest'.msg = n /\ ingest'.pc \notin {"idle", "save"}
                         /\ ingest'.new /\ rows'[n].id = ingest'.id
    BY DEF IndexKept, Store!HasRow
  <2>1. rows[n] # NoEmail => rows[n].id \in index
    BY DEF StoreInv, IndexKept, Store!HasRow
  <2> QED BY <1>2, <1>3, <1>4, <2>1 DEF Store!HasRow
<1> QED BY <1>5, <1>6, <1>7, <1>8, <1>9 DEF StoreInv

LEMMA StoreSaveEmail ==
    ASSUME StoreInv, Store!SaveEmail
    PROVE  StoreInv'
<1>1. /\ StoreShape /\ ingest.pc = "save" /\ gc.pc # "walk"
      /\ UNCHANGED <<gmail, files, atts, index, next, purge, reset, gc, server, cut, torn>>
  BY IngestFields DEF StoreInv, Store!SaveEmail
<1>2. CASE /\ Store!Fault /\ ingest' = Store!Idle
           /\ bodies' = bodies \ {ingest.id}
           /\ UNCHANGED <<rows, doomed>>
  <2>1. Store!Idle.pc = "idle" /\ Store!Idle \in Ingest
    BY DEF Store!Idle, Ingest, IngestSteps
  <2>2. StoreShape'
    BY <1>1, <1>2, <2>1 DEF StoreShape
  <2>3. IdsUnique'
    BY <1>1, <1>2, <2>1, StoreFewer
  <2>4. \A m \in Msg : rows[m] # NoEmail => rows[m].body # ingest.id
    BY <1>1 DEF StoreInv, IdsUnique, Store!HasRow
  <2>5. BodiesKept'
    BY <1>1, <1>2, <2>1, <2>4 DEF StoreInv, BodiesKept, Store!BodyPresent, Store!HasRow
  <2>6. WalkInTime' /\ FilesKept'
    BY <1>1, <1>2, <2>1 DEF StoreInv, WalkInTime, FilesKept, Store!AttachmentsBacked, Store!Hashes
  <2>7. IndexKept'
    BY <1>1, <1>2 DEF StoreInv, IndexKept, Store!HasRow
  <2> QED BY <2>2, <2>3, <2>5, <2>6, <2>7 DEF StoreInv
<1>3. CASE /\ rows' = [rows EXCEPT ![ingest.msg] = Store!Saved(ingest.msg, ingest.id)]
           /\ ingest' = [ingest EXCEPT !.pc = "file", !.new = ~Store!HasRow(ingest.msg)]
           /\ bodies' = bodies
           /\ doomed' = doomed \ {ingest.msg}
           /\ UNCHANGED faults
  BY <1>1, <1>3, StoreSaved
<1> QED BY <1>2, <1>3 DEF Store!SaveEmail

(* An ingest goes on with its message, under its id.                       *)
LEMMA IngestGoes ==
    ASSUME StoreInv, ingest.pc # "idle", NEW pc \in IngestSteps \ {"idle"},
           Store!Goto(pc)
    PROVE  /\ ingest' \in Ingest /\ ingest'.pc = pc /\ ingest'.msg = ingest.msg
           /\ ingest'.id = ingest.id /\ ingest'.new = ingest.new /\ ingest'.saved = ingest.saved
           /\ ingest'.msg \in Msg /\ 0 < ingest'.id /\ ingest'.id < next
<1>1. ingest \in Ingest /\ ingest.msg \in Msg /\ 0 < ingest.id /\ ingest.id < next
  BY IngestFields DEF StoreInv, StoreShape, Store!Idle
<1> QED BY <1>1 DEF Ingest, Store!Goto

LEMMA StoreSaveFile ==
    ASSUME StoreInv, Store!SaveFile
    PROVE  StoreInv'
<1>1. /\ StoreShape /\ ingest.pc = "file" /\ ingest.msg \in Msg /\ gc.pc # "walk" /\ server # "down"
      /\ files' = files \cup {Content[ingest.msg]}
      /\ UNCHANGED <<gmail, rows, bodies, atts, index, next, purge, reset, gc, server, doomed, cut,
                     faults, torn>>
  BY IngestFields DEF StoreInv, Store!SaveFile
<1>2. /\ ingest' \in Ingest /\ ingest'.pc = "attachment" /\ ingest'.msg = ingest.msg
      /\ ingest'.id = ingest.id /\ ingest'.new = ingest.new
      /\ ingest'.msg \in Msg /\ 0 < ingest'.id /\ ingest'.id < next
  BY <1>1, IngestGoes DEF Store!SaveFile, IngestSteps
<1>3. StoreShape'
  BY <1>1, <1>2, StoreBounds DEF StoreShape
<1>4. IdsUnique'
  BY <1>1, <1>2, StoreFewer
<1>5. WalkInTime' /\ BodiesKept' /\ FilesKept'
  BY <1>1, <1>2 DEF StoreInv, WalkInTime, BodiesKept, FilesKept, Store!BodyPresent,
     Store!AttachmentsBacked, Store!Hashes, Store!HasRow
<1>6. IndexKept'
  BY <1>1, <1>2 DEF StoreInv, IndexKept, Store!HasRow
<1> QED BY <1>3, <1>4, <1>5, <1>6 DEF StoreInv

(* A step that adds neither rows nor entries and removes no file of an     *)
(* attachment, whether it is one of the ingest or another's.               *)
LEMMA StoreLess ==
    ASSUME StoreInv, gc.pc # "walk", StoreShape', Store!BodyPresent', Store!AttachmentsBacked',
           \A m \in Msg : rows'[m] # NoEmail =>
               /\ rows[m] # NoEmail
               /\ rows'[m].id = rows[m].id /\ rows'[m].body = rows[m].body,
           UNCHANGED <<files, index, next, gc, cut, torn>>,
           \/ /\ ingest' = ingest
              /\ ingest.pc = "save" => ingest.id \in bodies'
           \/ /\ ingest.pc \notin {"idle", "save"}
              /\ ingest'.pc \in {"flag", "rules", "delete", "index"}
              /\ ingest'.msg = ingest.msg /\ ingest'.id = ingest.id /\ ingest'.new = ingest.new
    PROVE  StoreInv'
<1>1. IdsUnique'
  BY StoreFewer
<1>2. WalkInTime'
  BY DEF WalkInTime
<1>3. BodiesKept'
  BY DEF BodiesKept
<1>4. FilesKept'
  BY DEF StoreInv, FilesKept
<1>5. IndexKept'
  <2> SUFFICES ASSUME NEW m \in Msg \ cut, rows'[m] # NoEmail
               PROVE  \/ rows'[m].id \in index
                      \/ /\ ingest'.msg = m /\ ingest'.pc \notin {"idle", "save"}
                         /\ ingest'.new /\ rows'[m].id = ingest'.id
    BY DEF IndexKept, Store!HasRow
  <2>1. \/ rows[m].id \in index
        \/ /\ ingest.msg = m /\ ingest.pc \notin {"idle", "save"}
           /\ ingest.new /\ rows[m].id = ingest.id
    BY DEF StoreInv, IndexKept, Store!HasRow
  <2> QED BY <2>1
<1> QED BY <1>1, <1>2, <1>3, <1>4, <1>5 DEF StoreInv

LEMMA StoreSaveAttachment ==
    ASSUME StoreInv, Store!SaveAttachment
    PROVE  StoreInv'
<1> DEFINE a == [email |-> ingest.id, hash |-> Content[ingest.msg]]
           saved == [ingest EXCEPT !.pc = "flag", !.saved = TRUE]
<1>1. /\ StoreShape /\ ingest.pc = "attachment" /\ ingest.msg \in Msg /\ ingest.id \in Store!Id
      /\ gc.pc # "walk" /\ server # "down" /\ ingest \in Ingest /\ 0 < ingest.id
      /\ UNCHANGED <<gmail, rows, bodies, files, index, next, purge, reset, gc, server, doomed, cut,
                     faults, torn>>
  BY IngestFields DEF StoreInv, StoreShape, Store!Idle, Store!SaveAttachment, Store!disk
<1>2. /\ ingest' = saved \/ Store!Goto("flag")
      /\ atts' = atts \/ atts' = atts \cup {a}
  BY DEF Store!SaveAttachment
<1>3. /\ ingest' \in Ingest /\ ingest'.pc = "flag" /\ ingest'.msg = ingest.msg
      /\ ingest'.id = ingest.id /\ ingest'.new = ingest.new
  <2>1. CASE ingest' = saved
    BY <1>1, <2>1 DEF Ingest, IngestSteps
  <2>2. CASE Store!Goto("flag")
    BY <1>1, <2>2, IngestGoes DEF IngestSteps
  <2> QED BY <1>2, <2>1, <2>2
<1>4. ingest.id < next
  BY <1>1, IngestFields
<1>5. a \in [email : Store!Id, hash : Hash] /\ a.hash = Content[ingest.msg]
  BY <1>1, StoreBounds
<1>6. StoreShape'
  BY <1>1, <1>2, <1>3, <1>4, <1>5 DEF StoreShape
<1>7. Store!BodyPresent'
  BY <1>1 DEF StoreInv, BodiesKept, Store!BodyPresent, Store!HasRow
<1>8. Store!AttachmentsBacked'
  <2> HIDE DEF a
  <2>1. ~reset /\ ~torn => \A b \in atts : b.hash \in files
    BY DEF StoreInv, FilesKept, Store!AttachmentsBacked, Store!Hashes
  <2>2. ~torn => a.hash \in files
    BY <1>1, <1>5 DEF StoreInv, FilesKept
  <2>3. ~reset /\ ~torn => \A b \in atts' : b.hash \in files
    BY <1>2, <2>1, <2>2
  <2> QED BY <1>1, <2>3 DEF Store!AttachmentsBacked, Store!Hashes
<1> HIDE DEF a, saved
<1> QED BY <1>1, <1>3, <1>6, <1>7, <1>8, StoreLess

LEMMA StoreSetFlag ==
    ASSUME StoreInv, Store!SetFlag
    PROVE  StoreInv'
<1>1. /\ StoreShape /\ ingest.pc = "flag" /\ ingest \in Ingest /\ gc.pc # "walk"
      /\ ingest.saved \in BOOLEAN /\ server # "down"
      /\ UNCHANGED <<gmail, bodies, files, atts, index, next, purge, reset, gc, server, doomed, cut,
                     faults, torn>>
  BY IngestFields DEF StoreInv, Store!SetFlag, Store!disk
<1>2. /\ ingest' \in Ingest /\ ingest'.pc \in {"rules", "index"} /\ ingest'.msg = ingest.msg
      /\ ingest'.id = ingest.id /\ ingest'.new = ingest.new
      /\ ingest'.msg \in Msg /\ 0 < ingest'.id /\ ingest'.id < next
  <2>1. CASE ingest.new
    <3>1. Store!Goto("rules")
      BY <2>1 DEF Store!SetFlag
    <3> QED BY <1>1, <3>1, IngestGoes DEF IngestSteps
  <2>2. CASE ~ingest.new
    <3>1. Store!Goto("index")
      BY <2>2 DEF Store!SetFlag
    <3> QED BY <1>1, <3>1, IngestGoes DEF IngestSteps
  <2> QED BY <2>1, <2>2
<1>3. ASSUME NEW m \in Msg
      PROVE  /\ rows'[m] \in Store!Row \cup {NoEmail}
             /\ rows'[m] # NoEmail =>
                   /\ rows[m] # NoEmail
                   /\ rows'[m].id = rows[m].id /\ rows'[m].body = rows[m].body
  <2>1. CASE Store!HasRow(m) /\ rows[m].id = ingest.id
    <3>1. rows'[m] = [rows[m] EXCEPT !.has = ingest.saved]
      BY <2>1 DEF Store!SetFlag
    <3>2. rows[m] \in Store!Row
      BY <1>1, <2>1, RowFields
    <3> QED BY <1>1, <2>1, <3>1, <3>2 DEF Store!Row, Store!HasRow
  <2>2. CASE ~(Store!HasRow(m) /\ rows[m].id = ingest.id)
    BY <1>1, <2>2 DEF Store!SetFlag, StoreShape
  <2> QED BY <2>1, <2>2
<1>4. rows' \in [Msg -> Store!Row \cup {NoEmail}]
  <2>1. rows' = [m \in Msg |-> rows'[m]]
    BY DEF Store!SetFlag
  <2> QED BY <1>3, <2>1
<1>5. StoreShape'
  BY <1>1, <1>2, <1>4 DEF StoreShape
<1>6. Store!BodyPresent' /\ Store!AttachmentsBacked'
  BY <1>1, <1>3 DEF StoreInv, BodiesKept, FilesKept, Store!BodyPresent, Store!AttachmentsBacked,
     Store!Hashes, Store!HasRow
<1> QED BY <1>1, <1>2, <1>3, <1>5, <1>6, StoreLess

LEMMA StoreRunRules ==
    ASSUME StoreInv, Store!RunRules
    PROVE  StoreInv'
<1> DEFINE M == {m \in Msg : Store!HasRow(m) /\ rows[m].id = ingest.id}
<1>1. /\ StoreShape /\ ingest.pc = "rules" /\ gc.pc # "walk" /\ server # "down"
      /\ UNCHANGED <<gmail, rows, files, atts, index, next, purge, reset, gc, server, cut,
                     faults, torn>>
  BY IngestFields DEF StoreInv, Store!RunRules
<1>2. \/ Store!Goto("index") /\ bodies' = bodies /\ doomed' = doomed
      \/ /\ Store!Goto("delete")
         /\ bodies' = bodies \ {rows[m].body : m \in M} /\ doomed' = doomed \cup M
  BY DEF Store!RunRules
<1>3. /\ ingest' \in Ingest /\ ingest'.pc \in {"delete", "index"} /\ ingest'.msg = ingest.msg
      /\ ingest'.id = ingest.id /\ ingest'.new = ingest.new
      /\ ingest'.msg \in Msg /\ 0 < ingest'.id /\ ingest'.id < next
  BY <1>1, <1>2, IngestGoes DEF IngestSteps
<1>4. StoreShape'
  <2>1. bodies' \subseteq bodies /\ doomed' \subseteq Msg
    BY <1>1, <1>2 DEF StoreShape
  <2> HIDE DEF M
  <2> QED BY <1>1, <1>3, <2>1 DEF StoreShape
<1>5. Store!BodyPresent'
  <2> SUFFICES ASSUME NEW n \in Msg, rows[n] # NoEmail
               PROVE  rows[n].body \in bodies' \/ n \in doomed'
    BY <1>1 DEF Store!BodyPresent, Store!HasRow
  <2>1. rows[n].body \in bodies \/ n \in doomed
    BY DEF StoreInv, BodiesKept, Store!BodyPresent, Store!HasRow
  <2>2. \A m \in M : rows[m].body = rows[n].body => n \in M
    BY DEF StoreInv, IdsUnique, Store!HasRow
  <2> HIDE DEF M
  <2> QED BY <1>2, <2>1, <2>2
<1>6. Store!AttachmentsBacked'
  BY <1>1 DEF StoreInv, FilesKept, Store!AttachmentsBacked, Store!Hashes
<1> HIDE DEF M
<1> QED BY <1>1, <1>3, <1>4, <1>5, <1>6, StoreLess

(* A row goes, with or without its attachments.                            *)
LEMMA DeletedRow ==
    ASSUME StoreInv, NEW m \in Msg, Store!DeleteRow(m), bodies' = bodies, files' = files,
           torn' = torn, reset' = reset
    PROVE  /\ rows' \in [Msg -> Store!Row \cup {NoEmail}]
           /\ \A n \in Msg : rows'[n] # NoEmail => rows'[n] = rows[n] /\ n # m
           /\ atts' \subseteq atts
           /\ doomed' \subseteq Msg
           /\ Store!BodyPresent' /\ Store!AttachmentsBacked'
<1>1. StoreShape
  BY DEF StoreInv
<1>2. /\ rows' \in [Msg -> Store!Row \cup {NoEmail}]
      /\ \A n \in Msg : rows'[n] # NoEmail => rows'[n] = rows[n] /\ n # m
  BY <1>1 DEF StoreShape, Store!DeleteRow
<1>3. atts' \subseteq atts
  BY DEF Store!DeleteRow
<1>4. doomed' = doomed \ {m} /\ doomed' \subseteq Msg
  BY <1>1 DEF StoreShape, Store!DeleteRow
<1>5. Store!BodyPresent'
  BY <1>2, <1>4 DEF StoreInv, BodiesKept, Store!BodyPresent, Store!HasRow
<1>6. Store!AttachmentsBacked'
  BY <1>3 DEF StoreInv, FilesKept, Store!AttachmentsBacked, Store!Hashes
<1> QED BY <1>2, <1>3, <1>4, <1>5, <1>6

LEMMA StoreHandleDelete ==
    ASSUME StoreInv, Store!HandleDelete
    PROVE  StoreInv'
<1>1. /\ StoreShape /\ ingest.pc = "delete" /\ gc.pc # "walk" /\ server # "down"
      /\ UNCHANGED <<gmail, bodies, files, index, next, purge, reset, gc, server, cut, torn>>
  BY IngestFields DEF StoreInv, Store!HandleDelete, Store!disk
<1>2. /\ ingest' \in Ingest /\ ingest'.pc = "index" /\ ingest'.msg = ingest.msg
      /\ ingest'.id = ingest.id /\ ingest'.new = ingest.new
      /\ ingest'.msg \in Msg /\ 0 < ingest'.id /\ ingest'.id < next
  BY <1>1, IngestGoes DEF Store!HandleDelete, IngestSteps
<1>3. /\ rows' \in [Msg -> Store!Row \cup {NoEmail}]
      /\ \A n \in Msg : rows'[n] # NoEmail => rows'[n] = rows[n]
      /\ atts' \subseteq atts /\ doomed' \subseteq Msg
      /\ Store!BodyPresent' /\ Store!AttachmentsBacked'
  <2>1. CASE \E m \in Msg : Store!DeleteRow(m)
    BY <1>1, <2>1, DeletedRow
  <2>2. CASE UNCHANGED <<rows, atts, doomed>>
    BY <1>1, <2>2 DEF StoreInv, StoreShape, BodiesKept, FilesKept, Store!BodyPresent,
       Store!AttachmentsBacked, Store!HasRow, Store!Hashes
  <2> QED BY <2>1, <2>2 DEF Store!HandleDelete
<1>4. StoreShape'
  BY <1>1, <1>2, <1>3 DEF StoreShape
<1> QED BY <1>1, <1>2, <1>3, <1>4, StoreLess

LEMMA StoreDeleteEmail ==
    ASSUME StoreInv, NEW m \in Msg, Store!DeleteEmail(m)
    PROVE  StoreInv'
<1>1. /\ StoreShape /\ gc.pc # "walk" /\ server # "down"
      /\ UNCHANGED <<gmail, bodies, files, index, next, ingest, purge, reset, gc, server, cut,
                     faults, torn>>
  BY IngestFields DEF StoreInv, Store!DeleteEmail, Store!disk
<1>2. /\ rows' \in [Msg -> Store!Row \cup {NoEmail}]
      /\ \A n \in Msg : rows'[n] # NoEmail => rows'[n] = rows[n]
      /\ atts' \subseteq atts /\ doomed' \subseteq Msg
      /\ Store!BodyPresent' /\ Store!AttachmentsBacked'
  BY <1>1, DeletedRow DEF Store!DeleteEmail
<1>3. StoreShape'
  BY <1>1, <1>2 DEF StoreShape
<1>4. ingest.pc = "save" => ingest.id \in bodies
  BY DEF StoreInv, BodiesKept
<1> QED BY <1>1, <1>2, <1>3, <1>4, StoreLess

LEMMA StorePurgeFile ==
    ASSUME StoreInv, NEW m \in Msg, Store!PurgeFile(m)
    PROVE  StoreInv'
<1>1. /\ StoreShape /\ gc.pc # "walk" /\ server # "down" /\ rows[m] # NoEmail
      /\ purge' = m /\ bodies' = bodies \ {rows[m].body} /\ doomed' = doomed \cup {m}
      /\ UNCHANGED <<gmail, rows, files, atts, index, next, ingest, reset, gc, server, cut,
                     faults, torn>>
  BY IngestFields DEF StoreInv, Store!PurgeFile, Store!HasRow
<1>2. StoreShape'
  BY <1>1 DEF StoreShape
<1>3. \A n \in Msg : n # m /\ rows[n] # NoEmail => rows[n].body # rows[m].body
  BY <1>1 DEF StoreInv, IdsUnique, Store!HasRow
<1>4. Store!BodyPresent'
  BY <1>1, <1>3 DEF StoreInv, BodiesKept, Store!BodyPresent, Store!HasRow
<1>5. Store!AttachmentsBacked'
  BY <1>1 DEF StoreInv, FilesKept, Store!AttachmentsBacked, Store!Hashes
<1>6. ingest.pc = "save" => ingest.id \in bodies'
  BY <1>1 DEF StoreInv, BodiesKept, IdsUnique, Store!HasRow
<1> QED BY <1>1, <1>2, <1>4, <1>5, <1>6, StoreLess

LEMMA StorePurgeRow ==
    ASSUME StoreInv, Store!PurgeRow
    PROVE  StoreInv'
<1>1. /\ StoreShape /\ purge \in Msg /\ purge' = NoMsg
      /\ UNCHANGED <<gmail, bodies, files, index, next, ingest, reset, gc, server, cut, torn>>
  BY DEF StoreInv, StoreShape, Store!PurgeRow, Store!disk
<1>2. server # "down" /\ gc.pc # "walk"
  BY <1>1, IngestFields, StoreBounds DEF StoreShape
<1>3. /\ rows' \in [Msg -> Store!Row \cup {NoEmail}]
      /\ \A n \in Msg : rows'[n] # NoEmail => rows'[n] = rows[n]
      /\ atts' \subseteq atts /\ doomed' \subseteq Msg
      /\ Store!BodyPresent' /\ Store!AttachmentsBacked'
  <2>1. CASE Store!DeleteRow(purge)
    BY <1>1, <2>1, DeletedRow
  <2>2. CASE UNCHANGED <<rows, atts, doomed>>
    BY <1>1, <2>2 DEF StoreInv, StoreShape, BodiesKept, FilesKept, Store!BodyPresent,
       Store!AttachmentsBacked, Store!HasRow, Store!Hashes
  <2> QED BY <2>1, <2>2 DEF Store!PurgeRow
<1>4. StoreShape'
  BY <1>1, <1>2, <1>3 DEF StoreShape
<1>5. ingest.pc = "save" => ingest.id \in bodies
  BY DEF StoreInv, BodiesKept
<1> QED BY <1>1, <1>2, <1>3, <1>4, <1>5, StoreLess

LEMMA StoreResetFiles ==
    ASSUME StoreInv, Store!ResetFiles
    PROVE  StoreInv'
<1>1. /\ StoreShape /\ gc.pc # "walk" /\ server # "down"
      /\ reset' = TRUE
      /\ files' = files \ Store!Hashes(atts) /\ bodies' = bodies \ Store!Bodies(rows)
      /\ doomed' = {m \in Msg : Store!HasRow(m)}
      /\ torn' = (torn \/ ingest # Store!Idle)
      /\ UNCHANGED <<gmail, rows, atts, index, next, ingest, purge, gc, server, cut, faults>>
  BY IngestFields DEF StoreInv, Store!ResetFiles
<1>2. torn' \in BOOLEAN /\ (~torn' => ingest = Store!Idle)
  BY <1>1
<1>3. StoreShape'
  BY <1>1, <1>2 DEF StoreShape
<1>4. IdsUnique'
  BY <1>1, StoreFewer
<1>5. ingest.pc = "save" => ingest.id \in bodies'
  BY <1>1, BodiesOf DEF StoreInv, BodiesKept, IdsUnique, Store!HasRow
<1>6. Store!BodyPresent'
  BY <1>1 DEF Store!BodyPresent, Store!HasRow
<1>7. FilesKept'
  BY <1>1, <1>2 DEF FilesKept, Store!AttachmentsBacked, Store!Idle
<1>8. WalkInTime' /\ IndexKept'
  BY <1>1 DEF StoreInv, WalkInTime, IndexKept, Store!HasRow
<1> QED BY <1>1, <1>3, <1>4, <1>5, <1>6, <1>7, <1>8 DEF StoreInv, BodiesKept

LEMMA StoreResetRows ==
    ASSUME StoreInv, Store!ResetRows
    PROVE  StoreInv'
<1>1. /\ StoreShape /\ reset /\ reset' = FALSE
      /\ atts' = {} /\ rows' = [m \in Msg |-> NoEmail] /\ doomed' = {}
      /\ UNCHANGED <<gmail, bodies, files, index, next, ingest, purge, gc, server, cut, faults, torn>>
  BY DEF StoreInv, Store!ResetRows, Store!disk
<1>2. server # "down" /\ gc.pc # "walk"
  BY <1>1, IngestFields DEF StoreShape
<1>3. \A m \in Msg : rows'[m] = NoEmail
  BY <1>1
<1>4. StoreShape'
  <2>1. rows' \in [Msg -> Store!Row \cup {NoEmail}]
    BY <1>1
  <2> QED BY <1>1, <1>2, <2>1 DEF StoreShape
<1>5. IdsUnique' /\ WalkInTime' /\ IndexKept' /\ Store!BodyPresent'
  BY <1>1, <1>2, <1>3 DEF IdsUnique, WalkInTime, IndexKept, Store!BodyPresent, Store!HasRow
<1>6. Store!AttachmentsBacked'
  BY <1>1 DEF Store!AttachmentsBacked, Store!Hashes
<1> QED BY <1>1, <1>4, <1>5, <1>6 DEF StoreInv, BodiesKept, FilesKept

LEMMA StoreStoreIndex ==
    ASSUME StoreInv, Store!StoreIndex
    PROVE  StoreInv'
<1>1. /\ StoreShape /\ ingest.pc = "index" /\ ingest.msg \in Msg /\ ingest.id \in Store!Id
      /\ gc.pc # "walk" /\ server # "down" /\ ingest' = Store!Idle
      /\ UNCHANGED <<gmail, rows, bodies, files, atts, next, purge, reset, gc, server, doomed, torn>>
  BY IngestFields DEF StoreInv, Store!StoreIndex, Store!disk
<1>2. \/ index' = index \cup {ingest.id} /\ cut' = cut
      \/ index' = index /\ cut' = cut \cup {ingest.msg}
  BY DEF Store!StoreIndex, Store!Entry
<1>3. Store!Idle.pc = "idle" /\ Store!Idle \in Ingest
  BY DEF Store!Idle, Ingest, IngestSteps
<1>4. StoreShape'
  BY <1>1, <1>2, <1>3 DEF StoreShape
<1>5. IdsUnique'
  BY <1>1, <1>3, StoreFewer
<1>6. WalkInTime' /\ BodiesKept' /\ FilesKept'
  BY <1>1, <1>3 DEF StoreInv, WalkInTime, BodiesKept, FilesKept, Store!BodyPresent,
     Store!AttachmentsBacked, Store!Hashes, Store!HasRow
<1>7. IndexKept'
  BY <1>1, <1>2 DEF StoreInv, IndexKept, Store!HasRow
<1> QED BY <1>4, <1>5, <1>6, <1>7 DEF StoreInv

LEMMA StoreCrash ==
    ASSUME StoreInv, Store!Crash
    PROVE  StoreInv'
<1>1. /\ StoreShape /\ server' = "down" /\ gc.pc # "walk"
      /\ ingest' = Store!Idle /\ purge' = NoMsg /\ reset' = FALSE
      /\ cut' = cut \cup Store!Interrupted /\ torn' = (torn \/ reset)
      /\ UNCHANGED <<gmail, rows, bodies, files, atts, index, next, gc, doomed>>
  BY IngestFields DEF StoreInv, Store!Crash, Store!StopAllWork, Store!disk
<1>2. Store!Idle.pc = "idle" /\ Store!Idle \in Ingest
  BY DEF Store!Idle, Ingest, IngestSteps
<1>3. /\ ingest.pc # "idle" => Store!Interrupted = {ingest.msg} /\ ingest.msg \in Msg
      /\ ingest.pc = "idle" => Store!Interrupted = {}
  BY IngestFields DEF Store!Interrupted
<1>4. torn' \in BOOLEAN /\ (~torn' => ~torn /\ ~reset)
  BY <1>1
<1>5. StoreShape'
  BY <1>1, <1>2, <1>3, <1>4 DEF StoreShape
<1>6. IdsUnique'
  BY <1>1, <1>2, StoreFewer
<1>7. WalkInTime' /\ BodiesKept' /\ FilesKept'
  BY <1>1, <1>2, <1>4 DEF StoreInv, WalkInTime, BodiesKept, FilesKept, Store!BodyPresent,
     Store!AttachmentsBacked, Store!Hashes, Store!HasRow
<1>8. IndexKept'
  BY <1>1, <1>3 DEF StoreInv, IndexKept, Store!HasRow
<1> QED BY <1>5, <1>6, <1>7, <1>8 DEF StoreInv

LEMMA StoreShutDown ==
    ASSUME StoreInv, Store!ShutDown
    PROVE  StoreInv'
<1>1. /\ StoreShape /\ server' = "down" /\ gc.pc # "walk"
      /\ ingest = Store!Idle /\ purge = NoMsg /\ ~reset
      /\ files' \subseteq files /\ torn' = (torn \/ files' # files)
      /\ UNCHANGED <<gmail, rows, bodies, atts, index, next, ingest, purge, reset, gc, doomed, cut,
                     faults>>
  BY IngestFields DEF StoreInv, Store!ShutDown
<1>2. torn' \in BOOLEAN /\ (~torn' => ~torn /\ files' = files)
  BY <1>1
<1>3. StoreShape'
  BY <1>1, <1>2 DEF StoreShape
<1>4. IdsUnique'
  BY <1>1, StoreFewer
<1>5. WalkInTime' /\ BodiesKept' /\ IndexKept'
  BY <1>1 DEF StoreInv, WalkInTime, BodiesKept, Store!BodyPresent, IndexKept, Store!HasRow
<1>6. FilesKept'
  BY <1>1, <1>2 DEF StoreInv, FilesKept, Store!AttachmentsBacked, Store!Hashes
<1> QED BY <1>3, <1>4, <1>5, <1>6 DEF StoreInv

LEMMA StoreStart ==
    ASSUME StoreInv, Store!Start
    PROVE  StoreInv'
<1>1. /\ StoreShape /\ server' = "up" /\ gc.pc = "idle"
      /\ index' = IF index = {} THEN Store!Ids(rows) ELSE index
      /\ UNCHANGED <<gmail, rows, bodies, files, atts, next, ingest, purge, reset, gc, doomed, cut,
                     faults, torn>>
  BY DEF StoreInv, Store!Start, Store!disk
<1>2. Store!Ids(rows) \subseteq Store!Id
  BY <1>1, RowFields, BodiesOf
<1>3. index' \subseteq Store!Id
  BY <1>1, <1>2 DEF StoreShape
<1>4. StoreShape'
  BY <1>1, <1>3 DEF StoreShape
<1>5. IdsUnique'
  BY <1>1, StoreFewer
<1>6. WalkInTime' /\ BodiesKept' /\ FilesKept'
  BY <1>1 DEF StoreInv, WalkInTime, BodiesKept, FilesKept, Store!BodyPresent,
     Store!AttachmentsBacked, Store!Hashes, Store!HasRow
<1>7. IndexKept'
  BY <1>1, BodiesOf DEF StoreInv, IndexKept, Store!HasRow
<1> QED BY <1>4, <1>5, <1>6, <1>7 DEF StoreInv

LEMMA StoreGetActiveFilePaths ==
    ASSUME StoreInv, Store!GetActiveFilePaths
    PROVE  StoreInv'
<1>1. /\ server = "down" /\ gc' = Store!ActivePaths
      /\ UNCHANGED <<gmail, rows, bodies, files, atts, index, next, ingest, purge, reset, server,
                     doomed, cut, faults, torn>>
  BY DEF Store!GetActiveFilePaths, Store!disk
<1>2. StoreShape'
  BY <1>1 DEF StoreInv, StoreShape
<1>3. IdsUnique'
  BY <1>1, StoreFewer
<1>4. WalkInTime'
  BY <1>1 DEF WalkInTime, Store!ActivePaths, Store!Bodies, Store!Hashes
<1>5. BodiesKept' /\ FilesKept' /\ IndexKept'
  BY <1>1 DEF StoreInv, BodiesKept, FilesKept, Store!BodyPresent, IndexKept,
     Store!AttachmentsBacked, Store!Hashes, Store!HasRow
<1> QED BY <1>2, <1>3, <1>4, <1>5 DEF StoreInv

LEMMA StoreWalk ==
    ASSUME StoreInv, Store!Walk
    PROVE  StoreInv'
<1>1. /\ StoreShape /\ server = "down" /\ ingest = Store!Idle /\ ingest.pc = "idle"
      /\ gc'.pc = "idle"
      /\ bodies' = bodies \cap Store!Bodies(rows) /\ files' = files \cap Store!Hashes(atts)
      /\ UNCHANGED <<gmail, rows, atts, index, next, ingest, purge, reset, server, doomed, cut,
                     faults, torn>>
  BY DEF StoreInv, WalkInTime, StoreShape, Store!Walk, Store!Idle
<1>2. StoreShape'
  BY <1>1 DEF StoreShape
<1>3. IdsUnique'
  BY <1>1, StoreFewer
<1>4. BodiesKept'
  BY <1>1, BodiesOf DEF StoreInv, BodiesKept, Store!BodyPresent, Store!HasRow
<1>5. FilesKept'
  BY <1>1 DEF StoreInv, FilesKept, Store!AttachmentsBacked, Store!Hashes
<1>6. WalkInTime' /\ IndexKept'
  BY <1>1 DEF StoreInv, WalkInTime, IndexKept, Store!HasRow
<1> QED BY <1>2, <1>3, <1>4, <1>5, <1>6 DEF StoreInv

LEMMA StoreNext == StoreInv /\ Store!Next => StoreInv'
<1> SUFFICES ASSUME StoreInv, Store!Next PROVE StoreInv'
  OBVIOUS
<1>1. CASE \E m \in Msg : Store!WriteBody(m) \/ Store!PurgeFile(m) \/ Store!DeleteEmail(m)
  BY <1>1, StoreWriteBody, StorePurgeFile, StoreDeleteEmail
<1>2. CASE \/ Store!SkipDuplicate \/ Store!SaveEmail \/ Store!SaveFile \/ Store!SaveAttachment
           \/ Store!SetFlag \/ Store!RunRules \/ Store!HandleDelete \/ Store!StoreIndex
  BY <1>2, StoreSkipDuplicate, StoreSaveEmail, StoreSaveFile, StoreSaveAttachment, StoreSetFlag,
     StoreRunRules, StoreHandleDelete, StoreStoreIndex
<1>3. CASE Store!PurgeRow \/ Store!ResetFiles \/ Store!ResetRows
  BY <1>3, StorePurgeRow, StoreResetFiles, StoreResetRows
<1>4. CASE Store!Crash \/ Store!ShutDown \/ Store!Start \/ Store!GetActiveFilePaths \/ Store!Walk
  BY <1>4, StoreCrash, StoreShutDown, StoreStart, StoreGetActiveFilePaths, StoreWalk
<1> QED BY <1>1, <1>2, <1>3, <1>4 DEF Store!Next

LEMMA StoreStutters == StoreInv /\ UNCHANGED store => StoreInv'
<1> SUFFICES ASSUME StoreInv, UNCHANGED store PROVE StoreInv'
  OBVIOUS
<1>1. UNCHANGED <<gmail, rows, bodies, atts, files, index, next, ingest, purge, reset, gc, server,
                  doomed, cut, faults, torn>>
  BY DEF store
<1>2. StoreShape'
  BY <1>1 DEF StoreInv, StoreShape
<1>3. IdsUnique' /\ WalkInTime' /\ IndexKept'
  BY <1>1 DEF StoreInv, IdsUnique, WalkInTime, IndexKept, Store!HasRow, Store!Bodies, Store!Hashes
<1>4. BodiesKept' /\ FilesKept'
  BY <1>1 DEF StoreInv, BodiesKept, FilesKept, Store!BodyPresent, Store!AttachmentsBacked,
     Store!HasRow, Store!Hashes
<1> QED BY <1>2, <1>3, <1>4 DEF StoreInv

LEMMA StoreAlways == MCSpec => []StoreInv
<1>1. MCInit => StoreInv
  BY StoreInit DEF MCInit
<1>2. StoreInv /\ [MCNext]_requests => StoreInv'
  <2> SUFFICES ASSUME StoreInv, [MCNext]_requests PROVE StoreInv'
    OBVIOUS
  <2>1. CASE UNCHANGED store
    BY <2>1, StoreStutters
  <2>2. CASE Store!Next
    BY <2>2, StoreNext
  <2> QED BY <2>1, <2>2 DEF MCNext, requests
<1> QED BY <1>1, <1>2, PTL DEF MCSpec

(* The body of every message with a row can be read, and every attachment  *)
(* that is known has its file, whatever interrupted the ingests, removals  *)
(* and collections between their steps: only a removal that stopped half   *)
(* way leaves a row without its body, only a reset that met an ingest or   *)
(* was cut off, or the removal of files at shutdown, an attachment without *)
(* its file.                                                               *)
THEOREM RowsAreBacked == MCSpec => []RowsBacked
<1>1. StoreInv => RowsBacked
  BY DEF StoreInv, BodiesKept, FilesKept, RowsBacked, Store!RowsBacked
<1> QED BY <1>1, StoreAlways, PTL

(* The words of a message are in the index once its ingest is over, unless *)
(* an ingest of it ended early.                                            *)
THEOREM MessagesAreIndexed == MCSpec => []Indexed
<1>1. StoreInv => Store!Indexed
  BY DEF StoreInv, IndexKept, Store!Indexed
<1>2. StoreInv => Indexed
  BY <1>1 DEF Indexed
<1> QED BY <1>2, StoreAlways, PTL

-----------------------------------------------------------------------------
(* Passwords and keys.                                                     *)

KeyLists == {<<1>>, <<2, 1>>, <<2>>}

LEMMA KeysOf ==
    /\ \A k : Accounts!Decrypts(k, <<1>>) <=> k = 1
    /\ \A k : Accounts!Decrypts(k, <<2, 1>>) <=> k \in {1, 2}
    /\ \A k : Accounts!Decrypts(k, <<2>>) <=> k = 2
    /\ <<1>>[1] = 1 /\ <<2, 1>>[1] = 2 /\ <<2>>[1] = 2
    /\ <<1>> # <<2, 1>> /\ <<1>> # <<2>> /\ <<2, 1>> # <<2>>
BY DEF Accounts!Decrypts

LEMMA SecretsBounds == MaxPassword \in Nat \ {0} /\ MaxRequests \in Nat /\ MaxFaults \in Nat
BY RequestsAssumption DEF RequestsAssumption, Accounts!CredentialsAssumption

LoginSteps == {"idle", "lookup", "list", "create", "restore", "refresh", "cache", "insert",
               "update"}
AccountRow == [status : {"none", "active", "deleted"},
        secret : Accounts!Secret \cup {Accounts!NoSecret}]
LoginState == [pc : LoginSteps, pw : 0 .. MaxPassword, ok : BOOLEAN]
Rekey == [pc : {"idle", "accounts", "keys", "done"},
          secret : Accounts!Secret \cup {Accounts!NoSecret}, mcp : 0 .. 2]

SecretsShape ==
    /\ provider \in Accounts!Password
    /\ credentials \in AccountRow
    /\ credentials.status = "none" <=> credentials.secret = Accounts!NoSecret
    /\ hash \in 0 .. MaxPassword /\ mcp \in 0 .. 2
    /\ login \in [Login -> LoginState]
    /\ \A l \in Login : login[l].pc # "idle" => login[l].pw \in Accounts!Password
    /\ rekey \in Rekey
    /\ env \in KeyLists /\ config \in KeyLists
    /\ careful \in BOOLEAN /\ skipped \in BOOLEAN
    /\ confirmed \in 0 .. MaxPassword

(* How far the rotation is tells which keys are in the list; what RekeyAll *)
(* is about to write has the new one, and a row to go to.                  *)
Phases ==
    /\ rekey.pc \in {"accounts", "keys"} => env = <<2, 1>>
    /\ env = <<2>> => rekey.pc = "done"
    /\ rekey.pc # "idle" => env # <<1>>
    /\ careful => config = env
    /\ rekey.secret # Accounts!NoSecret =>
           rekey.secret.key = 2 /\ credentials.status # "none"
    /\ rekey.mcp \in {0, 2}

(* Until the list has the new key everything is encrypted with the old     *)
(* one; once a table is written back, everything in it with the new one.   *)
KeysInTime ==
    careful /\ ~skipped =>
        /\ env = <<1>> => credentials.secret.key \in {0, 1} /\ mcp \in {0, 1}
        /\ rekey.pc = "accounts" /\ credentials.status # "none" =>
               rekey.secret.key = 2 \/ credentials.secret.key = 2
        /\ rekey.pc \in {"keys", "done"} /\ credentials.status # "none" =>
               credentials.secret.key = 2
        /\ rekey.pc = "keys" => mcp \in {0, 2} \/ rekey.mcp = 2
        /\ rekey.pc = "done" => mcp \in {0, 2}

(* An undisturbed login is alone, and what it has stored is still there.   *)
Undisturbed ==
    \A l \in Login : login[l].ok =>
        /\ login[l].pc # "idle"
        /\ rekey.pc \in {"idle", "done"} /\ confirmed = 0
        /\ \A o \in Login \ {l} : login[o].pc = "idle"
        /\ login[l].pc = "insert" => hash = 0
        /\ login[l].pc \in {"cache", "insert", "update"} /\ credentials.status = "active" =>
               credentials.secret.pw = login[l].pw

(* So is the password of a login that is confirmed; RekeyAll writes no     *)
(* other.                                                                  *)
Confirmed ==
    confirmed # 0 =>
        /\ \A l \in Login : login[l].pc = "idle"
        /\ hash = confirmed
        /\ credentials.status = "active" => credentials.secret.pw = confirmed
        /\ rekey.pc = "accounts" /\ credentials.status = "active" =>
               rekey.secret = Accounts!NoSecret \/ rekey.secret.pw = confirmed

SecretsInv == SecretsShape /\ Phases /\ KeysInTime /\ Undisturbed /\ Confirmed

LEMMA SecretsInit == Accounts!Init => SecretsInv
<1> SUFFICES ASSUME Accounts!Init PROVE SecretsInv
  OBVIOUS
<1>1. /\ credentials = [status |-> "none", secret |-> Accounts!NoSecret]
      /\ login = [l \in Login |-> Accounts!Done]
      /\ rekey = [pc |-> "idle", secret |-> Accounts!NoSecret, mcp |-> 0]
      /\ env = <<1>> /\ config = <<1>> /\ provider = 1 /\ hash = 0 /\ mcp = 0
      /\ careful \in BOOLEAN /\ skipped = FALSE /\ confirmed = 0
  BY DEF Accounts!Init
<1>2. /\ credentials.status = "none" /\ credentials.secret = Accounts!NoSecret
      /\ credentials.secret.key = 0 /\ rekey.pc = "idle"
      /\ \A l \in Login : login[l].pc = "idle" /\ ~login[l].ok
  BY <1>1 DEF Accounts!NoSecret, Accounts!Done
<1>3. SecretsShape
  <2>1. credentials \in AccountRow /\ rekey \in Rekey
    BY <1>1 DEF AccountRow, Rekey
  <2>2. login \in [Login -> LoginState]
    BY <1>1, SecretsBounds DEF Accounts!Done, LoginState, LoginSteps
  <2>3. provider \in Accounts!Password /\ hash \in 0 .. MaxPassword /\ confirmed \in 0 .. MaxPassword
    BY <1>1, SecretsBounds DEF Accounts!Password
  <2>4. env \in KeyLists /\ config \in KeyLists
    BY <1>1 DEF KeyLists
  <2>5. /\ mcp \in 0 .. 2
        /\ careful \in BOOLEAN
        /\ skipped \in BOOLEAN
    <3>1. mcp \in 0 .. 2
      BY <1>1
    <3>2. careful \in BOOLEAN /\ skipped \in BOOLEAN
      BY <1>1, Zenon
    <3> QED BY <3>1, <3>2
  <2>6. credentials.status = "none" <=> credentials.secret = Accounts!NoSecret
    BY <1>2
  <2> QED BY <1>2, <2>1, <2>2, <2>3, <2>4, <2>5, <2>6 DEF SecretsShape
<1>4. Phases /\ KeysInTime
  <2>1. rekey.secret = Accounts!NoSecret /\ rekey.mcp = 0
    BY <1>1
  <2> QED BY <1>1, <1>2, <2>1, KeysOf DEF Phases, KeysInTime
<1>5. Undisturbed /\ Confirmed
  BY <1>1, <1>2 DEF Undisturbed, Confirmed
<1> QED BY <1>3, <1>4, <1>5 DEF SecretsInv

LEMMA LoginFields ==
    ASSUME SecretsInv, NEW l \in Login
    PROVE  /\ login[l] \in LoginState /\ login[l].pc \in LoginSteps
           /\ login[l].pw \in 0 .. MaxPassword /\ login[l].ok \in BOOLEAN
           /\ login[l].pc # "idle" => login[l].pw \in Accounts!Password /\ confirmed = 0
BY DEF SecretsInv, SecretsShape, LoginState, Confirmed

LEMMA AccountFields ==
    ASSUME SecretsInv
    PROVE  /\ credentials \in AccountRow
           /\ credentials.status \in {"none", "active", "deleted"}
           /\ credentials.secret \in Accounts!Secret \cup {Accounts!NoSecret}
           /\ credentials.status # "none" =>
                 /\ credentials.secret \in Accounts!Secret
                 /\ credentials.secret.key \in {1, 2}
                 /\ credentials.secret.pw \in Accounts!Password
<1>1. /\ credentials \in AccountRow
      /\ credentials.status = "none" <=> credentials.secret = Accounts!NoSecret
  BY DEF SecretsInv, SecretsShape
<1>2. \A s \in Accounts!Secret : s.key \in {1, 2} /\ s.pw \in Accounts!Password
  BY DEF Accounts!Secret, Accounts!Key
<1> QED BY <1>1, <1>2 DEF AccountRow

(* A password that is encrypted has the key that is written now.           *)
LEMMA Encrypted ==
    ASSUME SecretsInv, NEW pw \in Accounts!Password
    PROVE  /\ Accounts!Encrypt(pw, config) \in Accounts!Secret
           /\ Accounts!Encrypt(pw, config) # Accounts!NoSecret
           /\ Accounts!Encrypt(pw, config).pw = pw
           /\ Accounts!Encrypt(pw, config).key \in {1, 2}
           /\ careful => Accounts!Encrypt(pw, config).key = IF env = <<1>> THEN 1 ELSE 2
<1>1. config \in KeyLists /\ env \in KeyLists /\ (careful => config = env)
  BY DEF SecretsInv, SecretsShape, Phases
<1>2. config[1] \in {1, 2} /\ (config = env => config[1] = IF env = <<1>> THEN 1 ELSE 2)
  BY <1>1, KeysOf DEF KeyLists
<1>3. Accounts!Encrypt(pw, config) = [pw |-> pw, key |-> config[1]]
  BY DEF Accounts!Encrypt
<1>4. pw \in Nat /\ pw # 0
  BY SecretsBounds DEF Accounts!Password
<1> QED BY <1>1, <1>2, <1>3, <1>4 DEF Accounts!Secret, Accounts!Key, Accounts!NoSecret

(* An account gets a password.                                             *)
LEMMA NewSecret ==
    ASSUME SecretsInv, NEW pw \in Accounts!Password,
           \/ credentials' = [status |-> "active", secret |-> Accounts!Encrypt(pw, config)]
           \/ /\ credentials.status = "active"
              /\ credentials' = [credentials EXCEPT !.secret = Accounts!Encrypt(pw, config)],
           UNCHANGED <<mcp, rekey, env, config, careful, skipped>>
    PROVE  /\ credentials' \in AccountRow /\ credentials'.status = "active"
           /\ credentials'.secret.pw = pw /\ credentials'.secret # Accounts!NoSecret
           /\ KeysInTime'
<1> DEFINE s == Accounts!Encrypt(pw, config)
<1>1. /\ s \in Accounts!Secret /\ s # Accounts!NoSecret /\ s.pw = pw /\ s.key \in {1, 2}
      /\ careful => s.key = IF env = <<1>> THEN 1 ELSE 2
  BY Encrypted
<1> HIDE DEF s
<1>2. credentials' \in AccountRow /\ credentials'.status = "active" /\ credentials'.secret = s
  <2>1. CASE credentials' = [status |-> "active", secret |-> s]
    BY <1>1, <2>1 DEF AccountRow
  <2>2. CASE /\ credentials.status = "active"
             /\ credentials' = [credentials EXCEPT !.secret = s]
    BY <1>1, <2>2, AccountFields DEF AccountRow
  <2> QED BY <2>1, <2>2 DEF s
<1>3. rekey.pc # "idle" => env # <<1>>
  BY DEF SecretsInv, Phases
<1>4. KeysInTime'
  <2> SUFFICES ASSUME careful, ~skipped
               PROVE  /\ env = <<1>> => credentials'.secret.key \in {0, 1} /\ mcp \in {0, 1}
                      /\ rekey.pc = "accounts" /\ credentials'.status # "none" =>
                             rekey.secret.key = 2 \/ credentials'.secret.key = 2
                      /\ rekey.pc \in {"keys", "done"} /\ credentials'.status # "none" =>
                             credentials'.secret.key = 2
                      /\ rekey.pc = "keys" => mcp \in {0, 2} \/ rekey.mcp = 2
                      /\ rekey.pc = "done" => mcp \in {0, 2}
    BY DEF KeysInTime
  <2>1. /\ env = <<1>> => mcp \in {0, 1}
        /\ rekey.pc = "keys" => mcp \in {0, 2} \/ rekey.mcp = 2
        /\ rekey.pc = "done" => mcp \in {0, 2}
    BY DEF SecretsInv, KeysInTime
  <2> QED BY <1>1, <1>2, <1>3, <2>1
<1> QED BY <1>1, <1>2, <1>4

(* A step of a login that has begun.                                       *)
LEMMA LoginGoes ==
    ASSUME SecretsInv, NEW l \in Login, login[l].pc # "idle",
           NEW s \in LoginState, login' = [login EXCEPT ![l] = s],
           s.pc # "idle" => s.pw \in Accounts!Password,
           credentials' \in AccountRow,
           credentials'.status = "none" <=> credentials'.secret = Accounts!NoSecret,
           credentials.status # "none" => credentials'.status # "none",
           KeysInTime', hash' \in 0 .. MaxPassword,
           UNCHANGED <<provider, mcp, rekey, env, config, careful, skipped>>,
           s.ok => /\ login[l].ok /\ s.pc # "idle" /\ confirmed' = 0
                   /\ s.pc = "insert" => hash' = 0
                   /\ s.pc \in {"cache", "insert", "update"} /\ credentials'.status = "active" =>
                          credentials'.secret.pw = s.pw,
           \/ confirmed' = 0
           \/ /\ confirmed' = login[l].pw /\ login[l].ok /\ s.pc = "idle"
              /\ hash' = login[l].pw
              /\ credentials'.status = "active" => credentials'.secret.pw = login[l].pw
    PROVE  SecretsInv'
<1>1. /\ login[l] \in LoginState /\ login[l].pw \in 0 .. MaxPassword /\ confirmed = 0
  BY LoginFields
<1>2. /\ login' \in [Login -> LoginState] /\ login'[l] = s
      /\ \A o \in Login : o # l => login'[o] = login[o]
  BY DEF SecretsInv, SecretsShape
<1>3. SecretsShape'
  <2>1. \A o \in Login : login'[o].pc # "idle" => login'[o].pw \in Accounts!Password
    BY <1>2 DEF SecretsInv, SecretsShape
  <2>2. confirmed' \in 0 .. MaxPassword
    BY <1>1, SecretsBounds
  <2> QED BY <1>2, <2>1, <2>2 DEF SecretsInv, SecretsShape
<1>4. Phases'
  BY DEF SecretsInv, Phases
<1>5. Undisturbed'
  <2> SUFFICES ASSUME NEW o \in Login, login'[o].ok
               PROVE  /\ login'[o].pc # "idle"
                      /\ rekey.pc \in {"idle", "done"} /\ confirmed' = 0
                      /\ \A q \in Login \ {o} : login'[q].pc = "idle"
                      /\ login'[o].pc = "insert" => hash' = 0
                      /\ /\ login'[o].pc \in {"cache", "insert", "update"}
                         /\ credentials'.status = "active"
                         => credentials'.secret.pw = login'[o].pw
    BY DEF Undisturbed
  <2>1. CASE o = l
    <3>1. /\ rekey.pc \in {"idle", "done"}
          /\ \A q \in Login \ {l} : login[q].pc = "idle"
      BY <1>2, <2>1 DEF SecretsInv, Undisturbed
    <3> QED BY <1>2, <2>1, <3>1
  <2>2. CASE o # l
    <3>1. login[o].ok /\ login[l].pc = "idle"
      BY <1>2, <2>2 DEF SecretsInv, Undisturbed
    <3> QED BY <3>1
  <2> QED BY <2>1, <2>2
<1>6. Confirmed'
  <2> SUFFICES ASSUME confirmed' # 0 PROVE Confirmed'
    BY DEF Confirmed
  <2>1. /\ confirmed' = login[l].pw /\ login[l].ok /\ s.pc = "idle"
        /\ hash' = login[l].pw
        /\ credentials'.status = "active" => credentials'.secret.pw = login[l].pw
    OBVIOUS
  <2>2. /\ rekey.pc \in {"idle", "done"}
        /\ \A q \in Login \ {l} : login[q].pc = "idle"
    BY <2>1 DEF SecretsInv, Undisturbed
  <2>3. \A q \in Login : login'[q].pc = "idle"
    BY <1>2, <2>1, <2>2
  <2> QED BY <2>1, <2>2, <2>3 DEF Confirmed
<1> QED BY <1>3, <1>4, <1>5, <1>6 DEF SecretsInv

LEMMA DoneState == /\ Accounts!Done \in LoginState /\ Accounts!Done.pc = "idle"
                   /\ ~Accounts!Done.ok
BY SecretsBounds DEF Accounts!Done, LoginState, LoginSteps

(* A login at another step, with the same password.                        *)
LEMMA StepState ==
    ASSUME SecretsInv, NEW l \in Login, NEW pc \in LoginSteps
    PROVE  LET s == [login[l] EXCEPT !.pc = pc]
           IN s \in LoginState /\ s.pc = pc /\ s.pw = login[l].pw /\ s.ok = login[l].ok
BY LoginFields DEF LoginState

(* What the credentials say when a step leaves them alone.                 *)
LEMMA SameCredentials ==
    ASSUME SecretsInv,
           UNCHANGED <<provider, credentials, mcp, rekey, env, config, careful, skipped>>
    PROVE  /\ credentials' \in AccountRow
           /\ credentials'.status = "none" <=> credentials'.secret = Accounts!NoSecret
           /\ credentials.status # "none" => credentials'.status # "none"
           /\ KeysInTime'
BY DEF SecretsInv, SecretsShape, KeysInTime

LEMMA SecretsLookup ==
    ASSUME SecretsInv, NEW l \in Login, Accounts!Lookup(l)
    PROVE  SecretsInv'
<1> DEFINE pc == IF ~Accounts!Readable THEN "list"
                 ELSE IF credentials.secret.pw # login[l].pw THEN "refresh" ELSE "cache"
           s == [login[l] EXCEPT !.pc = pc]
<1>1. /\ login[l].pc = "lookup" /\ login' = [login EXCEPT ![l] = s]
      /\ UNCHANGED <<provider, credentials, hash, mcp, rekey, env, config, careful, skipped, confirmed,
                     spent>>
  BY DEF Accounts!Lookup, Accounts!Goto, Accounts!Set, Accounts!stored, Accounts!keys
<1>2. pc \in {"list", "refresh", "cache"} /\ pc \in LoginSteps
  BY DEF LoginSteps
<1>3. s \in LoginState /\ s.pc = pc /\ s.pw = login[l].pw /\ s.ok = login[l].ok
  BY <1>2, StepState
<1>4. pc = "cache" => credentials.secret.pw = login[l].pw
  OBVIOUS
<1>5. /\ login[l].pw \in Accounts!Password /\ confirmed = 0 /\ hash' \in 0 .. MaxPassword
  BY <1>1, LoginFields DEF SecretsInv, SecretsShape
<1> HIDE DEF s, pc
<1> QED BY <1>1, <1>2, <1>3, <1>4, <1>5, SameCredentials, LoginGoes

LEMMA SecretsGetAccounts ==
    ASSUME SecretsInv, NEW l \in Login, Accounts!GetAccounts(l)
    PROVE  SecretsInv'
<1> DEFINE pc == IF credentials.status = "active" THEN "restore" ELSE "create"
           s == [login[l] EXCEPT !.pc = pc]
<1>1. /\ login[l].pc = "list" /\ login' = [login EXCEPT ![l] = s]
      /\ UNCHANGED <<provider, credentials, hash, mcp, rekey, env, config, careful, skipped, confirmed,
                     spent>>
  BY DEF Accounts!GetAccounts, Accounts!Goto, Accounts!Set, Accounts!stored, Accounts!keys
<1>2. pc \in {"restore", "create"} /\ pc \in LoginSteps
  BY DEF LoginSteps
<1>3. s \in LoginState /\ s.pc = pc /\ s.pw = login[l].pw /\ s.ok = login[l].ok
  BY <1>2, StepState
<1>4. /\ login[l].pw \in Accounts!Password /\ confirmed = 0 /\ hash' \in 0 .. MaxPassword
  BY <1>1, LoginFields DEF SecretsInv, SecretsShape
<1> HIDE DEF s, pc
<1> QED BY <1>1, <1>2, <1>3, <1>4, SameCredentials, LoginGoes

(* A login that fails is not confirmed.                                    *)
LEMMA LoginFails ==
    ASSUME SecretsInv, NEW l \in Login, login[l].pc # "idle", Accounts!End(l, FALSE),
           UNCHANGED <<provider, credentials, hash, mcp, rekey, env, config, careful, skipped>>
    PROVE  SecretsInv'
<1>1. /\ login' = [login EXCEPT ![l] = Accounts!Done] /\ confirmed' = 0
      /\ hash' \in 0 .. MaxPassword
  BY DEF Accounts!End, Accounts!Set, SecretsInv, SecretsShape
<1> QED BY <1>1, DoneState, SameCredentials, LoginGoes

LEMMA SecretsCreateAccount ==
    ASSUME SecretsInv, NEW l \in Login, Accounts!CreateAccount(l)
    PROVE  SecretsInv'
<1>1. /\ login[l].pc = "create"
      /\ UNCHANGED <<provider, hash, mcp, rekey, env, config, careful, skipped>>
  BY DEF Accounts!CreateAccount, Accounts!keys
<1>2. CASE /\ credentials' = [status |-> "active",
                              secret |-> Accounts!Encrypt(login[l].pw, config)]
           /\ Accounts!Goto(l, "cache")
           /\ confirmed' = confirmed
  <2> DEFINE s == [login[l] EXCEPT !.pc = "cache"]
  <2>1. login' = [login EXCEPT ![l] = s]
    BY <1>2 DEF Accounts!Goto, Accounts!Set
  <2>2. s \in LoginState /\ s.pc = "cache" /\ s.pw = login[l].pw /\ s.ok = login[l].ok
    BY StepState DEF LoginSteps
  <2>3. /\ login[l].pw \in Accounts!Password /\ confirmed = 0 /\ hash' \in 0 .. MaxPassword
    BY <1>1, LoginFields DEF SecretsInv, SecretsShape
  <2>4. /\ credentials' \in AccountRow /\ credentials'.status = "active"
        /\ credentials'.secret.pw = login[l].pw /\ credentials'.secret # Accounts!NoSecret
        /\ KeysInTime'
    BY <1>1, <1>2, <2>3, NewSecret
  <2> HIDE DEF s
  <2> QED BY <1>1, <1>2, <2>1, <2>2, <2>3, <2>4, LoginGoes
<1>3. CASE Accounts!End(l, FALSE) /\ UNCHANGED credentials
  BY <1>1, <1>3, LoginFails
<1> QED BY <1>2, <1>3 DEF Accounts!CreateAccount

(* A password that is written, to an account that is not deleted.          *)
LEMMA UpdatedAccount ==
    ASSUME SecretsInv, NEW pw \in Accounts!Password, credentials' = Accounts!Updated(pw),
           UNCHANGED <<provider, mcp, rekey, env, config, careful, skipped>>
    PROVE  /\ credentials' \in AccountRow
           /\ credentials'.status = "none" <=> credentials'.secret = Accounts!NoSecret
           /\ credentials.status # "none" => credentials'.status # "none"
           /\ credentials'.status = "active" => credentials'.secret.pw = pw
           /\ KeysInTime'
<1>1. CASE credentials.status = "active"
  <2>1. credentials' = [credentials EXCEPT !.secret = Accounts!Encrypt(pw, config)]
    BY <1>1 DEF Accounts!Updated
  <2> QED BY <1>1, <2>1, NewSecret
<1>2. CASE credentials.status # "active"
  <2>1. credentials' = credentials
    BY <1>2 DEF Accounts!Updated
  <2> QED BY <1>2, <2>1, SameCredentials
<1> QED BY <1>1, <1>2

LEMMA SecretsUpdateAccount ==
    ASSUME SecretsInv, NEW l \in Login, Accounts!UpdateAccount(l)
    PROVE  SecretsInv'
<1>1. /\ login[l].pc \in {"restore", "refresh"}
      /\ UNCHANGED <<provider, hash, mcp, rekey, env, config, careful, skipped>>
  BY DEF Accounts!UpdateAccount, Accounts!keys
<1>2. /\ login[l].pw \in Accounts!Password /\ confirmed = 0 /\ hash' \in 0 .. MaxPassword
  BY <1>1, LoginFields DEF SecretsInv, SecretsShape
<1>3. CASE /\ credentials' = Accounts!Updated(login[l].pw) /\ Accounts!Goto(l, "cache")
           /\ confirmed' = confirmed
  <2> DEFINE s == [login[l] EXCEPT !.pc = "cache"]
  <2>1. login' = [login EXCEPT ![l] = s]
    BY <1>3 DEF Accounts!Goto, Accounts!Set
  <2>2. s \in LoginState /\ s.pc = "cache" /\ s.pw = login[l].pw /\ s.ok = login[l].ok
    BY StepState DEF LoginSteps
  <2> HIDE DEF s
  <2> QED BY <1>1, <1>2, <1>3, <2>1, <2>2, UpdatedAccount, LoginGoes
<1>4. CASE credentials' = credentials /\ Accounts!End(l, FALSE)
  BY <1>1, <1>4, LoginFails
<1>5. CASE /\ credentials' = credentials
           /\ Accounts!Set(l, [login[l] EXCEPT !.pc = "cache", !.ok = FALSE])
           /\ confirmed' = confirmed
  <2> DEFINE s == [login[l] EXCEPT !.pc = "cache", !.ok = FALSE]
  <2>1. login' = [login EXCEPT ![l] = s]
    BY <1>5 DEF Accounts!Set
  <2>2. s \in LoginState /\ s.pc = "cache" /\ s.pw = login[l].pw /\ ~s.ok
    BY LoginFields DEF LoginState, LoginSteps
  <2> HIDE DEF s
  <2> QED BY <1>1, <1>2, <1>5, <2>1, <2>2, SameCredentials, LoginGoes
<1> QED BY <1>3, <1>4, <1>5 DEF Accounts!UpdateAccount

LEMMA SecretsGetAdmin ==
    ASSUME SecretsInv, NEW l \in Login, Accounts!GetAdmin(l)
    PROVE  SecretsInv'
<1> DEFINE pc == IF hash = 0 THEN "insert" ELSE "update"
           s == [login[l] EXCEPT !.pc = pc]
<1>1. /\ login[l].pc = "cache"
      /\ UNCHANGED <<provider, credentials, hash, mcp, rekey, env, config, careful, skipped>>
  BY DEF Accounts!GetAdmin, Accounts!stored, Accounts!keys
<1>2. CASE Accounts!End(l, FALSE)
  BY <1>1, <1>2, LoginFails
<1>3. CASE Accounts!Goto(l, pc) /\ confirmed' = confirmed
  <2>1. login' = [login EXCEPT ![l] = s]
    BY <1>3 DEF Accounts!Goto, Accounts!Set
  <2>2. pc \in {"insert", "update"} /\ pc \in LoginSteps /\ (pc = "insert" => hash = 0)
    BY DEF LoginSteps
  <2>3. s \in LoginState /\ s.pc = pc /\ s.pw = login[l].pw /\ s.ok = login[l].ok
    BY <2>2, StepState
  <2>4. /\ login[l].pw \in Accounts!Password /\ confirmed = 0 /\ hash' \in 0 .. MaxPassword
    BY <1>1, LoginFields DEF SecretsInv, SecretsShape
  <2>5. login[l].ok /\ credentials.status = "active" => credentials.secret.pw = login[l].pw
    BY <1>1 DEF SecretsInv, Undisturbed
  <2> HIDE DEF s, pc
  <2> QED BY <1>1, <1>3, <2>1, <2>2, <2>3, <2>4, <2>5, SameCredentials, LoginGoes
<1> QED BY <1>2, <1>3 DEF Accounts!GetAdmin

LEMMA SecretsCacheMonoLoginPassword ==
    ASSUME SecretsInv, NEW l \in Login, Accounts!CacheMonoLoginPassword(l)
    PROVE  SecretsInv'
<1>1. /\ login[l].pc \in {"insert", "update"}
      /\ UNCHANGED <<provider, credentials, mcp, rekey, env, config, careful, skipped>>
  BY DEF Accounts!CacheMonoLoginPassword, Accounts!keys
<1>2. CASE Accounts!End(l, FALSE) /\ hash' = hash
  BY <1>1, <1>2, LoginFails
<1>3. CASE /\ IF login[l].pc = "insert" /\ hash # 0 THEN hash' = hash ELSE hash' = login[l].pw
           /\ Accounts!End(l, TRUE)
  <2>1. /\ login' = [login EXCEPT ![l] = Accounts!Done]
        /\ login[l].ok => confirmed' = login[l].pw
        /\ ~login[l].ok => confirmed' = 0
    BY <1>3 DEF Accounts!End, Accounts!Set
  <2>2. /\ hash \in 0 .. MaxPassword /\ login[l].pw \in 0 .. MaxPassword /\ login[l].ok \in BOOLEAN
    BY LoginFields DEF SecretsInv, SecretsShape
  <2>3. login[l].ok => /\ login[l].pc = "insert" => hash = 0
                       /\ credentials.status = "active" => credentials.secret.pw = login[l].pw
    BY <1>1 DEF SecretsInv, Undisturbed
  <2>4. hash' \in 0 .. MaxPassword /\ (login[l].ok => hash' = login[l].pw)
    BY <1>3, <2>2, <2>3
  <2> QED BY <1>1, <2>1, <2>2, <2>3, <2>4, DoneState, SameCredentials, LoginGoes
<1> QED BY <1>2, <1>3 DEF Accounts!CacheMonoLoginPassword

(* The key that is written is one that can be read.                        *)
LEMMA FirstKey ==
    ASSUME SecretsInv
    PROVE  /\ config[1] \in {1, 2}
           /\ careful => config[1] = IF env = <<1>> THEN 1 ELSE 2
<1>1. config \in KeyLists /\ env \in KeyLists /\ (careful => config = env)
  BY DEF SecretsInv, SecretsShape, Phases
<1> QED BY <1>1, KeysOf DEF KeyLists

(* Logins that are disturbed go on.                                        *)
LEMMA LoginsDisturbed ==
    ASSUME SecretsInv, login' = [l \in Login |-> [login[l] EXCEPT !.ok = FALSE]]
    PROVE  /\ login' \in [Login -> LoginState]
           /\ \A l \in Login : login'[l].pc # "idle" => login'[l].pw \in Accounts!Password
           /\ \A l \in Login : ~login'[l].ok /\ login'[l].pc = login[l].pc
<1>1. \A l \in Login : /\ login[l] \in LoginState
                       /\ login[l].pc # "idle" => login[l].pw \in Accounts!Password
  BY DEF SecretsInv, SecretsShape
<1>2. \A l \in Login : /\ login'[l] \in LoginState /\ ~login'[l].ok
                       /\ login'[l].pc = login[l].pc /\ login'[l].pw = login[l].pw
  BY <1>1 DEF LoginState
<1> QED BY <1>1, <1>2

LEMMA SecretsTryIMAPLogin ==
    ASSUME SecretsInv, NEW l \in Login, Accounts!TryIMAPLogin(l)
    PROVE  SecretsInv'
<1> DEFINE ok == Accounts!Alone(l) /\ ~Accounts!Rekeying
           s == [pc |-> "lookup", pw |-> provider, ok |-> ok]
<1>1. /\ login[l].pc = "idle" /\ confirmed' = 0
      /\ login' = [o \in Login |-> IF o = l THEN s ELSE [login[o] EXCEPT !.ok = FALSE]]
      /\ UNCHANGED <<provider, credentials, hash, mcp, rekey, env, config, careful, skipped>>
  BY DEF Accounts!TryIMAPLogin, Accounts!stored, Accounts!keys
<1>2. s.pc = "lookup" /\ s.pw = provider /\ s.ok = ok
  OBVIOUS
<1>3. provider \in Accounts!Password /\ provider \in 0 .. MaxPassword
  BY SecretsBounds DEF SecretsInv, SecretsShape, Accounts!Password
<1>4. s \in LoginState
  BY <1>3 DEF LoginState, LoginSteps
<1>5. ok => /\ \A o \in Login \ {l} : login[o].pc = "idle"
            /\ rekey.pc \in {"idle", "done"}
  BY DEF Accounts!Alone, Accounts!Rekeying, SecretsInv, SecretsShape, Rekey
<1> HIDE DEF s, ok
<1>6. \A o \in Login : /\ login[o] \in LoginState
                       /\ login[o].pc # "idle" => login[o].pw \in Accounts!Password
  BY DEF SecretsInv, SecretsShape
<1>7. /\ login'[l] = s
      /\ \A o \in Login : o # l => /\ login'[o] \in LoginState /\ ~login'[o].ok
                                   /\ login'[o].pc = login[o].pc /\ login'[o].pw = login[o].pw
  BY <1>1, <1>6 DEF LoginState
<1>8. login' \in [Login -> LoginState]
  BY <1>1, <1>4, <1>7
<1>9. SecretsShape'
  <2>1. \A o \in Login : login'[o].pc # "idle" => login'[o].pw \in Accounts!Password
    BY <1>2, <1>3, <1>6, <1>7
  <2>2. confirmed' \in 0 .. MaxPassword
    BY <1>1, SecretsBounds
  <2> QED BY <1>1, <1>8, <2>1, <2>2 DEF SecretsInv, SecretsShape
<1>10. Phases' /\ KeysInTime'
  BY <1>1 DEF SecretsInv, Phases, KeysInTime
<1>11. Undisturbed'
  BY <1>1, <1>2, <1>5, <1>7 DEF Undisturbed
<1>12. Confirmed'
  BY <1>1 DEF Confirmed
<1> QED BY <1>9, <1>10, <1>11, <1>12 DEF SecretsInv

LEMMA SecretsSaveAccount ==
    ASSUME SecretsInv, Accounts!SaveAccount
    PROVE  SecretsInv'
<1>1. PICK pw \in Accounts!Password : credentials' = Accounts!Updated(pw)
  BY DEF Accounts!SaveAccount
<1>2. /\ login' = [l \in Login |-> [login[l] EXCEPT !.ok = FALSE]] /\ confirmed' = 0
      /\ UNCHANGED <<provider, hash, mcp, rekey, env, config, careful, skipped>>
  BY DEF Accounts!SaveAccount, Accounts!Disturb, Accounts!keys
<1>3. /\ credentials' \in AccountRow
      /\ credentials'.status = "none" <=> credentials'.secret = Accounts!NoSecret
      /\ credentials.status # "none" => credentials'.status # "none"
      /\ KeysInTime'
  BY <1>1, <1>2, UpdatedAccount
<1>4. SecretsShape'
  <2>1. confirmed' \in 0 .. MaxPassword
    BY <1>2, SecretsBounds
  <2> QED BY <1>2, <1>3, <2>1, LoginsDisturbed DEF SecretsInv, SecretsShape
<1>5. Phases'
  BY <1>2, <1>3 DEF SecretsInv, Phases
<1>6. Undisturbed' /\ Confirmed'
  BY <1>2, LoginsDisturbed DEF Undisturbed, Confirmed
<1> QED BY <1>3, <1>4, <1>5, <1>6 DEF SecretsInv

LEMMA SecretsHandleChangePassword ==
    ASSUME SecretsInv, Accounts!HandleChangePassword
    PROVE  SecretsInv'
<1>1. /\ login' = [l \in Login |-> [login[l] EXCEPT !.ok = FALSE]] /\ confirmed' = 0
      /\ hash' \in Accounts!Password
      /\ UNCHANGED <<provider, credentials, mcp, rekey, env, config, careful, skipped>>
  BY DEF Accounts!HandleChangePassword, Accounts!Disturb, Accounts!keys
<1>2. SecretsShape'
  <2>1. confirmed' \in 0 .. MaxPassword /\ hash' \in 0 .. MaxPassword
    BY <1>1, SecretsBounds DEF Accounts!Password
  <2> QED BY <1>1, <2>1, LoginsDisturbed DEF SecretsInv, SecretsShape
<1>3. Phases' /\ KeysInTime'
  BY <1>1 DEF SecretsInv, Phases, KeysInTime
<1>4. Undisturbed' /\ Confirmed'
  BY <1>1, LoginsDisturbed DEF Undisturbed, Confirmed
<1> QED BY <1>2, <1>3, <1>4 DEF SecretsInv

LEMMA SecretsDeleteAccount ==
    ASSUME SecretsInv, Accounts!DeleteAccount
    PROVE  SecretsInv'
<1>1. /\ credentials.status = "active" /\ credentials' = [credentials EXCEPT !.status = "deleted"]
      /\ UNCHANGED <<provider, hash, mcp, login, rekey, env, config, careful, skipped, confirmed>>
  BY DEF Accounts!DeleteAccount, Accounts!keys
<1>2. /\ credentials' \in AccountRow /\ credentials'.status = "deleted"
      /\ credentials'.secret = credentials.secret
  BY <1>1, AccountFields DEF AccountRow
<1>3. SecretsShape'
  BY <1>1, <1>2 DEF SecretsInv, SecretsShape
<1>4. Phases' /\ KeysInTime'
  BY <1>1, <1>2 DEF SecretsInv, Phases, KeysInTime
<1>5. Undisturbed' /\ Confirmed'
  BY <1>1, <1>2 DEF SecretsInv, Undisturbed, Confirmed
<1> QED BY <1>3, <1>4, <1>5 DEF SecretsInv

LEMMA SecretsCreateMCPKey ==
    ASSUME SecretsInv, Accounts!CreateMCPKey
    PROVE  SecretsInv'
<1>1. /\ mcp' = config[1]
      /\ UNCHANGED <<provider, credentials, hash, login, rekey, env, config, careful, skipped, confirmed>>
  BY DEF Accounts!CreateMCPKey, Accounts!keys, Accounts!Encrypt
<1>2. SecretsShape'
  BY <1>1, FirstKey DEF SecretsInv, SecretsShape
<1>3. Phases'
  BY <1>1 DEF SecretsInv, Phases
<1>4. KeysInTime'
  BY <1>1, FirstKey DEF SecretsInv, KeysInTime, Phases
<1>5. Undisturbed' /\ Confirmed'
  BY <1>1 DEF SecretsInv, Undisturbed, Confirmed
<1> QED BY <1>2, <1>3, <1>4, <1>5 DEF SecretsInv

(* The server stops: no login goes on, and none that is confirmed was.     *)
LEMMA SecretsRestart ==
    ASSUME SecretsInv, NEW list \in KeyLists, Accounts!Restart(list), env' = list,
           UNCHANGED <<provider, credentials, hash, mcp, rekey, careful, skipped>>,
           Phases', KeysInTime'
    PROVE  SecretsInv'
<1>1. /\ config' = list /\ login' = [l \in Login |-> Accounts!Done]
      /\ confirmed' \in {0, confirmed}
  BY DEF Accounts!Restart
<1>2. \A l \in Login : login'[l].pc = "idle" /\ ~login'[l].ok
  BY <1>1, DoneState
<1>3. SecretsShape'
  <2>1. login' \in [Login -> LoginState]
    BY <1>1, DoneState
  <2>2. confirmed' \in 0 .. MaxPassword
    BY <1>1, SecretsBounds DEF SecretsInv, SecretsShape
  <2> QED BY <1>1, <1>2, <2>1, <2>2 DEF SecretsInv, SecretsShape
<1>4. Undisturbed' /\ Confirmed'
  BY <1>1, <1>2 DEF SecretsInv, Undisturbed, Confirmed
<1> QED BY <1>3, <1>4 DEF SecretsInv

LEMMA SecretsChangeKeys ==
    ASSUME SecretsInv, NEW list \in KeyLists, Accounts!ChangeKeys(list), Phases', KeysInTime'
    PROVE  SecretsInv'
<1>1. /\ env' = list
      /\ UNCHANGED <<provider, credentials, hash, mcp, rekey, careful, skipped>>
  BY DEF Accounts!ChangeKeys, Accounts!stored
<1>2. CASE careful
  <2>1. Accounts!Restart(list)
    BY <1>2 DEF Accounts!ChangeKeys
  <2> QED BY <1>1, <2>1, SecretsRestart
<1>3. CASE ~careful
  <2>1. UNCHANGED <<config, login, confirmed>>
    BY <1>3 DEF Accounts!ChangeKeys
  <2>2. SecretsShape'
    BY <1>1, <2>1 DEF SecretsInv, SecretsShape
  <2>3. Undisturbed' /\ Confirmed'
    BY <1>1, <2>1 DEF SecretsInv, Undisturbed, Confirmed
  <2> QED BY <2>2, <2>3 DEF SecretsInv
<1> QED BY <1>2, <1>3

(* The list of the server follows that of the environment, if the operator *)
(* restarts it.                                                            *)
LEMMA CarefulKeys ==
    ASSUME SecretsInv, NEW list, Accounts!ChangeKeys(list)
    PROVE  careful => config' = env'
BY DEF Accounts!ChangeKeys, Accounts!Restart

LEMMA SecretsAddKey ==
    ASSUME SecretsInv, Accounts!AddKey
    PROVE  SecretsInv'
<1>1. env = <<1>> /\ Accounts!ChangeKeys(<<2, 1>>)
  BY DEF Accounts!AddKey
<1>2. /\ env' = <<2, 1>> /\ (careful => config' = env')
      /\ UNCHANGED <<provider, credentials, hash, mcp, rekey, careful, skipped>>
  BY <1>1, CarefulKeys DEF Accounts!ChangeKeys, Accounts!stored
<1>3. rekey.pc = "idle"
  BY <1>1 DEF SecretsInv, Phases
<1>4. Phases' /\ KeysInTime'
  BY <1>2, <1>3, KeysOf DEF SecretsInv, Phases, KeysInTime
<1> QED BY <1>1, <1>4, SecretsChangeKeys DEF KeyLists

LEMMA SecretsRemoveKey ==
    ASSUME SecretsInv, Accounts!RemoveKey
    PROVE  SecretsInv'
<1>1. env = <<2, 1>> /\ rekey.pc = "done" /\ Accounts!ChangeKeys(<<2>>)
  BY DEF Accounts!RemoveKey
<1>2. /\ env' = <<2>> /\ (careful => config' = env')
      /\ UNCHANGED <<provider, credentials, hash, mcp, rekey, careful, skipped>>
  BY <1>1, CarefulKeys DEF Accounts!ChangeKeys, Accounts!stored
<1>3. Phases' /\ KeysInTime'
  BY <1>1, <1>2, KeysOf DEF SecretsInv, Phases, KeysInTime
<1> QED BY <1>1, <1>3, SecretsChangeKeys DEF KeyLists

LEMMA SecretsRestartServer ==
    ASSUME SecretsInv, Accounts!RestartServer
    PROVE  SecretsInv'
<1>1. /\ Accounts!Restart(env) /\ env' = env /\ config' = env
      /\ UNCHANGED <<provider, credentials, hash, mcp, rekey, careful, skipped>>
  BY DEF Accounts!RestartServer, Accounts!Restart, Accounts!stored
<1>2. env \in KeyLists
  BY DEF SecretsInv, SecretsShape
<1>3. Phases' /\ KeysInTime'
  BY <1>1 DEF SecretsInv, Phases, KeysInTime
<1> QED BY <1>1, <1>2, <1>3, SecretsRestart

LEMMA SecretsRekeyRead ==
    ASSUME SecretsInv, Accounts!RekeyRead
    PROVE  SecretsInv'
<1> DEFINE read == credentials.status # "none"
                       /\ Accounts!Decrypts(credentials.secret.key, env)
           secret == IF read THEN Accounts!Encrypt(credentials.secret.pw, env)
                     ELSE Accounts!NoSecret
<1>1. /\ rekey.pc = "idle" /\ env[1] = 2
      /\ rekey' = [rekey EXCEPT !.pc = "accounts", !.secret = secret]
      /\ login' = [l \in Login |-> [login[l] EXCEPT !.ok = FALSE]]
      /\ UNCHANGED <<provider, credentials, hash, mcp, env, config, careful, skipped, confirmed>>
  BY DEF Accounts!RekeyRead, Accounts!Latest, Accounts!stored, Accounts!keys
<1>2. env = <<2, 1>>
  BY <1>1, KeysOf DEF SecretsInv, SecretsShape, Phases, KeyLists
<1>3. read <=> credentials.status # "none"
  BY <1>2, KeysOf, AccountFields
<1>4. read => /\ secret \in Accounts!Secret /\ secret.key = 2
              /\ secret.pw = credentials.secret.pw
  <2> SUFFICES ASSUME read
               PROVE  /\ secret \in Accounts!Secret /\ secret.key = 2
                      /\ secret.pw = credentials.secret.pw
    OBVIOUS
  <2>1. credentials.secret.pw \in Accounts!Password
    BY AccountFields
  <2>2. secret = [pw |-> credentials.secret.pw, key |-> 2]
    BY <1>2, KeysOf DEF Accounts!Encrypt
  <2> HIDE DEF secret
  <2> QED BY <2>1, <2>2 DEF Accounts!Secret, Accounts!Key
<1>5. ~read => secret = Accounts!NoSecret
  OBVIOUS
<1> HIDE DEF secret, read
<1>6. rekey \in Rekey
  BY DEF SecretsInv, SecretsShape
<1>7. /\ rekey' \in Rekey /\ rekey'.pc = "accounts" /\ rekey'.secret = secret
      /\ rekey'.mcp = rekey.mcp
  BY <1>1, <1>4, <1>5, <1>6 DEF Rekey
<1>8. SecretsShape'
  BY <1>1, <1>7, LoginsDisturbed DEF SecretsInv, SecretsShape
<1>9. Phases'
  BY <1>1, <1>2, <1>3, <1>4, <1>5, <1>7, KeysOf DEF SecretsInv, Phases
<1>10. KeysInTime'
  BY <1>1, <1>2, <1>3, <1>4, <1>7, KeysOf DEF KeysInTime
<1>11. Undisturbed'
  BY <1>1, LoginsDisturbed DEF Undisturbed
<1>12. Confirmed'
  BY <1>1, <1>3, <1>4, <1>5, <1>7, LoginsDisturbed DEF SecretsInv, Confirmed
<1> QED BY <1>8, <1>9, <1>10, <1>11, <1>12 DEF SecretsInv

LEMMA SecretsRekeyAccounts ==
    ASSUME SecretsInv, Accounts!RekeyAccounts
    PROVE  SecretsInv'
<1> DEFINE key == IF mcp # 0 /\ Accounts!Decrypts(mcp, env) THEN env[1] ELSE 0
<1>1. /\ rekey.pc = "accounts"
      /\ rekey' = [rekey EXCEPT !.pc = "keys", !.mcp = key]
      /\ UNCHANGED <<provider, hash, mcp, login, env, config, careful, confirmed>>
  BY DEF Accounts!RekeyAccounts, Accounts!keys, Accounts!Encrypt
<1>2. env = <<2, 1>> /\ env # <<1>> /\ rekey \in Rekey /\ mcp \in 0 .. 2
  BY <1>1, KeysOf DEF SecretsInv, SecretsShape, Phases
<1>3. key \in {0, 2} /\ (mcp # 0 => key = 2)
  BY <1>2, KeysOf
<1> HIDE DEF key
<1>4. /\ rekey' \in Rekey /\ rekey'.pc = "keys" /\ rekey'.secret = rekey.secret
      /\ rekey'.mcp = key
  <2>1. rekey' = [rekey EXCEPT !.pc = "keys", !.mcp = key] /\ rekey \in Rekey /\ key \in 0 .. 2
    BY <1>1, <1>2, <1>3
  <2> QED BY <2>1 DEF Rekey
<1>5. /\ rekey.secret # Accounts!NoSecret =>
             /\ rekey.secret \in Accounts!Secret /\ rekey.secret.key = 2
             /\ credentials.status # "none"
      /\ rekey.secret = Accounts!NoSecret => rekey.secret.key # 2
  BY <1>2 DEF SecretsInv, Phases, Rekey, Accounts!NoSecret
<1>6. \/ credentials' = Accounts!Rekeyed /\ skipped' = skipped
      \/ credentials' = credentials /\ skipped' = TRUE
  BY DEF Accounts!RekeyAccounts
<1>7. /\ credentials' \in AccountRow /\ credentials'.status = credentials.status
      /\ credentials'.secret \in {credentials.secret, rekey.secret}
      /\ credentials'.status = "none" <=> credentials'.secret = Accounts!NoSecret
      /\ rekey.secret = Accounts!NoSecret => credentials'.secret = credentials.secret
  <2>1. CASE credentials' = credentials
    BY <2>1 DEF SecretsInv, SecretsShape
  <2>2. CASE /\ credentials' = [credentials EXCEPT !.secret = rekey.secret]
             /\ rekey.secret # Accounts!NoSecret
    BY <1>5, <2>2, AccountFields DEF AccountRow
  <2> QED BY <1>6, <2>1, <2>2 DEF Accounts!Rekeyed
<1>8. skipped' \in BOOLEAN
  BY <1>6 DEF SecretsInv, SecretsShape
<1>9. SecretsShape'
  BY <1>1, <1>4, <1>7, <1>8 DEF SecretsInv, SecretsShape
<1>10. Phases'
  BY <1>1, <1>2, <1>3, <1>4, <1>7 DEF SecretsInv, Phases
<1>11. KeysInTime'
  <2> SUFFICES ASSUME careful, ~skipped'
               PROVE  credentials'.status # "none" => credentials'.secret.key = 2
    BY <1>1, <1>2, <1>3, <1>4 DEF KeysInTime
  <2>1. credentials' = Accounts!Rekeyed /\ ~skipped
    BY <1>6
  <2>2. credentials.status # "none" => rekey.secret.key = 2 \/ credentials.secret.key = 2
    BY <1>1, <2>1 DEF SecretsInv, KeysInTime
  <2>3. CASE rekey.secret = Accounts!NoSecret
    BY <1>5, <1>7, <2>2, <2>3
  <2>4. CASE rekey.secret # Accounts!NoSecret
    BY <1>5, <2>1, <2>4, AccountFields DEF Accounts!Rekeyed, AccountRow
  <2> QED BY <2>3, <2>4
<1>12. Undisturbed'
  BY <1>1 DEF SecretsInv, Undisturbed
<1>13. Confirmed'
  BY <1>1, <1>4, <1>7 DEF SecretsInv, Confirmed
<1> QED BY <1>9, <1>10, <1>11, <1>12, <1>13 DEF SecretsInv

LEMMA SecretsRekeyMCPKeys ==
    ASSUME SecretsInv, Accounts!RekeyMCPKeys
    PROVE  SecretsInv'
<1>1. /\ rekey.pc = "keys"
      /\ rekey' = [pc |-> "done", secret |-> Accounts!NoSecret, mcp |-> 0]
      /\ UNCHANGED <<provider, credentials, hash, login, env, config, careful, confirmed>>
      /\ \/ mcp' = (IF rekey.mcp = 0 THEN mcp ELSE rekey.mcp) /\ skipped' = skipped
         \/ skipped' = TRUE /\ mcp' = mcp
  BY DEF Accounts!RekeyMCPKeys, Accounts!keys
<1>2. /\ rekey' \in Rekey /\ rekey'.pc = "done" /\ rekey'.secret = Accounts!NoSecret
      /\ rekey'.mcp = 0
  BY <1>1 DEF Rekey
<1>3. /\ env = <<2, 1>> /\ env # <<1>> /\ env # <<2>> /\ rekey.mcp \in {0, 2} /\ mcp \in 0 .. 2
      /\ skipped \in BOOLEAN
  BY <1>1, KeysOf DEF SecretsInv, SecretsShape, Phases
<1>4. mcp' \in 0 .. 2
  BY <1>1, <1>3
<1>5. skipped' \in BOOLEAN
  BY <1>1, <1>3
<1>6. SecretsShape'
  BY <1>1, <1>2, <1>4, <1>5 DEF SecretsInv, SecretsShape
<1>7. Phases'
  BY <1>1, <1>2, <1>3 DEF SecretsInv, Phases
<1>8. KeysInTime'
  <2> SUFFICES ASSUME careful, ~skipped'
               PROVE  /\ credentials.status # "none" => credentials.secret.key = 2
                      /\ mcp' \in {0, 2}
    BY <1>1, <1>2, <1>3 DEF KeysInTime
  <2>1. ~skipped /\ mcp' = IF rekey.mcp = 0 THEN mcp ELSE rekey.mcp
    BY <1>1
  <2>2. /\ credentials.status # "none" => credentials.secret.key = 2
        /\ mcp \in {0, 2} \/ rekey.mcp = 2
    BY <1>1, <2>1 DEF SecretsInv, KeysInTime
  <2> QED BY <1>3, <2>1, <2>2
<1>9. Undisturbed' /\ Confirmed'
  BY <1>1, <1>2 DEF SecretsInv, Undisturbed, Confirmed
<1> QED BY <1>6, <1>7, <1>8, <1>9 DEF SecretsInv

LEMMA SecretsNewPassword ==
    ASSUME SecretsInv, Accounts!NewPassword
    PROVE  SecretsInv'
<1>1. /\ provider < MaxPassword /\ provider' = provider + 1
      /\ UNCHANGED <<credentials, hash, mcp, login, rekey, env, config, careful, skipped, confirmed>>
  BY DEF Accounts!NewPassword, Accounts!stored, Accounts!keys
<1>2. provider' \in Accounts!Password
  BY <1>1, SecretsBounds DEF SecretsInv, SecretsShape, Accounts!Password
<1>3. SecretsShape'
  BY <1>1, <1>2 DEF SecretsInv, SecretsShape
<1>4. Phases' /\ KeysInTime'
  BY <1>1 DEF SecretsInv, Phases, KeysInTime
<1>5. Undisturbed' /\ Confirmed'
  BY <1>1 DEF SecretsInv, Undisturbed, Confirmed
<1> QED BY <1>3, <1>4, <1>5 DEF SecretsInv

LEMMA SecretsNext == SecretsInv /\ Accounts!Next => SecretsInv'
<1> SUFFICES ASSUME SecretsInv, Accounts!Next PROVE SecretsInv'
  OBVIOUS
<1>1. CASE \E l \in Login : Accounts!TryIMAPLogin(l) \/ Accounts!LoginStep(l)
  BY <1>1, SecretsTryIMAPLogin, SecretsLookup, SecretsGetAccounts, SecretsCreateAccount,
     SecretsUpdateAccount, SecretsGetAdmin, SecretsCacheMonoLoginPassword DEF Accounts!LoginStep
<1>2. CASE \/ Accounts!SaveAccount \/ Accounts!HandleChangePassword \/ Accounts!DeleteAccount
           \/ Accounts!CreateMCPKey \/ Accounts!NewPassword
  BY <1>2, SecretsSaveAccount, SecretsHandleChangePassword, SecretsDeleteAccount,
     SecretsCreateMCPKey, SecretsNewPassword
<1>3. CASE Accounts!AddKey \/ Accounts!RemoveKey \/ Accounts!RestartServer
  BY <1>3, SecretsAddKey, SecretsRemoveKey, SecretsRestartServer
<1>4. CASE Accounts!RekeyRead \/ Accounts!RekeyAccounts \/ Accounts!RekeyMCPKeys
  BY <1>4, SecretsRekeyRead, SecretsRekeyAccounts, SecretsRekeyMCPKeys
<1> QED BY <1>1, <1>2, <1>3, <1>4 DEF Accounts!Next

LEMMA SecretsStutters == SecretsInv /\ UNCHANGED secrets => SecretsInv'
BY DEF SecretsInv, SecretsShape, Phases, KeysInTime, Undisturbed, Confirmed, secrets

(* What is stored is read with the keys of the server.                     *)
LEMMA ReadableInTime ==
    ASSUME SecretsInv
    PROVE  Accounts!SecretsKept
<1>1. Accounts!LoginKept
  <2>1. confirmed # 0 => hash = confirmed /\
            (credentials.status = "active" => credentials.secret.pw = confirmed)
    BY DEF SecretsInv, Confirmed
  <2> QED BY <2>1 DEF Accounts!LoginKept, Accounts!MonoOfflineLoginOK
<1>2. Accounts!SecretsReadable
  <2> SUFFICES ASSUME careful, ~skipped
               PROVE  /\ credentials.status # "none" =>
                             Accounts!Decrypts(credentials.secret.key, config)
                      /\ mcp # 0 => Accounts!Decrypts(mcp, config)
    BY DEF Accounts!SecretsReadable, Accounts!Readable
  <2>1. /\ env \in KeyLists /\ config = env /\ mcp \in 0 .. 2
        /\ credentials.status # "none" => credentials.secret.key \in {1, 2}
    BY AccountFields DEF SecretsInv, SecretsShape, Phases
  <2>2. /\ env = <<1>> => credentials.secret.key \in {0, 1} /\ mcp \in {0, 1}
        /\ env = <<2>> => /\ credentials.status # "none" => credentials.secret.key = 2
                          /\ mcp \in {0, 2}
    BY DEF SecretsInv, Phases, KeysInTime
  <2>3. CASE env = <<1>>
    BY <2>1, <2>2, <2>3, KeysOf
  <2>4. CASE env = <<2, 1>>
    BY <2>1, <2>4, KeysOf
  <2>5. CASE env = <<2>>
    BY <2>1, <2>2, <2>5, KeysOf
  <2> QED BY <2>1, <2>3, <2>4, <2>5 DEF KeyLists
<1> QED BY <1>1, <1>2 DEF Accounts!SecretsKept

(* The password of an undisturbed login is kept, and everything stored can *)
(* be read in every phase of a key rotation, for any number of logins and  *)
(* passwords, whichever statements fail.                                   *)
THEOREM SecretsAreKept == MCSpec => []SecretsKept
<1>1. MCInit => SecretsInv
  BY SecretsInit DEF MCInit
<1>2. SecretsInv /\ [MCNext]_requests => SecretsInv'
  <2> SUFFICES ASSUME SecretsInv, [MCNext]_requests PROVE SecretsInv'
    OBVIOUS
  <2>1. CASE UNCHANGED secrets
    BY <2>1, SecretsStutters
  <2>2. CASE Accounts!Next
    BY <2>2, SecretsNext
  <2> QED BY <2>1, <2>2 DEF MCNext, requests
<1>3. SecretsInv => SecretsKept
  BY ReadableInTime DEF SecretsKept
<1> QED BY <1>1, <1>2, <1>3, PTL DEF MCSpec

-----------------------------------------------------------------------------
(* Labels of Gmail accounts.                                               *)

LEMMA LabelsBounds ==
    NoMsg \notin Letter /\ NoFolder \notin Folder /\ MaxRows \in Nat /\ MaxMoves \in Nat
        /\ MaxFaults \in Nat
BY RequestsAssumption DEF RequestsAssumption, Gmail!GmailLabelsAssumption

WorkerSteps == {"off", "cleanup", "backfill", "loop", "labels", "upsert", "save"}
WorkerState == [pc : WorkerSteps, msg : Letter \cup {NoMsg}, folder : Folder \cup {NoFolder},
                id : Nat, had : SUBSET Folder]

LabelsShape ==
    /\ google \in BOOLEAN
    /\ copies \in [Gmail!Id -> Gmail!Row \cup {Gmail!NoRow}]
    /\ labels \in [Gmail!Id -> SUBSET Folder]
    /\ nextId \in Nat /\ 0 < nextId
    /\ \A i \in Gmail!Id : nextId <= i => copies[i] = Gmail!NoRow /\ labels[i] = {}
    /\ due \subseteq Letter \X Folder
    /\ moves \subseteq Gmail!Move
    /\ \A v \in moves : v.id < nextId
    /\ worker \in WorkerState
    /\ worker.pc \in {"labels", "upsert", "save"} => worker.msg \in Letter /\ worker.folder \in Folder

(* What has been settled tells how far an account of Google is.            *)
Settling ==
    /\ ~google => settled = {} /\ \A i \in Gmail!Id : labels[i] = {}
    /\ worker.pc \in {"cleanup", "backfill", "labels", "upsert"} => google
    /\ google /\ worker.pc \in {"loop", "labels", "upsert", "save"} => "backfilled" \in settled

(* The worker is at a row of its message, the labels of which it knows.    *)
AtRow ==
    worker.pc \in {"labels", "upsert"} =>
        /\ 0 < worker.id /\ worker.id < nextId /\ worker.id <= MaxRows
        /\ copies[worker.id] # Gmail!NoRow =>
              /\ copies[worker.id].msg = worker.msg
              /\ worker.pc = "upsert" => labels[worker.id] \subseteq worker.had

(* A copy has its label, or a row that the backfill will find.             *)
HasLabel(c, i) ==
    /\ copies[i] # Gmail!NoRow /\ copies[i].msg = c[1]
    /\ \/ c[2] \in labels[i]
       \/ "backfilled" \notin settled /\ labels[i] = {} /\ copies[i].folder = c[2]

CopiesKept == \A c \in due : \E i \in Gmail!Id : HasLabel(c, i)

(* A message has one row after the cleanup, and none when it is saved.     *)
RowsOnce ==
    /\ "cleaned" \in settled =>
           \A i, j \in Gmail!Id :
               /\ copies[i] # Gmail!NoRow /\ copies[j] # Gmail!NoRow
               /\ copies[i].msg = copies[j].msg /\ copies[i].msg \notin doubled
               => i = j
    /\ google /\ worker.pc = "save" /\ worker.msg \notin doubled =>
           \A i \in Gmail!Id : copies[i] # Gmail!NoRow => copies[i].msg # worker.msg

LabelsInv == LabelsShape /\ Settling /\ AtRow /\ CopiesKept /\ RowsOnce

LEMMA LabelsInit == Gmail!Init => LabelsInv
<1> SUFFICES ASSUME Gmail!Init PROVE LabelsInv
  OBVIOUS
<1>1. /\ google = FALSE /\ settled = {}
      /\ copies = [i \in Gmail!Id |-> Gmail!NoRow] /\ labels = [i \in Gmail!Id |-> {}]
      /\ nextId = 1 /\ moves = {} /\ due = {} /\ worker = Gmail!Off
  BY DEF Gmail!Init
<1>2. worker \in WorkerState /\ worker.pc = "off"
  BY <1>1 DEF Gmail!Off, WorkerState, WorkerSteps
<1>3. LabelsShape
  <2>1. google \in BOOLEAN
    BY <1>1, Zenon
  <2> QED BY <1>1, <1>2, <2>1 DEF LabelsShape
<1>4. Settling /\ AtRow /\ CopiesKept /\ RowsOnce
  BY <1>1, <1>2 DEF Settling, AtRow, CopiesKept, RowsOnce
<1> QED BY <1>3, <1>4 DEF LabelsInv

LEMMA CopyFields ==
    ASSUME LabelsInv, NEW i \in Gmail!Id, copies[i] # Gmail!NoRow
    PROVE  /\ copies[i] \in Gmail!Row /\ copies[i].msg \in Letter /\ copies[i].folder \in Folder
           /\ copies[i].msg # NoMsg /\ i < nextId
<1>1. copies[i] \in Gmail!Row /\ i < nextId
  BY LabelsBounds DEF LabelsInv, LabelsShape, Gmail!Id
<1> QED BY <1>1, LabelsBounds DEF Gmail!Row

LEMMA LiveRows ==
    /\ \A i : i \in Gmail!Live <=> i \in Gmail!Id /\ copies[i] # Gmail!NoRow
    /\ \A m, i : i \in Gmail!RowsOf(m) <=>
           i \in Gmail!Id /\ copies[i] # Gmail!NoRow /\ copies[i].msg = m
BY DEF Gmail!Live, Gmail!RowsOf

LEMMA WorkerFields ==
    ASSUME LabelsInv
    PROVE  /\ worker \in WorkerState /\ worker.pc \in WorkerSteps
           /\ worker.id \in Nat /\ worker.had \subseteq Folder
           /\ worker.pc \in {"labels", "upsert", "save"} =>
                 worker.msg \in Letter /\ worker.folder \in Folder
BY DEF LabelsInv, LabelsShape, WorkerState

LEMMA WorkerAt ==
    /\ Gmail!Off \in WorkerState /\ Gmail!Off.pc = "off"
    /\ Gmail!Loop \in WorkerState /\ Gmail!Loop.pc = "loop"
    /\ \A pc \in WorkerSteps :
          LET w == [Gmail!Off EXCEPT !.pc = pc] IN w \in WorkerState /\ w.pc = pc
BY DEF Gmail!Off, Gmail!Loop, WorkerState, WorkerSteps

(* Copies stay done while rows and labels stay.                          *)
LEMMA CopiesSame ==
    ASSUME LabelsInv, UNCHANGED <<copies, labels>>, due' \subseteq due,
           "backfilled" \in settled' => "backfilled" \in settled
    PROVE  CopiesKept'
<1> SUFFICES ASSUME NEW c \in due' PROVE \E i \in Gmail!Id : HasLabel(c, i)'
  BY DEF CopiesKept
<1>1. PICK i \in Gmail!Id : HasLabel(c, i)
  BY DEF LabelsInv, CopiesKept
<1>2. HasLabel(c, i)'
  BY <1>1 DEF HasLabel
<1> QED BY <1>2

(* The worker is done with a task, or stops, or begins a cycle.            *)
LEMMA WorkerLeaves ==
    ASSUME LabelsInv, worker' \in WorkerState,
           worker'.pc \in {"off", "cleanup", "backfill", "loop"},
           google' \in {TRUE, google},
           google' /\ worker'.pc = "loop" => "backfilled" \in settled,
           worker'.pc \in {"cleanup", "backfill"} => google',
           UNCHANGED <<settled, copies, labels, nextId, moves, doubled>>,
           due' \subseteq Letter \X Folder, CopiesKept'
    PROVE  LabelsInv'
<1>1. google' \in BOOLEAN /\ (google => google')
  BY DEF LabelsInv, LabelsShape
<1>2. LabelsShape'
  BY <1>1 DEF LabelsInv, LabelsShape
<1>3. Settling'
  BY <1>1 DEF LabelsInv, Settling
<1>4. AtRow' /\ RowsOnce'
  BY DEF LabelsInv, AtRow, RowsOnce
<1> QED BY <1>2, <1>3, <1>4 DEF LabelsInv

LEMMA LabelsDiscover ==
    ASSUME LabelsInv, NEW m \in Letter, NEW f \in Folder, Gmail!Discover(m, f)
    PROVE  LabelsInv'
<1>1. UNCHANGED <<google, settled, copies, labels, nextId, moves, worker, due, doubled>>
  BY DEF Gmail!Discover
<1>2. LabelsShape' /\ Settling' /\ AtRow' /\ RowsOnce'
  BY <1>1 DEF LabelsInv, LabelsShape, Settling, AtRow, RowsOnce
<1> QED BY <1>1, <1>2, CopiesSame DEF LabelsInv

LEMMA LabelsDetectGmail ==
    ASSUME LabelsInv, Gmail!DetectGmail
    PROVE  LabelsInv'
<1> DEFINE pc == IF google' THEN "cleanup" ELSE "loop"
<1>1. /\ google' \in {TRUE, google} /\ worker' = [Gmail!Off EXCEPT !.pc = pc]
      /\ UNCHANGED <<settled, copies, labels, nextId, moves, due, doubled>>
  BY DEF Gmail!DetectGmail
<1>2. /\ pc \in WorkerSteps /\ pc \in {"cleanup", "loop"}
      /\ google' => pc # "loop"
      /\ pc = "cleanup" => google'
  BY DEF WorkerSteps
<1>3. worker' \in WorkerState /\ worker'.pc = pc
  BY <1>1, <1>2, WorkerAt
<1>4. due' \subseteq Letter \X Folder /\ CopiesKept'
  BY <1>1, CopiesSame DEF LabelsInv, LabelsShape
<1> HIDE DEF pc
<1> QED BY <1>1, <1>2, <1>3, <1>4, WorkerLeaves

LEMMA LabelsDisconnect ==
    ASSUME LabelsInv, Gmail!Disconnect
    PROVE  LabelsInv'
<1>1. /\ worker' = Gmail!Off
      /\ UNCHANGED <<google, settled, copies, labels, nextId, moves, due, doubled>>
  BY DEF Gmail!Disconnect
<1>2. due' \subseteq Letter \X Folder /\ CopiesKept'
  BY <1>1, CopiesSame DEF LabelsInv, LabelsShape
<1> QED BY <1>1, <1>2, WorkerAt, WorkerLeaves

LEMMA LabelsLookup ==
    ASSUME LabelsInv, NEW m \in Letter, NEW f \in Folder, Gmail!Lookup(m, f)
    PROVE  LabelsInv'
<1> DEFINE at == [Gmail!Off EXCEPT !.msg = m, !.folder = f]
<1>1. /\ worker.pc = "loop"
      /\ UNCHANGED <<google, settled, copies, labels, nextId, moves, due>>
  BY DEF Gmail!Lookup
<1>2. CopiesKept'
  BY <1>1, CopiesSame
<1>3. google => "backfilled" \in settled
  BY <1>1 DEF LabelsInv, Settling
<1>4. CASE /\ google
           /\ \E i \in Gmail!Existing(m, f) : worker' = [at EXCEPT !.pc = "labels", !.id = i]
           /\ doubled' = doubled
  <2>1. PICK i \in Gmail!RowsOf(m) : worker' = [at EXCEPT !.pc = "labels", !.id = i]
    BY <1>4 DEF Gmail!Existing
  <2>2. i \in Gmail!Id /\ copies[i] # Gmail!NoRow /\ copies[i].msg = m /\ i < nextId
    BY <2>1, LiveRows, CopyFields
  <2>3. i \in Nat /\ 0 < i /\ i <= MaxRows
    BY <2>2, LabelsBounds DEF Gmail!Id
  <2>4. /\ worker' \in WorkerState /\ worker'.pc = "labels" /\ worker'.msg = m
        /\ worker'.folder = f /\ worker'.id = i
    BY <2>1, <2>3 DEF Gmail!Off, WorkerState, WorkerSteps
  <2>5. LabelsShape'
    BY <1>1, <2>4 DEF LabelsInv, LabelsShape
  <2>6. Settling' /\ RowsOnce'
    BY <1>1, <1>3, <1>4, <2>4 DEF LabelsInv, Settling, RowsOnce
  <2>7. AtRow'
    BY <1>1, <2>2, <2>3, <2>4 DEF AtRow
  <2> QED BY <1>2, <2>5, <2>6, <2>7 DEF LabelsInv
<1>5. CASE /\ worker' = [at EXCEPT !.pc = "save"]
           /\ \/ ~google \/ Gmail!Existing(m, f) = {}
              \/ m \in doubled'
           /\ doubled \subseteq doubled'
  <2>1. /\ worker' \in WorkerState /\ worker'.pc = "save" /\ worker'.msg = m
        /\ worker'.folder = f
    BY <1>5 DEF Gmail!Off, WorkerState, WorkerSteps
  <2>2. LabelsShape'
    BY <1>1, <2>1 DEF LabelsInv, LabelsShape
  <2>3. Settling' /\ AtRow'
    BY <1>1, <1>3, <2>1 DEF LabelsInv, Settling, AtRow
  <2>4. google /\ m \notin doubled' =>
            \A i \in Gmail!Id : copies[i] # Gmail!NoRow => copies[i].msg # m
    BY <1>5, LiveRows DEF Gmail!Existing
  <2>5. RowsOnce'
    BY <1>1, <1>5, <2>1, <2>4 DEF LabelsInv, RowsOnce
  <2> QED BY <1>2, <2>2, <2>3, <2>5 DEF LabelsInv
<1> QED BY <1>4, <1>5 DEF Gmail!Lookup

(* The copy of the task is done by a row that has its label.             *)
LEMMA CopiesFinished ==
    ASSUME LabelsInv, NEW finished \in BOOLEAN, Gmail!Finish(finished),
           NEW d \in Letter \X Folder, d = <<worker.msg, worker.folder>>,
           \A c \in due : \E i \in Gmail!Id : HasLabel(c, i)',
           finished => \E i \in Gmail!Id : HasLabel(d, i)'
    PROVE  due' \subseteq Letter \X Folder /\ CopiesKept'
<1>1. /\ finished => due' = due \cup {d}
      /\ ~finished => due' = due \ {d}
  BY DEF Gmail!Finish
<1>2. due \subseteq Letter \X Folder
  BY DEF LabelsInv, LabelsShape
<1>3. due' \subseteq Letter \X Folder
  BY <1>1, <1>2
<1>4. ASSUME NEW c \in due' PROVE \E i \in Gmail!Id : HasLabel(c, i)'
  <2>1. \/ c \in due
        \/ finished /\ c = d
    BY <1>1
  <2>2. CASE c \in due
    BY <2>2
  <2>3. CASE finished /\ c = d
    BY <2>3
  <2> QED BY <2>1, <2>2, <2>3
<1> QED BY <1>3, <1>4 DEF CopiesKept

LEMMA LabelsGetGmailLabels ==
    ASSUME LabelsInv, Gmail!GetGmailLabels
    PROVE  LabelsInv'
<1>1. /\ worker.pc = "labels" /\ google /\ "backfilled" \in settled
      /\ worker.msg \in Letter /\ worker.folder \in Folder /\ worker.id \in Gmail!Id
      /\ 0 < worker.id /\ worker.id < nextId /\ worker.id <= MaxRows
      /\ copies[worker.id] # Gmail!NoRow => copies[worker.id].msg = worker.msg
      /\ UNCHANGED <<google, settled, copies, labels, nextId, moves, doubled>>
  <2>1. worker.pc = "labels"
    BY DEF Gmail!GetGmailLabels
  <2>2. 0 < worker.id /\ worker.id < nextId /\ worker.id <= MaxRows /\ worker.id \in Nat
    BY <2>1, WorkerFields DEF LabelsInv, AtRow
  <2>3. worker.id \in Gmail!Id
    BY <2>2, LabelsBounds DEF Gmail!Id
  <2> QED BY <2>1, <2>2, <2>3, WorkerFields
          DEF LabelsInv, Settling, AtRow, Gmail!GetGmailLabels
<1>2. ASSUME NEW finished \in BOOLEAN, Gmail!Finish(finished),
             finished => worker.id \in Gmail!Live /\ worker.folder \in labels[worker.id]
      PROVE  LabelsInv'
  <2>1. worker' \in WorkerState /\ worker'.pc = "loop"
    BY <1>2, WorkerAt DEF Gmail!Finish
  <2>2. \A c \in due : \E i \in Gmail!Id : HasLabel(c, i)'
    BY <1>1 DEF LabelsInv, CopiesKept, HasLabel
  <2>3. PICK d \in Letter \X Folder : d = <<worker.msg, worker.folder>>
    BY <1>1
  <2>4. finished => \E i \in Gmail!Id : HasLabel(d, i)'
    BY <1>1, <1>2, <2>3, LiveRows DEF HasLabel
  <2>5. due' \subseteq Letter \X Folder /\ CopiesKept'
    BY <1>2, <2>2, <2>3, <2>4, CopiesFinished
  <2> QED BY <1>1, <2>1, <2>5, WorkerLeaves
<1>3. CASE /\ worker.folder \in labels[worker.id] /\ Gmail!Finish(worker.id \in Gmail!Live)
  <2>1. CASE worker.id \in Gmail!Live
    <3>1. Gmail!Finish(TRUE)
      BY <1>3, <2>1 DEF Gmail!Finish
    <3> QED BY <1>2, <1>3, <2>1, <3>1
  <2>2. CASE worker.id \notin Gmail!Live
    <3>1. Gmail!Finish(FALSE)
      BY <1>3, <2>2 DEF Gmail!Finish
    <3> QED BY <1>2, <3>1
  <2> QED BY <2>1, <2>2
<1>4. CASE Gmail!Finish(FALSE)
  BY <1>2, <1>4
<1>5. CASE /\ worker' = [worker EXCEPT !.pc = "upsert", !.had = labels[worker.id]]
           /\ due' = due
  <2>1. labels[worker.id] \subseteq Folder
    BY <1>1 DEF LabelsInv, LabelsShape
  <2>2. /\ worker' \in WorkerState /\ worker'.pc = "upsert" /\ worker'.msg = worker.msg
        /\ worker'.folder = worker.folder /\ worker'.id = worker.id
        /\ worker'.had = labels[worker.id]
    BY <1>5, <2>1, WorkerFields DEF WorkerState, WorkerSteps
  <2>3. LabelsShape'
    BY <1>1, <1>5, <2>2 DEF LabelsInv, LabelsShape
  <2>4. Settling' /\ RowsOnce'
    BY <1>1, <2>2 DEF LabelsInv, Settling, RowsOnce
  <2>5. AtRow'
    BY <1>1, <2>2 DEF AtRow
  <2>6. CopiesKept'
    BY <1>1, <1>5, CopiesSame
  <2> QED BY <2>3, <2>4, <2>5, <2>6 DEF LabelsInv
<1> QED BY <1>3, <1>4, <1>5 DEF Gmail!GetGmailLabels

LEMMA LabelsUpsertEmailLabels ==
    ASSUME LabelsInv, Gmail!UpsertEmailLabels
    PROVE  LabelsInv'
<1> DEFINE k == worker.id
           new == worker.had \cup {worker.folder}
<1>1. /\ worker.pc = "upsert" /\ google /\ "backfilled" \in settled
      /\ worker.msg \in Letter /\ worker.folder \in Folder /\ k \in Gmail!Id
      /\ 0 < k /\ k < nextId /\ k \in Nat
      /\ copies[k] # Gmail!NoRow =>
            copies[k].msg = worker.msg /\ labels[k] \subseteq worker.had
      /\ new \subseteq Folder
      /\ UNCHANGED <<google, settled, copies, nextId, moves, doubled>>
  <2>1. worker.pc = "upsert"
    BY DEF Gmail!UpsertEmailLabels
  <2>2. 0 < worker.id /\ worker.id < nextId /\ worker.id <= MaxRows /\ worker.id \in Nat
    BY <2>1, WorkerFields DEF LabelsInv, AtRow
  <2>3. worker.id \in Gmail!Id
    BY <2>2, LabelsBounds DEF Gmail!Id
  <2> QED BY <2>1, <2>2, <2>3, WorkerFields
          DEF LabelsInv, Settling, AtRow, Gmail!UpsertEmailLabels
<1>2. CASE labels' = labels /\ Gmail!Finish(FALSE)
  <2>1. worker' \in WorkerState /\ worker'.pc = "loop"
    BY <1>2, WorkerAt DEF Gmail!Finish
  <2>2. \A c \in due : \E i \in Gmail!Id : HasLabel(c, i)'
    BY <1>1, <1>2 DEF LabelsInv, CopiesKept, HasLabel
  <2>3. PICK d \in Letter \X Folder : d = <<worker.msg, worker.folder>>
    BY <1>1
  <2>4. due' \subseteq Letter \X Folder /\ CopiesKept'
    BY <1>2, <2>2, <2>3, CopiesFinished
  <2> HIDE DEF new
  <2> QED BY <1>1, <1>2, <2>1, <2>4, WorkerLeaves
<1>3. CASE /\ labels' = [labels EXCEPT ![k] = new] /\ Gmail!Finish(k \in Gmail!Live)
  <2>1. worker' \in WorkerState /\ worker'.pc = "loop"
    BY <1>3, WorkerAt DEF Gmail!Finish
  <2>2. /\ labels' \in [Gmail!Id -> SUBSET Folder] /\ labels'[k] = new
        /\ \A i \in Gmail!Id : i # k => labels'[i] = labels[i]
    <3> HIDE DEF new, k
    <3> QED BY <1>1, <1>3 DEF LabelsInv, LabelsShape
  <2>3. ASSUME NEW c \in due PROVE \E i \in Gmail!Id : HasLabel(c, i)'
    <3>1. PICK i \in Gmail!Id : HasLabel(c, i)
      BY DEF LabelsInv, CopiesKept
    <3>2. copies[i] # Gmail!NoRow /\ copies[i].msg = c[1] /\ c[2] \in labels[i]
      BY <1>1, <3>1 DEF HasLabel
    <3>3. c[2] \in labels'[i]
      BY <1>1, <2>2, <3>2
    <3> QED BY <1>1, <3>2, <3>3 DEF HasLabel
  <2>4. PICK d \in Letter \X Folder : d = <<worker.msg, worker.folder>>
    BY <1>1
  <2>5. due' \subseteq Letter \X Folder /\ CopiesKept'
    <3>1. k \in Gmail!Live => \E i \in Gmail!Id : HasLabel(d, i)'
      BY <1>1, <2>2, <2>4, LiveRows DEF HasLabel
    <3>2. (k \in Gmail!Live) \in BOOLEAN
      OBVIOUS
    <3> QED BY <1>3, <2>3, <2>4, <3>1, <3>2, CopiesFinished
  <2>6. LabelsShape'
    <3>1. \A i \in Gmail!Id : nextId <= i => i # k
      BY <1>1 DEF LabelsInv, LabelsShape, Gmail!Id
    <3> HIDE DEF new, k
    <3> QED BY <1>1, <2>1, <2>2, <2>5, <3>1 DEF LabelsInv, LabelsShape
  <2>7. Settling' /\ AtRow'
    BY <1>1, <2>1 DEF LabelsInv, Settling, AtRow
  <2>8. RowsOnce'
    BY <1>1, <2>1 DEF LabelsInv, RowsOnce
  <2> QED BY <2>5, <2>6, <2>7, <2>8 DEF LabelsInv
<1> QED BY <1>2, <1>3 DEF Gmail!UpsertEmailLabels, Gmail!Appended

LEMMA LabelsSaveEmailToFolder ==
    ASSUME LabelsInv, Gmail!SaveEmailToFolder
    PROVE  LabelsInv'
<1> DEFINE m == worker.msg
           f == worker.folder
           known == {i \in Gmail!RowsOf(m) : copies[i].folder = f}
           row == [msg |-> m, folder |-> f]
<1>1. /\ worker.pc = "save" /\ nextId <= MaxRows /\ nextId' = nextId + 1
      /\ m \in Letter /\ f \in Folder /\ nextId \in Nat /\ 0 < nextId
      /\ UNCHANGED <<google, settled, labels, moves, doubled>>
  BY WorkerFields DEF LabelsInv, LabelsShape, Gmail!SaveEmailToFolder
<1>2. nextId \in Gmail!Id
  BY <1>1, LabelsBounds DEF Gmail!Id
<1>3. copies[nextId] = Gmail!NoRow /\ labels[nextId] = {}
  BY <1>1, <1>2 DEF LabelsInv, LabelsShape
<1>4. row \in Gmail!Row /\ row # Gmail!NoRow /\ row.msg = m /\ row.folder = f
  BY <1>1, LabelsBounds DEF Gmail!Row, Gmail!NoRow
<1>5. \/ known # {} /\ copies' = copies
      \/ known = {} /\ copies' = [copies EXCEPT ![nextId] = row]
  BY DEF Gmail!SaveEmailToFolder
<1>6. /\ copies' \in [Gmail!Id -> Gmail!Row \cup {Gmail!NoRow}]
      /\ \A i \in Gmail!Id : i # nextId => copies'[i] = copies[i]
      /\ copies'[nextId] \in {row, Gmail!NoRow}
  <2> HIDE DEF row, known, m, f
  <2> QED BY <1>2, <1>3, <1>4, <1>5 DEF LabelsInv, LabelsShape
<1>7. \A i \in Gmail!Id : Gmail!NoRow # copies[i] => i # nextId
  BY <1>3
<1>8. \A c \in due : \E i \in Gmail!Id : HasLabel(c, i)'
  <2> SUFFICES ASSUME NEW c \in due PROVE \E i \in Gmail!Id : HasLabel(c, i)'
    OBVIOUS
  <2>1. PICK i \in Gmail!Id : HasLabel(c, i)
    BY DEF LabelsInv, CopiesKept
  <2>2. HasLabel(c, i)'
    BY <1>1, <1>6, <1>7, <2>1 DEF HasLabel
  <2> QED BY <2>2
<1>9. "cleaned" \in settled => google
  BY DEF LabelsInv, Settling
<1>10. "cleaned" \in settled =>
           \A i, j \in Gmail!Id :
               /\ copies'[i] # Gmail!NoRow /\ copies'[j] # Gmail!NoRow
               /\ copies'[i].msg = copies'[j].msg /\ copies'[i].msg \notin doubled
               => i = j
  <2> SUFFICES ASSUME "cleaned" \in settled, NEW i \in Gmail!Id, NEW j \in Gmail!Id,
                      copies'[i] # Gmail!NoRow, copies'[j] # Gmail!NoRow,
                      copies'[i].msg = copies'[j].msg, copies'[i].msg \notin doubled
               PROVE  i = j
    OBVIOUS
  <2>1. m \notin doubled =>
            \A k \in Gmail!Id : copies[k] # Gmail!NoRow => copies[k].msg # m
    BY <1>1, <1>9 DEF LabelsInv, RowsOnce
  <2>2. copies[i] # Gmail!NoRow /\ copies[j] # Gmail!NoRow /\ copies[i].msg = copies[j].msg
            /\ copies[i].msg \notin doubled => i = j
    BY DEF LabelsInv, RowsOnce
  <2> HIDE DEF m, row
  <2> QED BY <1>4, <1>6, <2>1, <2>2
<1>11. \A i \in Gmail!Id : nextId' <= i => copies'[i] = Gmail!NoRow /\ labels[i] = {}
  BY <1>1, <1>6 DEF LabelsInv, LabelsShape, Gmail!Id
<1>12. \A v \in moves : v.id < nextId'
  <2>1. \A v \in moves : v.id < nextId /\ v.id \in Gmail!Id
    BY DEF LabelsInv, LabelsShape, Gmail!Move
  <2> QED BY <1>1, <2>1 DEF Gmail!Id
<1>13. CASE google
  <2>1. /\ worker' = [worker EXCEPT !.pc = "upsert", !.id = nextId, !.had = {}] /\ due' = due
    BY <1>13 DEF Gmail!SaveEmailToFolder
  <2>2. /\ worker' \in WorkerState /\ worker'.pc = "upsert" /\ worker'.msg = m
        /\ worker'.folder = f /\ worker'.id = nextId /\ worker'.had = {}
    BY <1>1, <2>1, WorkerFields DEF WorkerState, WorkerSteps
  <2>3. LabelsShape'
    <3> HIDE DEF row, known, m, f
    <3> QED BY <1>1, <1>6, <1>11, <1>12, <2>1, <2>2 DEF LabelsInv, LabelsShape
  <2>4. Settling'
    BY <1>1, <1>13, <2>2 DEF LabelsInv, Settling
  <2>5. AtRow'
    <3> HIDE DEF row, known, m, f
    <3> QED BY <1>1, <1>3, <1>4, <1>6, <2>2 DEF AtRow
  <2>6. CopiesKept'
    BY <1>8, <2>1 DEF CopiesKept
  <2>7. RowsOnce'
    BY <1>1, <1>10, <2>2 DEF RowsOnce
  <2> QED BY <2>3, <2>4, <2>5, <2>6, <2>7 DEF LabelsInv
<1>14. CASE ~google
  <2>1. Gmail!Finish(TRUE)
    BY <1>14 DEF Gmail!SaveEmailToFolder
  <2>2. worker' \in WorkerState /\ worker'.pc = "loop"
    BY <2>1, WorkerAt DEF Gmail!Finish
  <2>3. settled = {} /\ \A i \in Gmail!Id : labels[i] = {}
    BY <1>14 DEF LabelsInv, Settling
  <2>4. \E i \in Gmail!Id : copies'[i] # Gmail!NoRow /\ copies'[i].msg = m /\ copies'[i].folder = f
    <3>1. CASE known # {}
      <4>1. PICK i \in known : TRUE
        BY <3>1
      <4>2. i \in Gmail!Id /\ copies[i] # Gmail!NoRow /\ copies[i].msg = m /\ copies[i].folder = f
        BY LiveRows
      <4> HIDE DEF m, f, known
      <4> QED BY <1>6, <1>7, <4>2
    <3>2. CASE known = {}
      <4> HIDE DEF m, f, known, row
      <4> QED BY <1>2, <1>4, <1>5, <3>2 DEF LabelsInv, LabelsShape
    <3> QED BY <3>1, <3>2
  <2>5. PICK d \in Letter \X Folder : d = <<m, f>>
    BY <1>1
  <2>6. due' \subseteq Letter \X Folder /\ CopiesKept'
    <3>1. \E i \in Gmail!Id : HasLabel(d, i)'
      BY <1>1, <2>3, <2>4, <2>5 DEF HasLabel
    <3> QED BY <1>8, <2>1, <2>5, <3>1, CopiesFinished
  <2>7. LabelsShape'
    <3> HIDE DEF row, known, m, f
    <3> QED BY <1>1, <1>6, <1>11, <1>12, <2>2, <2>6 DEF LabelsInv, LabelsShape
  <2>8. Settling' /\ AtRow'
    BY <1>1, <1>14, <2>2 DEF LabelsInv, Settling, AtRow
  <2>9. RowsOnce'
    BY <1>1, <1>10, <2>2 DEF RowsOnce
  <2> QED BY <2>6, <2>7, <2>8, <2>9 DEF LabelsInv
<1> QED BY <1>13, <1>14 DEF LabelsInv, LabelsShape

(* Every row without a label gets that of its folder, or copies without    *)
(* one are given up.                                                       *)
LEMMA LabelsBackfill ==
    ASSUME LabelsInv, Gmail!BackfillGmailLabels
    PROVE  LabelsInv'
<1>1. /\ worker' = Gmail!Loop /\ settled' = settled \cup {"backfilled"} /\ google
      /\ UNCHANGED <<google, copies, nextId, moves, doubled>>
  BY DEF LabelsInv, Settling, Gmail!BackfillGmailLabels
<1>2. worker' \in WorkerState /\ worker'.pc = "loop"
  BY <1>1, WorkerAt
<1>3. /\ labels' \in [Gmail!Id -> SUBSET Folder]
      /\ \A i \in Gmail!Id : copies[i] = Gmail!NoRow => labels'[i] = labels[i]
      /\ due' \subseteq Letter \X Folder
      /\ \A c \in due' : c \in due /\ \E i \in Gmail!Id :
             copies[i] # Gmail!NoRow /\ copies[i].msg = c[1] /\ c[2] \in labels'[i]
  <2>1. CASE "backfilled" \in settled /\ UNCHANGED <<labels, due>>
    BY <2>1 DEF LabelsInv, LabelsShape, CopiesKept, HasLabel
  <2>2. CASE labels' = [i \in Gmail!Id |-> Gmail!Backfilled(i)] /\ due' = due
    <3>1. ASSUME NEW i \in Gmail!Id
          PROVE  /\ labels'[i] \subseteq Folder /\ labels[i] \subseteq labels'[i]
                 /\ copies[i] = Gmail!NoRow => labels'[i] = labels[i]
                 /\ copies[i] # Gmail!NoRow /\ labels[i] = {} => copies[i].folder \in labels'[i]
      <4>1. labels[i] \subseteq Folder
        BY DEF LabelsInv, LabelsShape
      <4>2. labels'[i] = Gmail!Backfilled(i)
        BY <2>2
      <4>3. CASE copies[i] # Gmail!NoRow /\ labels[i] = {}
        BY <4>2, <4>3, LiveRows, CopyFields DEF Gmail!Backfilled
      <4>4. CASE copies[i] = Gmail!NoRow \/ labels[i] # {}
        BY <4>1, <4>2, <4>4, LiveRows DEF Gmail!Backfilled
      <4> QED BY <4>3, <4>4
    <3>2. labels' \in [Gmail!Id -> SUBSET Folder]
      BY <2>2, <3>1
    <3>3. ASSUME NEW c \in due
          PROVE  \E i \in Gmail!Id :
                     copies[i] # Gmail!NoRow /\ copies[i].msg = c[1] /\ c[2] \in labels'[i]
      <4>1. PICK i \in Gmail!Id : HasLabel(c, i)
        BY DEF LabelsInv, CopiesKept
      <4> QED BY <3>1, <4>1 DEF HasLabel
    <3> QED BY <2>2, <3>1, <3>2, <3>3 DEF LabelsInv, LabelsShape
  <2>3. CASE due' = {c \in due : c[1] \in Gmail!Shown(c[2])} /\ labels' = labels
    <3>1. ASSUME NEW c \in due'
          PROVE  \E i \in Gmail!Id :
                     copies[i] # Gmail!NoRow /\ copies[i].msg = c[1] /\ c[2] \in labels[i]
      BY <2>3, LiveRows DEF Gmail!Shown
    <3> QED BY <2>3, <3>1 DEF LabelsInv, LabelsShape
  <2> QED BY <2>1, <2>2, <2>3 DEF Gmail!BackfillGmailLabels
<1>4. LabelsShape'
  BY <1>1, <1>2, <1>3 DEF LabelsInv, LabelsShape
<1>5. Settling' /\ AtRow'
  BY <1>1, <1>2 DEF Settling, AtRow
<1>6. RowsOnce'
  BY <1>1, <1>2 DEF LabelsInv, RowsOnce
<1>7. CopiesKept'
  BY <1>1, <1>3 DEF CopiesKept, HasLabel
<1> QED BY <1>4, <1>5, <1>6, <1>7 DEF LabelsInv

(* Of the rows of a message one stays, and its labels are those of all.    *)
LEMMA LabelsCleanup ==
    ASSUME LabelsInv, Gmail!CleanupGmailDuplicates
    PROVE  LabelsInv'
<1> DEFINE All == UNION {Gmail!RowsOf(m) : m \in Gmail!Duplicated}
           Kept(keep) == {keep[m] : m \in Gmail!Duplicated}
<1>1. /\ worker' = [Gmail!Off EXCEPT !.pc = "backfill"] /\ google
      /\ UNCHANGED <<google, nextId, moves, doubled>>
  BY DEF LabelsInv, Settling, Gmail!CleanupGmailDuplicates
<1>2. worker' \in WorkerState /\ worker'.pc = "backfill"
  BY <1>1, WorkerAt DEF WorkerSteps
<1>3. CASE UNCHANGED <<settled, copies, labels, due>>
  <2>1. due' \subseteq Letter \X Folder /\ CopiesKept'
    BY <1>3, CopiesSame DEF LabelsInv, LabelsShape
  <2> QED BY <1>1, <1>2, <1>3, <2>1, WorkerLeaves
<1>4. ASSUME NEW keep \in [Gmail!Duplicated -> Gmail!Live],
             \A m \in Gmail!Duplicated : copies[keep[m]].msg = m,
             copies' = [i \in Gmail!Id |-> IF i \in Gmail!Gone(keep) THEN Gmail!NoRow ELSE copies[i]],
             labels' = [i \in Gmail!Id |->
                           IF i \in Gmail!Gone(keep) THEN {}
                           ELSE IF copies[i].msg \in Gmail!Duplicated
                                THEN Gmail!Merged(copies[i].msg)
                           ELSE labels[i]],
             settled' = settled \cup {"cleaned"},
             due' = {c \in due : c[1] \in Gmail!Duplicated =>
                         \E i \in Gmail!RowsOf(c[1]) : copies[i].folder = c[2]}
      PROVE  LabelsInv'
  <2>1. /\ Gmail!Duplicated \subseteq Letter
        /\ \A m \in Gmail!Duplicated :
              keep[m] \in Gmail!Id /\ copies[keep[m]] # Gmail!NoRow /\ copies[keep[m]].msg = m
    BY <1>4, LiveRows DEF Gmail!Duplicated
  <2>2. \A i \in Gmail!Id : i \in Gmail!Gone(keep) <=>
            /\ copies[i] # Gmail!NoRow /\ copies[i].msg \in Gmail!Duplicated
            /\ i # keep[copies[i].msg]
    <3> TAKE i \in Gmail!Id
    <3>1. i \in All <=> copies[i] # Gmail!NoRow /\ copies[i].msg \in Gmail!Duplicated
      BY LiveRows
    <3>2. copies[i].msg \in Gmail!Duplicated =>
              (i \in Kept(keep) <=> i = keep[copies[i].msg])
      BY <2>1
    <3>3. Gmail!Gone(keep) = All \ Kept(keep)
      BY Zenon DEF Gmail!Gone
    <3> HIDE DEF All, Kept
    <3> QED BY <3>1, <3>2, <3>3
  <2> HIDE <1>4
  <2>3. ASSUME NEW m \in Letter
        PROVE  /\ Gmail!Merged(m) \subseteq Folder
               /\ \A i \in Gmail!RowsOf(m) : copies[i].folder \in Gmail!Merged(m)
    BY LiveRows, CopyFields DEF Gmail!Merged
  <2>4. Gmail!NoRow.msg = NoMsg /\ NoMsg \notin Gmail!Duplicated
    BY <2>1, LabelsBounds DEF Gmail!NoRow
  <2>5. ASSUME NEW i \in Gmail!Id
        PROVE  /\ copies'[i] \in {copies[i], Gmail!NoRow}
               /\ copies'[i] # Gmail!NoRow =>
                     /\ copies[i] # Gmail!NoRow /\ copies'[i] = copies[i]
                     /\ copies[i].msg \in Gmail!Duplicated =>
                           /\ i = keep[copies[i].msg]
                           /\ labels'[i] = Gmail!Merged(copies[i].msg)
                     /\ copies[i].msg \notin Gmail!Duplicated => labels'[i] = labels[i]
               /\ copies[i] = Gmail!NoRow => copies'[i] = Gmail!NoRow /\ labels'[i] = labels[i]
               /\ labels'[i] \subseteq Folder
    <3>1. /\ copies'[i] = IF i \in Gmail!Gone(keep) THEN Gmail!NoRow ELSE copies[i]
          /\ labels'[i] = IF i \in Gmail!Gone(keep) THEN {}
                          ELSE IF copies[i].msg \in Gmail!Duplicated
                               THEN Gmail!Merged(copies[i].msg)
                          ELSE labels[i]
      BY <1>4
    <3>2. labels[i] \subseteq Folder
      BY DEF LabelsInv, LabelsShape
    <3>3. copies[i].msg \in Gmail!Duplicated => Gmail!Merged(copies[i].msg) \subseteq Folder
      BY <2>1, <2>3
    <3>4. copies[i] = Gmail!NoRow => i \notin Gmail!Gone(keep) /\ copies[i].msg \notin Gmail!Duplicated
      BY <2>2, <2>4
    <3>5. i \notin Gmail!Gone(keep) /\ copies[i] # Gmail!NoRow /\ copies[i].msg \in Gmail!Duplicated =>
              i = keep[copies[i].msg]
      BY <2>2
    <3> QED BY <3>1, <3>2, <3>3, <3>4, <3>5
  <2>6. /\ copies' \in [Gmail!Id -> Gmail!Row \cup {Gmail!NoRow}]
        /\ labels' \in [Gmail!Id -> SUBSET Folder]
    <3>1. /\ copies' = [i \in Gmail!Id |-> copies'[i]]
          /\ labels' = [i \in Gmail!Id |-> labels'[i]]
      BY <1>4
    <3>2. \A i \in Gmail!Id : copies'[i] \in Gmail!Row \cup {Gmail!NoRow}
      BY <2>5 DEF LabelsInv, LabelsShape
    <3>3. \A i \in Gmail!Id : labels'[i] \in SUBSET Folder
      BY <2>5
    <3> QED BY <3>1, <3>2, <3>3
  <2>7. due' \subseteq due
    BY <1>4
  <2>8. LabelsShape'
    BY <1>1, <1>2, <2>5, <2>6, <2>7 DEF LabelsInv, LabelsShape
  <2>9. Settling' /\ AtRow'
    BY <1>1, <1>2 DEF Settling, AtRow
  <2>10. RowsOnce'
    <3> SUFFICES ASSUME NEW i \in Gmail!Id, NEW j \in Gmail!Id,
                        copies'[i] # Gmail!NoRow, copies'[j] # Gmail!NoRow,
                        copies'[i].msg = copies'[j].msg
                 PROVE  i = j
      BY <1>2 DEF RowsOnce
    <3>1. /\ copies[i] # Gmail!NoRow /\ copies[j] # Gmail!NoRow /\ copies[i].msg = copies[j].msg
          /\ copies[i].msg \in Letter
      BY <2>5, CopyFields
    <3>2. CASE copies[i].msg \in Gmail!Duplicated
      BY <2>5, <3>1, <3>2
    <3>3. CASE copies[i].msg \notin Gmail!Duplicated
      BY <3>1, <3>3, LiveRows DEF Gmail!Duplicated
    <3> QED BY <3>2, <3>3
  <2>11. CopiesKept'
    <3> SUFFICES ASSUME NEW c \in due' PROVE \E i \in Gmail!Id : HasLabel(c, i)'
      BY DEF CopiesKept
    <3>1. /\ c \in due /\ c[1] \in Letter
          /\ c[1] \in Gmail!Duplicated => \E i \in Gmail!RowsOf(c[1]) : copies[i].folder = c[2]
      BY <1>4 DEF LabelsInv, LabelsShape
    <3>2. CASE c[1] \in Gmail!Duplicated
      <4> DEFINE k == keep[c[1]]
      <4>1. k \in Gmail!Id /\ copies[k] # Gmail!NoRow /\ copies[k].msg = c[1]
        BY <2>1, <3>2
      <4>2. k \notin Gmail!Gone(keep)
        BY <2>2, <4>1
      <4>3. copies'[k] = copies[k] /\ labels'[k] = Gmail!Merged(c[1])
        BY <1>4, <3>2, <4>1, <4>2
      <4>4. c[2] \in Gmail!Merged(c[1])
        BY <2>3, <3>1, <3>2
      <4> HIDE DEF k
      <4> QED BY <4>1, <4>3, <4>4 DEF HasLabel
    <3>3. CASE c[1] \notin Gmail!Duplicated
      <4>1. PICK i \in Gmail!Id : HasLabel(c, i)
        BY <3>1 DEF LabelsInv, CopiesKept
      <4>2. copies[i] # Gmail!NoRow /\ copies[i].msg = c[1]
        BY <4>1 DEF HasLabel
      <4>3. i \notin Gmail!Gone(keep)
        BY <2>2, <3>3, <4>2
      <4>4. copies'[i] = copies[i] /\ labels'[i] = labels[i]
        BY <1>4, <3>3, <4>2, <4>3
      <4>5. "backfilled" \notin settled => "backfilled" \notin settled'
        BY <1>4
      <4> QED BY <4>1, <4>4, <4>5 DEF HasLabel
    <3> QED BY <3>2, <3>3
  <2> QED BY <2>8, <2>9, <2>10, <2>11 DEF LabelsInv
<1>5. CASE /\ settled' = settled \cup {"cleaned"}
           /\ \E keep \in [Gmail!Duplicated -> Gmail!Live] :
                 /\ \A m \in Gmail!Duplicated : copies[keep[m]].msg = m
                 /\ copies' = [i \in Gmail!Id |->
                        IF i \in Gmail!Gone(keep) THEN Gmail!NoRow ELSE copies[i]]
                 /\ labels' = [i \in Gmail!Id |->
                        IF i \in Gmail!Gone(keep) THEN {}
                        ELSE IF copies[i].msg \in Gmail!Duplicated
                             THEN Gmail!Merged(copies[i].msg)
                        ELSE labels[i]]
           /\ due' = {c \in due : c[1] \in Gmail!Duplicated =>
                          \E i \in Gmail!RowsOf(c[1]) : copies[i].folder = c[2]}
  <2>1. PICK keep \in [Gmail!Duplicated -> Gmail!Live] :
                 /\ \A m \in Gmail!Duplicated : copies[keep[m]].msg = m
                 /\ copies' = [i \in Gmail!Id |->
                        IF i \in Gmail!Gone(keep) THEN Gmail!NoRow ELSE copies[i]]
                 /\ labels' = [i \in Gmail!Id |->
                        IF i \in Gmail!Gone(keep) THEN {}
                        ELSE IF copies[i].msg \in Gmail!Duplicated
                             THEN Gmail!Merged(copies[i].msg)
                        ELSE labels[i]]
    BY <1>5
  <2> QED BY <1>4, <1>5, <2>1
<1>6. \/ UNCHANGED <<settled, copies, labels, due>>
      \/ /\ settled' = settled \cup {"cleaned"}
         /\ \E keep \in [Gmail!Duplicated -> Gmail!Live] :
               /\ \A m \in Gmail!Duplicated : copies[keep[m]].msg = m
               /\ copies' = [i \in Gmail!Id |->
                      IF i \in Gmail!Gone(keep) THEN Gmail!NoRow ELSE copies[i]]
               /\ labels' = [i \in Gmail!Id |->
                      IF i \in Gmail!Gone(keep) THEN {}
                      ELSE IF copies[i].msg \in Gmail!Duplicated
                           THEN Gmail!Merged(copies[i].msg)
                      ELSE labels[i]]
         /\ due' = {c \in due : c[1] \in Gmail!Duplicated =>
                        \E i \in Gmail!RowsOf(c[1]) : copies[i].folder = c[2]}
  BY Zenon DEF Gmail!CleanupGmailDuplicates
<1> QED BY <1>3, <1>5, <1>6, Zenon

(* A moved row still has its message, and loses the copy of its folder.    *)
LEMMA LabelsMoveEmail ==
    ASSUME LabelsInv, NEW i \in Gmail!Id, NEW f \in Folder, Gmail!MoveEmail(i, f)
    PROVE  LabelsInv'
<1>1. /\ copies[i] # Gmail!NoRow /\ copies[i].msg \in Letter /\ copies[i].folder \in Folder
      /\ copies[i] \in Gmail!Row /\ i < nextId
  BY LiveRows, CopyFields DEF Gmail!MoveEmail
<1>2. /\ copies' = [copies EXCEPT ![i].folder = f]
      /\ moves' = {v \in moves : v.id # i}
                      \cup {[id |-> i, source |-> copies[i].folder, target |-> f]}
      /\ due' = due \ {<<copies[i].msg, copies[i].folder>>}
      /\ UNCHANGED <<google, settled, labels, nextId, worker, doubled>>
  BY DEF Gmail!MoveEmail
<1>3. /\ copies' \in [Gmail!Id -> Gmail!Row \cup {Gmail!NoRow}]
      /\ \A j \in Gmail!Id : j # i => copies'[j] = copies[j]
      /\ copies'[i] \in Gmail!Row /\ copies'[i].msg = copies[i].msg
      /\ copies'[i] # Gmail!NoRow
  <2>1. copies'[i] = [copies[i] EXCEPT !.folder = f]
    BY <1>2 DEF LabelsInv, LabelsShape
  <2>2. copies'[i] \in Gmail!Row /\ copies'[i].msg = copies[i].msg
    BY <1>1, <2>1 DEF Gmail!Row
  <2>3. copies'[i] # Gmail!NoRow
    BY <1>1, <2>2, LabelsBounds DEF Gmail!NoRow
  <2> QED BY <1>2, <2>2, <2>3 DEF LabelsInv, LabelsShape
<1>4. \A j \in Gmail!Id :
          /\ copies'[j] # Gmail!NoRow <=> copies[j] # Gmail!NoRow
          /\ copies[j] # Gmail!NoRow => copies'[j].msg = copies[j].msg
  BY <1>1, <1>3
<1>5. moves' \subseteq Gmail!Move /\ \A v \in moves' : v.id < nextId
  <2>1. /\ [id |-> i, source |-> copies[i].folder, target |-> f] \in Gmail!Move
        /\ [id |-> i, source |-> copies[i].folder, target |-> f].id = i
    BY <1>1 DEF Gmail!Move
  <2> QED BY <1>1, <1>2, <2>1 DEF LabelsInv, LabelsShape
<1>6. LabelsShape'
  BY <1>1, <1>2, <1>3, <1>4, <1>5 DEF LabelsInv, LabelsShape, Gmail!Id
<1>7. Settling'
  BY <1>2 DEF LabelsInv, Settling
<1>8. AtRow'
  <2>1. worker.pc \in {"labels", "upsert"} => worker.id \in Gmail!Id
    BY WorkerFields, LabelsBounds DEF LabelsInv, AtRow, Gmail!Id
  <2> QED BY <1>2, <1>4, <2>1 DEF LabelsInv, AtRow
<1>9. RowsOnce'
  BY <1>2, <1>4 DEF LabelsInv, RowsOnce
<1>10. CopiesKept'
  <2> SUFFICES ASSUME NEW c \in due' PROVE \E j \in Gmail!Id : HasLabel(c, j)'
    BY DEF CopiesKept
  <2>1. c \in due /\ c # <<copies[i].msg, copies[i].folder>> /\ c = <<c[1], c[2]>>
    BY <1>2 DEF LabelsInv, LabelsShape
  <2>2. PICK j \in Gmail!Id : HasLabel(c, j)
    BY <2>1 DEF LabelsInv, CopiesKept
  <2>3. copies[j] # Gmail!NoRow /\ copies[j].msg = c[1]
    BY <2>2 DEF HasLabel
  <2>4. c[2] \notin labels[j] => j # i
    BY <2>1, <2>2 DEF HasLabel
  <2>5. HasLabel(c, j)'
    BY <1>2, <1>3, <1>4, <2>2, <2>3, <2>4 DEF HasLabel
  <2> QED BY <2>5
<1> QED BY <1>6, <1>7, <1>8, <1>9, <1>10 DEF LabelsInv

(* The label of the source goes and the copy there with it; a failure      *)
(* leaves the label of the target, and that is all it promises.            *)
LEMMA LabelsSyncMove ==
    ASSUME LabelsInv, NEW v \in Gmail!Move, Gmail!SyncMove(v)
    PROVE  LabelsInv'
<1> DEFINE m == copies[v.id].msg
<1>1. /\ worker.pc = "loop" /\ v \in moves /\ moves' \subseteq moves
      /\ v.id \in Gmail!Id /\ v.source \in Folder /\ v.target \in Folder /\ v.id < nextId
      /\ UNCHANGED <<google, settled, copies, nextId, worker, doubled>>
  BY DEF LabelsInv, LabelsShape, Gmail!SyncMove, Gmail!Move
<1>2. google => "backfilled" \in settled
  BY <1>1 DEF LabelsInv, Settling
<1>3. ASSUME NEW new \in SUBSET Folder, google,
             labels' = labels \/ labels' = [labels EXCEPT ![v.id] = new],
             due' \subseteq due,
             \A c \in due' : c[1] = m /\ c[2] \in labels[v.id] => c[2] \in labels'[v.id]
      PROVE  LabelsInv'
  <2>1. /\ labels' \in [Gmail!Id -> SUBSET Folder]
        /\ \A j \in Gmail!Id : j # v.id => labels'[j] = labels[j]
    BY <1>1, <1>3 DEF LabelsInv, LabelsShape
  <2>2. \A j \in Gmail!Id : nextId <= j => j # v.id
    BY <1>1 DEF LabelsInv, LabelsShape, Gmail!Id
  <2>3. LabelsShape'
    BY <1>1, <1>3, <2>1, <2>2 DEF LabelsInv, LabelsShape
  <2>4. Settling' /\ AtRow' /\ RowsOnce'
    BY <1>1, <1>3 DEF LabelsInv, Settling, AtRow, RowsOnce
  <2>5. CopiesKept'
    <3> SUFFICES ASSUME NEW c \in due' PROVE \E j \in Gmail!Id : HasLabel(c, j)'
      BY DEF CopiesKept
    <3>1. PICK j \in Gmail!Id : HasLabel(c, j)
      BY <1>3 DEF LabelsInv, CopiesKept
    <3>2. copies[j] # Gmail!NoRow /\ copies[j].msg = c[1] /\ c[2] \in labels[j]
      BY <1>2, <1>3, <3>1 DEF HasLabel
    <3>3. c[2] \in labels'[j]
      BY <1>3, <2>1, <3>2
    <3>4. HasLabel(c, j)'
      BY <1>1, <3>2, <3>3 DEF HasLabel
    <3> QED BY <3>4
  <2> QED BY <2>3, <2>4, <2>5 DEF LabelsInv
<1>4. CASE /\ google
           /\ labels' = [labels EXCEPT ![v.id] = Gmail!Relabelled(v)]
           /\ due' = due \ {<<m, v.source>>}
  <2>1. /\ Gmail!Relabelled(v) \subseteq Folder
        /\ \A g \in labels[v.id] : g # v.source => g \in Gmail!Relabelled(v)
    BY <1>1 DEF Gmail!Relabelled, LabelsInv, LabelsShape
  <2>2. labels'[v.id] = Gmail!Relabelled(v)
    BY <1>1, <1>4 DEF LabelsInv, LabelsShape
  <2>3. \A c \in due' : c[1] = m => c[2] # v.source
    BY <1>4 DEF LabelsInv, LabelsShape
  <2>4. PICK new \in SUBSET Folder : new = Gmail!Relabelled(v)
    BY <2>1
  <2> QED BY <1>3, <1>4, <2>1, <2>2, <2>3, <2>4
<1>5. CASE /\ google
           /\ labels' \in {labels, [labels EXCEPT ![v.id] = {v.target}]}
           /\ due' = {c \in due : c[1] = m => c[2] = v.target}
  <2>1. PICK new \in SUBSET Folder : new = {v.target}
    BY <1>1
  <2>2. labels' = labels \/ labels'[v.id] = new
    BY <1>1, <1>5, <2>1 DEF LabelsInv, LabelsShape
  <2> QED BY <1>3, <1>5, <2>1, <2>2
<1>6. CASE /\ ~google
           /\ due' = due \ {<<m, v.source>>}
           /\ labels' = labels
  <2>1. due' \subseteq due /\ due' \subseteq Letter \X Folder /\ CopiesKept'
    BY <1>1, <1>6, CopiesSame DEF LabelsInv, LabelsShape
  <2>2. LabelsShape' /\ Settling' /\ AtRow' /\ RowsOnce'
    BY <1>1, <1>6, <2>1 DEF LabelsInv, LabelsShape, Settling, AtRow, RowsOnce
  <2> QED BY <2>1, <2>2 DEF LabelsInv
<1> QED BY <1>4, <1>5, <1>6 DEF Gmail!SyncMove

(* A deleted row takes the copies of its message with it, and perhaps its  *)
(* labels.                                                                 *)
LEMMA LabelsDeleteEmail ==
    ASSUME LabelsInv, NEW i \in Gmail!Id, Gmail!DeleteEmail(i)
    PROVE  LabelsInv'
<1>1. /\ copies[i] # Gmail!NoRow /\ i < nextId
      /\ copies' = [copies EXCEPT ![i] = Gmail!NoRow]
      /\ labels' \in {labels, [labels EXCEPT ![i] = {}]}
      /\ due' = {c \in due : c[1] # copies[i].msg}
      /\ UNCHANGED <<google, settled, nextId, moves, worker, doubled>>
  BY LiveRows, CopyFields DEF Gmail!DeleteEmail
<1>2. /\ copies' \in [Gmail!Id -> Gmail!Row \cup {Gmail!NoRow}]
      /\ labels' \in [Gmail!Id -> SUBSET Folder]
      /\ copies'[i] = Gmail!NoRow
      /\ \A j \in Gmail!Id : j # i => copies'[j] = copies[j] /\ labels'[j] = labels[j]
      /\ \A j \in Gmail!Id : labels'[j] \subseteq labels[j]
  BY <1>1 DEF LabelsInv, LabelsShape
<1>3. LabelsShape'
  <2>1. \A j \in Gmail!Id : nextId <= j => copies'[j] = Gmail!NoRow /\ labels'[j] = {}
    BY <1>1, <1>2 DEF LabelsInv, LabelsShape
  <2> QED BY <1>1, <1>2, <2>1 DEF LabelsInv, LabelsShape
<1>4. Settling'
  BY <1>1, <1>2 DEF LabelsInv, Settling
<1>5. AtRow'
  <2>1. worker.pc \in {"labels", "upsert"} => worker.id \in Gmail!Id
    BY WorkerFields, LabelsBounds DEF LabelsInv, AtRow, Gmail!Id
  <2> QED BY <1>1, <1>2, <2>1 DEF LabelsInv, AtRow
<1>6. RowsOnce'
  BY <1>1, <1>2 DEF LabelsInv, RowsOnce
<1>7. CopiesKept'
  <2> SUFFICES ASSUME NEW c \in due' PROVE \E j \in Gmail!Id : HasLabel(c, j)'
    BY DEF CopiesKept
  <2>1. c \in due /\ c[1] # copies[i].msg
    BY <1>1
  <2>2. PICK j \in Gmail!Id : HasLabel(c, j)
    BY <2>1 DEF LabelsInv, CopiesKept
  <2>3. j # i
    BY <2>1, <2>2 DEF HasLabel
  <2>4. HasLabel(c, j)'
    BY <1>1, <1>2, <2>2, <2>3 DEF HasLabel
  <2> QED BY <2>4
<1> QED BY <1>3, <1>4, <1>5, <1>6, <1>7 DEF LabelsInv

LEMMA LabelsNext == LabelsInv /\ Gmail!Next => LabelsInv'
<1> SUFFICES ASSUME LabelsInv, Gmail!Next PROVE LabelsInv'
  OBVIOUS
<1>1. CASE \E m \in Letter, f \in Folder : Gmail!Discover(m, f) \/ Gmail!Lookup(m, f)
  BY <1>1, LabelsDiscover, LabelsLookup
<1>2. CASE \/ Gmail!DetectGmail \/ Gmail!CleanupGmailDuplicates
           \/ Gmail!BackfillGmailLabels \/ Gmail!Disconnect
  BY <1>2, LabelsDetectGmail, LabelsCleanup, LabelsBackfill, LabelsDisconnect
<1>3. CASE Gmail!GetGmailLabels \/ Gmail!UpsertEmailLabels \/ Gmail!SaveEmailToFolder
  BY <1>3, LabelsGetGmailLabels, LabelsUpsertEmailLabels, LabelsSaveEmailToFolder
<1>4. CASE \E i \in Gmail!Id, f \in Folder : Gmail!MoveEmail(i, f)
  BY <1>4, LabelsMoveEmail
<1>5. CASE \E v \in Gmail!Move : Gmail!SyncMove(v)
  BY <1>5, LabelsSyncMove
<1>6. CASE \E i \in Gmail!Id : Gmail!DeleteEmail(i)
  BY <1>6, LabelsDeleteEmail
<1> QED BY <1>1, <1>2, <1>3, <1>4, <1>5, <1>6 DEF Gmail!Next

LEMMA LabelsStutters == LabelsInv /\ UNCHANGED mailboxes => LabelsInv'
<1> SUFFICES ASSUME LabelsInv, UNCHANGED mailboxes PROVE LabelsInv'
  OBVIOUS
<1>1. UNCHANGED <<google, settled, copies, labels, nextId, moves, worker, due, doubled>>
  BY DEF mailboxes
<1>2. LabelsShape' /\ Settling' /\ AtRow' /\ RowsOnce'
  BY <1>1 DEF LabelsInv, LabelsShape, Settling, AtRow, RowsOnce
<1> QED BY <1>1, <1>2, CopiesSame DEF LabelsInv

LEMMA LabelsInTime == LabelsInv => LabelsKept
<1> SUFFICES ASSUME LabelsInv PROVE LabelsKept
  OBVIOUS
<1>1. ASSUME google, worker.pc \in {"loop", "labels", "upsert", "save"}, NEW c \in due
      PROVE  c[1] \in Gmail!Shown(c[2])
  <2>1. PICK i \in Gmail!Id : HasLabel(c, i)
    BY DEF LabelsInv, CopiesKept
  <2>2. "backfilled" \in settled
    BY <1>1 DEF LabelsInv, Settling
  <2> QED BY <2>1, <2>2, LiveRows DEF HasLabel, Gmail!Shown
<1>2. ASSUME "cleaned" \in settled, NEW m \in Letter \ doubled,
             NEW i \in Gmail!RowsOf(m), NEW j \in Gmail!RowsOf(m)
      PROVE  i = j
  BY <1>2, LiveRows DEF LabelsInv, RowsOnce
<1> QED BY <1>1, <1>2 DEF LabelsKept, Gmail!LabelsKept, Gmail!CopiesListed, Gmail!OneRowPerMessage

(* Once the worker of a Gmail account synchronises, every message ingested *)
(* from a mailbox is listed in it, and after the cleanup a message has one *)
(* row: whatever mailboxes it came from, before or after the account was   *)
(* known to be one of Google, whenever the worker was stopped, whatever    *)
(* the user moved or deleted meanwhile.                                    *)
THEOREM LabelsAreKept == MCSpec => []LabelsKept
<1>1. MCInit => LabelsInv
  BY LabelsInit DEF MCInit
<1>2. LabelsInv /\ [MCNext]_requests => LabelsInv'
  <2> SUFFICES ASSUME LabelsInv, [MCNext]_requests PROVE LabelsInv'
    OBVIOUS
  <2>1. CASE UNCHANGED mailboxes
    BY <2>1, LabelsStutters
  <2>2. CASE Gmail!Next
    BY <2>2, LabelsNext
  <2> QED BY <2>1, <2>2 DEF MCNext, requests
<1>3. LabelsInv => LabelsKept
  BY LabelsInTime
<1> QED BY <1>1, <1>2, <1>3, PTL DEF MCSpec

-----------------------------------------------------------------------------
(* The rows of folders.                                                    *)

LEMMA FolderBounds ==
    /\ NoPath \notin Path /\ Mailbox \subseteq Path /\ Inbox \in Mailbox
    /\ Inbox \in Path /\ Trash \in Path
    /\ Worker \subseteq Syncer /\ MaxId \in Nat /\ MaxMail \in Nat
BY RequestsAssumption DEF RequestsAssumption, FolderRows!FolderListAssumption

FolderRow == [path : Path \cup {NoPath}, lower : Path \cup {NoPath}, last : Nat]
PassSteps == {"idle", "folder", "read", "fetch", "enqueue", "save", "checkpoint", "panic"}
Pass == [pc : PassSteps, todo : SUBSET Mailbox, listed : [Path -> [id : Nat, last : Nat]],
         loaded : BOOLEAN, cache : [Path -> Nat], at : Path \cup {NoPath}, id : Nat,
         folder : Nat, last : Nat, pos : Nat, end : Nat, top : Nat, batch : Nat]

FoldersShape ==
    /\ mail \in [Mailbox -> Nat]
    /\ folders \in [FolderRows!Id -> FolderRow]
    /\ nextFolder \in Nat /\ 0 < nextFolder
    /\ started \in Nat /\ started <= nextFolder
    /\ syncer \in [Syncer -> Pass]
    /\ \A s \in Syncer : syncer[s].pc \notin {"idle", "folder"} => syncer[s].at \in Path
    /\ tasks \subseteq Path \X Nat /\ done \subseteq Path \X Nat

(* A path has one row at most.                                             *)
RowsApart ==
    \A i \in FolderRows!Id :
        /\ folders[i].path = NoPath => folders[i] = FolderRows!NoRow
        /\ nextFolder <= i => folders[i] = FolderRows!NoRow
        /\ \A j \in FolderRows!Id :
               folders[i].path = folders[j].path /\ folders[i].path # NoPath => i = j

(* Trash is found by its name once the server was started with it.         *)
TrashNamed ==
    /\ \A i \in FolderRows!Id :
          /\ folders[i].path = Trash => folders[i].lower \in {NoPath, Trash}
          /\ i < started /\ folders[i].path # NoPath => folders[i].lower # NoPath
    /\ \A pair \in erased : pair[1] >= pair[2]

(* Who has the id of a row for a path is right, in both directions, unless *)
(* the path was renamed or its row taken away.                             *)
Names(i, p) ==
    /\ i \in FolderRows!Id /\ i < nextFolder
    /\ p \in FolderRows!Steady => folders[i].path = p
    /\ folders[i].path \in FolderRows!Steady => folders[i].path = p

Saved(i, p, u) ==
    \/ <<p, u>> \in tasks \/ <<p, u>> \in gone \/ <<p, u>> \in missed \/ <<p, u>> \in outlived
    \/ \E e \in emails : e.folder = i /\ e.uid = u

(* The messages of a mailbox up to a UID are saved, queued or excused.     *)
Reached(i, p, n) ==
    p \in FolderRows!Steady /\ i \notin deleting =>
        \A u \in Nat : 0 < u /\ u <= n => Saved(i, p, u)

(* What a pass has listed, cached and is at are rows of these paths.       *)
Knows(r) ==
    /\ \A p \in Path : r.listed[p].id # 0 => Names(r.listed[p].id, p)
    /\ \A p \in Path : r.cache[p] # 0 => Names(r.cache[p], p)
    /\ r.pc = "save" => Names(r.folder, r.at)
    /\ r.pc \in {"fetch", "checkpoint", "enqueue"} => r.id # 0
    /\ r.pc \in {"read", "fetch", "checkpoint", "enqueue"} => r.end # 0
    /\ r.pc = "save" /\ r.end # 0 => r.id # 0
    /\ r.pc \in {"read", "fetch", "checkpoint", "enqueue", "save"} /\ r.end # 0 /\ r.id # 0 =>
          Names(r.id, r.at)

(* The cursors it remembers, and the messages it is through with.          *)
IsThrough(r) ==
    /\ \A p \in Path : /\ r.listed[p].id # 0 => Reached(r.listed[p].id, p, r.listed[p].last)
                       /\ r.listed[p].id = 0 => r.listed[p].last = 0
    /\ r.pc \in {"read", "enqueue"} /\ r.id # 0 => Reached(r.id, r.at, r.last)
    /\ r.pc = "read" /\ r.id = 0 => r.last = 0
    /\ r.pc \in {"folder", "read"} => r.top = 0
    /\ r.pc \in {"fetch", "checkpoint", "save"} /\ r.end # 0 =>
          r.pos > 0 /\ r.top < r.pos /\ Reached(r.id, r.at, r.pos - 1)

PassesRight == \A s \in Syncer : syncer[s].pc # "idle" => Knows(syncer[s]) /\ IsThrough(syncer[s])

EmailsNamed == \A e \in emails : Names(e.folder, e.path)

RowsReached == \A i \in FolderRows!Id : Reached(i, folders[i].path, folders[i].last)

(* A task that is completed has its message, unless the row goes away.     *)
Backed(p, u) ==
    \/ <<p, u>> \in gone \/ <<p, u>> \in missed \/ <<p, u>> \in outlived
    \/ \E e \in emails : e.path = p /\ e.uid = u
    \/ \E i \in FolderRows!Id : i \in deleting /\ folders[i].path = p

DoneBacked ==
    \A p \in FolderRows!Steady, u \in Nat : <<p, u>> \in done => Backed(p, u)

FoldersInv ==
    /\ FoldersShape /\ RowsApart /\ TrashNamed /\ PassesRight /\ EmailsNamed /\ RowsReached
    /\ DoneBacked

LEMMA RestOf ==
    /\ FolderRows!AtRest \in Pass /\ FolderRows!AtRest.pc = "idle"
    /\ FolderRows!NoRow \in FolderRow
    /\ FolderRows!NoRow.path = NoPath /\ FolderRows!NoRow.lower = NoPath
    /\ FolderRows!NoRow.last = 0
    /\ FolderRows!NoRow = [path |-> NoPath, lower |-> NoPath, last |-> 0]
<1>1. FolderRows!Unlisted \in [Path -> [id : Nat, last : Nat]]
  BY DEF FolderRows!Unlisted
<1>2. FolderRows!Uncached \in [Path -> Nat]
  BY DEF FolderRows!Uncached
<1>3. FolderRows!AtRest \in Pass /\ FolderRows!AtRest.pc = "idle"
  BY <1>1, <1>2 DEF FolderRows!AtRest, Pass, PassSteps
<1> QED BY <1>3 DEF FolderRows!NoRow, FolderRow

LEMMA FoldersInit == FolderRows!Init => FoldersInv
<1> SUFFICES ASSUME FolderRows!Init PROVE FoldersInv
  OBVIOUS
<1>1. /\ mail \in [Mailbox -> 0 .. 1]
      /\ folders = [i \in FolderRows!Id |-> FolderRows!NoRow] /\ nextFolder = 1
      /\ emails = {} /\ tasks = {} /\ done = {} /\ syncer = [s \in Syncer |-> FolderRows!AtRest]
      /\ started = 1 /\ erased = {}
  BY DEF FolderRows!Init
<1>2. FoldersShape
  BY <1>1, RestOf DEF FoldersShape
<1>3. RowsApart /\ TrashNamed
  BY <1>1, RestOf, FolderBounds DEF RowsApart, TrashNamed
<1>4. PassesRight /\ EmailsNamed /\ DoneBacked
  BY <1>1, RestOf DEF PassesRight, EmailsNamed, DoneBacked
<1>5. RowsReached
  BY <1>1, RestOf, FolderBounds DEF RowsReached, Reached, FolderRows!Steady
<1> QED BY <1>2, <1>3, <1>4, <1>5 DEF FoldersInv

LEMMA PassFields ==
    ASSUME NEW r \in Pass
    PROVE  /\ r.pc \in PassSteps /\ r.todo \subseteq Mailbox
           /\ r.listed \in [Path -> [id : Nat, last : Nat]]
           /\ \A p \in Path : r.listed[p].id \in Nat /\ r.listed[p].last \in Nat
           /\ r.cache \in [Path -> Nat] /\ r.at \in Path \cup {NoPath}
           /\ r.id \in Nat /\ r.folder \in Nat /\ r.last \in Nat /\ r.pos \in Nat /\ r.end \in Nat
           /\ r.top \in Nat /\ r.batch \in Nat
BY DEF Pass

(* The row of a path, when it has one.                                     *)
LEMMA RowOf ==
    ASSUME FoldersInv, NEW p \in Path
    PROVE  /\ FolderRows!FolderOf(p) \in Nat
           /\ FolderRows!FolderOf(p) = 0 => \A i \in FolderRows!Id : folders[i].path # p
           /\ FolderRows!FolderOf(p) # 0 =>
                 /\ Names(FolderRows!FolderOf(p), p)
                 /\ FolderRows!FolderOf(p) \in FolderRows!Id
                 /\ folders[FolderRows!FolderOf(p)].path = p
<1>1. CASE \E i \in FolderRows!Id : folders[i].path = p
  <2>1. PICK i \in FolderRows!Id : i = FolderRows!FolderOf(p) /\ folders[i].path = p
    BY <1>1, Zenon DEF FolderRows!FolderOf
  <2>2. i \in Nat /\ i # 0 /\ i < nextFolder
    BY <2>1, FolderBounds, RestOf DEF FolderRows!Id, FoldersInv, FoldersShape, RowsApart
  <2> QED BY <2>1, <2>2 DEF Names
<1>2. CASE \A i \in FolderRows!Id : folders[i].path # p
  <2>1. FolderRows!FolderOf(p) = 0
    BY <1>2, Zenon DEF FolderRows!FolderOf
  <2> QED BY <1>2, <2>1
<1> QED BY <1>1, <1>2

(* A step that does not lead astray who remembers this row: its path stays *)
(* or is unsteady, and what was reached of it is still reached.            *)
Gentle(i) ==
    /\ \/ folders'[i].path = folders[i].path
       \/ folders[i].path \notin FolderRows!Steady' /\ folders'[i].path \notin FolderRows!Steady'
    /\ \A p \in FolderRows!Steady' :
          Names(i, p) /\ i \notin deleting' =>
              i \notin deleting /\ \A u \in Nat : Saved(i, p, u) => Saved(i, p, u)'

Onward == FolderRows!Steady' \subseteq FolderRows!Steady /\ nextFolder <= nextFolder'
              /\ nextFolder \in Nat /\ nextFolder' \in Nat

LEMMA NameStays ==
    ASSUME NEW i, NEW p, Names(i, p), Gentle(i), Onward
    PROVE  Names(i, p)'
<1>1. i \in FolderRows!Id /\ i \in Nat /\ i < nextFolder'
  BY FolderBounds DEF Names, Onward, FolderRows!Id
<1> QED BY <1>1 DEF Names, Gentle, Onward

LEMMA ReachedStays ==
    ASSUME NEW i, NEW p, NEW n, Names(i, p), Gentle(i), Onward, Reached(i, p, n)
    PROVE  Reached(i, p, n)'
BY DEF Reached, Gentle, Onward

LEMMA PassStays ==
    ASSUME NEW r \in Pass, Knows(r), IsThrough(r), Onward,
           \A i \in {r.id, r.folder} \cup {r.listed[p].id : p \in Path}
                        \cup {r.cache[p] : p \in Path} :
               i \in FolderRows!Id /\ i < nextFolder => Gentle(i)
    PROVE  Knows(r)' /\ IsThrough(r)'
<1>1. ASSUME NEW p \in Path, r.listed[p].id # 0
      PROVE  Names(r.listed[p].id, p)' /\ Reached(r.listed[p].id, p, r.listed[p].last)'
  <2>1. PICK i : i = r.listed[p].id
    OBVIOUS
  <2>2. PICK n : n = r.listed[p].last
    OBVIOUS
  <2>3. Names(i, p) /\ Reached(i, p, n)
    BY <1>1, <2>1, <2>2 DEF Knows, IsThrough
  <2>4. Gentle(i)
    BY <2>1, <2>3 DEF Names
  <2>5. Names(i, p)' /\ Reached(i, p, n)'
    BY <2>3, <2>4, NameStays, ReachedStays
  <2> QED BY <2>1, <2>2, <2>5
<1>2. ASSUME NEW p \in Path, r.cache[p] # 0
      PROVE  Names(r.cache[p], p)'
  <2>1. PICK i : i = r.cache[p]
    OBVIOUS
  <2>2. Names(i, p)
    BY <1>2, <2>1 DEF Knows
  <2>3. Gentle(i)
    BY <2>1, <2>2 DEF Names
  <2>4. Names(i, p)'
    BY <2>2, <2>3, NameStays
  <2> QED BY <2>1, <2>4
<1>3. r.pc = "save" => Names(r.folder, r.at)'
  <2> SUFFICES ASSUME r.pc = "save" PROVE Names(r.folder, r.at)'
    OBVIOUS
  <2>1. Names(r.folder, r.at)
    BY DEF Knows
  <2>2. Gentle(r.folder)
    BY <2>1 DEF Names
  <2> QED BY <2>1, <2>2, NameStays
<1>4. ASSUME r.pc \in {"read", "fetch", "checkpoint", "enqueue", "save"}, r.end # 0, r.id # 0
      PROVE  Names(r.id, r.at)' /\ Gentle(r.id) /\ Names(r.id, r.at)
  <2>1. Names(r.id, r.at)
    BY <1>4 DEF Knows
  <2>2. Gentle(r.id)
    BY <2>1 DEF Names
  <2> QED BY <2>1, <2>2, NameStays
<1>5. Knows(r)'
  BY <1>1, <1>2, <1>3, <1>4 DEF Knows
<1>6. r.pc \in {"read", "enqueue"} /\ r.id # 0 => Reached(r.id, r.at, r.last)'
  <2> SUFFICES ASSUME r.pc \in {"read", "enqueue"}, r.id # 0 PROVE Reached(r.id, r.at, r.last)'
    OBVIOUS
  <2>1. r.end # 0 /\ Reached(r.id, r.at, r.last)
    BY DEF Knows, IsThrough
  <2> QED BY <1>4, <2>1, ReachedStays
<1>7. r.pc \in {"fetch", "checkpoint", "save"} /\ r.end # 0 =>
          r.pos > 0 /\ Reached(r.id, r.at, r.pos - 1)'
  <2> SUFFICES ASSUME r.pc \in {"fetch", "checkpoint", "save"}, r.end # 0
               PROVE  r.pos > 0 /\ Reached(r.id, r.at, r.pos - 1)'
    OBVIOUS
  <2>1. PICK n : n = r.pos - 1
    OBVIOUS
  <2>2. r.id # 0 /\ r.pos > 0 /\ Reached(r.id, r.at, n)
    BY <2>1 DEF Knows, IsThrough
  <2>3. Reached(r.id, r.at, n)'
    BY <1>4, <2>2, ReachedStays
  <2> QED BY <2>1, <2>2, <2>3
<1>8. IsThrough(r)'
  BY <1>1, <1>6, <1>7 DEF IsThrough
<1> QED BY <1>5, <1>8

(* Passes that stand still.                                                *)
LEMMA PassesStay ==
    ASSUME FoldersInv, Onward, NEW S \in SUBSET Syncer,
           \A s \in S : syncer'[s] = syncer[s],
           \A i \in FolderRows!Id : i < nextFolder /\ FolderRows!Remembered(i) => Gentle(i)
    PROVE  \A s \in S : syncer'[s].pc # "idle" => Knows(syncer[s])' /\ IsThrough(syncer[s])'
<1> SUFFICES ASSUME NEW s \in S, syncer'[s].pc # "idle"
             PROVE  Knows(syncer[s])' /\ IsThrough(syncer[s])'
  OBVIOUS
<1>1. PICK r : r = syncer[s]
  OBVIOUS
<1>2. r \in Pass /\ r.pc # "idle" /\ r = syncer'[s]
  BY <1>1 DEF FoldersInv, FoldersShape
<1>3. Knows(r) /\ IsThrough(r)
  BY <1>1, <1>2 DEF FoldersInv, PassesRight
<1>4. ASSUME NEW i \in {r.id, r.folder} \cup {r.listed[p].id : p \in Path}
                           \cup {r.cache[p] : p \in Path},
             i \in FolderRows!Id, i < nextFolder
      PROVE  Gentle(i)
  <2>1. FolderRows!Remembered(i)
    BY <1>1, <1>2, <1>4 DEF FolderRows!Remembered
  <2> QED BY <1>4, <2>1
<1>5. Knows(r)' /\ IsThrough(r)'
  BY <1>2, <1>3, <1>4, PassStays
<1> QED BY <1>2, <1>5 DEF Knows, IsThrough

(* One pass moves on.                                                      *)
LEMMA PassMoves ==
    ASSUME FoldersInv, Onward, NEW s \in Syncer, NEW r \in Pass, FolderRows!Becomes(s, r),
           \A i \in FolderRows!Id : i < nextFolder => Gentle(i),
           r.pc \notin {"idle", "folder"} => r.at \in Path,
           r.pc # "idle" => Knows(r)' /\ IsThrough(r)'
    PROVE  /\ PassesRight' /\ syncer' \in [Syncer -> Pass]
           /\ \A t \in Syncer : syncer'[t].pc \notin {"idle", "folder"} => syncer'[t].at \in Path
<1>1. /\ syncer' \in [Syncer -> Pass] /\ syncer'[s] = r
      /\ \A t \in Syncer : t # s => syncer'[t] = syncer[t]
  BY DEF FoldersInv, FoldersShape, FolderRows!Becomes
<1>2. \A t \in Syncer \ {s} : syncer'[t].pc # "idle" => Knows(syncer[t])' /\ IsThrough(syncer[t])'
  BY <1>1, PassesStay
<1>3. syncer'[s].pc # "idle" => Knows(syncer[s])' /\ IsThrough(syncer[s])'
  BY <1>1 DEF Knows, IsThrough
<1>4. PassesRight'
  BY <1>2, <1>3 DEF PassesRight
<1> QED BY <1>1, <1>4 DEF FoldersInv, FoldersShape

(* The cursor of a row whose path is not touched.                          *)
LEMMA RowStays ==
    ASSUME FoldersInv, Onward, NEW i \in FolderRows!Id, Gentle(i),
           folders'[i].last = folders[i].last
    PROVE  Reached(i, folders[i].path, folders[i].last)'
<1>1. PICK p : p = folders'[i].path
  OBVIOUS
<1>2. PICK n : n = folders[i].last
  OBVIOUS
<1>3. CASE p \notin FolderRows!Steady'
  BY <1>1, <1>3 DEF Reached
<1>4. CASE p \in FolderRows!Steady'
  <2>1. p = folders[i].path /\ p \in Path
    BY <1>1, <1>4 DEF Gentle, FolderRows!Steady
  <2>2. i < nextFolder
    BY <2>1, FolderBounds, RestOf
       DEF FoldersInv, FoldersShape, RowsApart, FolderRows!Id
  <2>3. Names(i, p) /\ Reached(i, p, n)
    BY <1>2, <2>1, <2>2 DEF Names, FoldersInv, RowsReached
  <2>4. Reached(i, p, n)'
    BY <2>3, ReachedStays
  <2> QED BY <1>1, <1>2, <2>4 DEF Reached
<1> QED BY <1>3, <1>4

(* Rows stay, or one is made for a path that has none.                     *)
RowsGrow ==
    \/ UNCHANGED <<folders, nextFolder>>
    \/ \E p \in Path : FolderRows!FolderOf(p) = 0 /\ FolderRows!Create(p)

LEMMA CreatedRow ==
    ASSUME FoldersInv, NEW p \in Path, FolderRows!Create(p), NEW k, k = nextFolder
    PROVE  /\ nextFolder \in FolderRows!Id /\ nextFolder' = nextFolder + 1
           /\ nextFolder \in Nat /\ nextFolder > 0
           /\ folders' \in [FolderRows!Id -> FolderRow]
           /\ folders[nextFolder] = FolderRows!NoRow
           /\ folders'[nextFolder].path = p /\ folders'[nextFolder].lower = NoPath
           /\ folders'[nextFolder].last = 0
           /\ \A i \in FolderRows!Id : i # nextFolder => folders'[i] = folders[i]
           /\ Names(k, p)'
<1>1. /\ nextFolder \in Nat /\ nextFolder > 0 /\ nextFolder <= MaxId /\ nextFolder' = nextFolder + 1
      /\ folders' = [folders EXCEPT ![nextFolder] = [FolderRows!NoRow EXCEPT !.path = p]]
      /\ folders \in [FolderRows!Id -> FolderRow]
  BY DEF FoldersInv, FoldersShape, FolderRows!Create
<1>2. nextFolder \in FolderRows!Id
  BY <1>1, FolderBounds DEF FolderRows!Id
<1>3. /\ [FolderRows!NoRow EXCEPT !.path = p] \in FolderRow
      /\ [FolderRows!NoRow EXCEPT !.path = p].path = p
      /\ [FolderRows!NoRow EXCEPT !.path = p].lower = NoPath
      /\ [FolderRows!NoRow EXCEPT !.path = p].last = 0
  BY RestOf DEF FolderRow
<1>4. folders[nextFolder] = FolderRows!NoRow
  BY <1>1, <1>2 DEF FoldersInv, RowsApart
<1>5. /\ folders' \in [FolderRows!Id -> FolderRow]
      /\ folders'[nextFolder] = [FolderRows!NoRow EXCEPT !.path = p]
      /\ \A i \in FolderRows!Id : i # nextFolder => folders'[i] = folders[i]
  BY <1>1, <1>2, <1>3
<1>6. Names(k, p)'
  BY <1>1, <1>2, <1>3, <1>5 DEF Names
<1> QED BY <1>1, <1>2, <1>3, <1>4, <1>5, <1>6

LEMMA RowsGrown ==
    ASSUME FoldersInv, RowsGrow, UNCHANGED started
    PROVE  /\ folders' \in [FolderRows!Id -> FolderRow] /\ nextFolder' \in Nat /\ 0 < nextFolder'
           /\ nextFolder <= nextFolder' /\ started' <= nextFolder'
           /\ RowsApart' /\ ((\A pair \in erased' : pair[1] >= pair[2]) => TrashNamed')
           /\ \A i \in FolderRows!Id : i < nextFolder => folders'[i] = folders[i]
           /\ \A i \in FolderRows!Id : folders'[i] # folders[i] => folders'[i].last = 0
<1>1. CASE UNCHANGED <<folders, nextFolder>>
  BY <1>1 DEF FoldersInv, FoldersShape, RowsApart, TrashNamed
<1>2. CASE \E p \in Path : FolderRows!FolderOf(p) = 0 /\ FolderRows!Create(p)
  <2>1. PICK p \in Path : FolderRows!FolderOf(p) = 0 /\ FolderRows!Create(p)
    BY <1>2
  <2>2. \A i \in FolderRows!Id : folders[i].path # p
    BY <2>1, RowOf
  <2>3. /\ nextFolder \in FolderRows!Id /\ nextFolder' = nextFolder + 1
        /\ nextFolder \in Nat /\ nextFolder > 0
        /\ folders' \in [FolderRows!Id -> FolderRow]
        /\ folders[nextFolder] = FolderRows!NoRow
        /\ folders'[nextFolder].path = p /\ folders'[nextFolder].lower = NoPath
        /\ folders'[nextFolder].last = 0
        /\ \A i \in FolderRows!Id : i # nextFolder => folders'[i] = folders[i]
    BY <2>1, CreatedRow
  <2>4. p # NoPath /\ started <= nextFolder /\ started \in Nat
    BY FolderBounds DEF FoldersInv, FoldersShape
  <2>5. RowsApart'
    <3> SUFFICES ASSUME NEW i \in FolderRows!Id
                 PROVE  /\ folders'[i].path = NoPath => folders'[i] = FolderRows!NoRow
                        /\ nextFolder' <= i => folders'[i] = FolderRows!NoRow
                        /\ \A j \in FolderRows!Id :
                             folders'[i].path = folders'[j].path /\ folders'[i].path # NoPath => i = j
      BY DEF RowsApart
    <3>1. i \in Nat
      BY FolderBounds DEF FolderRows!Id
    <3>2. CASE i = nextFolder
      <4>1. folders'[i].path = p /\ ~(nextFolder' <= i)
        BY <2>3, <3>2
      <4>2. \A j \in FolderRows!Id : j # i => folders'[j].path # p
        BY <2>2, <2>3, <3>2
      <4> QED BY <2>4, <4>1, <4>2
    <3>3. CASE i # nextFolder
      BY <2>2, <2>3, <2>4, <3>1, <3>3 DEF FoldersInv, RowsApart
    <3> QED BY <3>2, <3>3
  <2>6. (\A pair \in erased' : pair[1] >= pair[2]) => TrashNamed'
    BY <2>3, <2>4 DEF FoldersInv, TrashNamed
  <2>7. \A i \in FolderRows!Id : i \in Nat
    BY FolderBounds DEF FolderRows!Id
  <2>8. \A i \in FolderRows!Id : i < nextFolder => folders'[i] = folders[i]
    BY <2>3, <2>7
  <2>9. \A i \in FolderRows!Id : folders'[i] # folders[i] => folders'[i].last = 0
    BY <2>3
  <2>10. nextFolder' \in Nat /\ 0 < nextFolder' /\ nextFolder <= nextFolder' /\ started' <= nextFolder'
    BY <2>3, <2>4
  <2> QED BY <2>3, <2>5, <2>6, <2>8, <2>9, <2>10
<1> QED BY <1>1, <1>2 DEF RowsGrow

(* What is completed keeps its message, or is excused.                     *)
LEMMA DoneStays ==
    ASSUME FoldersInv, Onward, gone \subseteq gone', missed \subseteq missed', outlived \subseteq outlived',
           \A p \in Path, u \in Nat : <<p, u>> \in done' =>
               <<p, u>> \in done \/ \E e \in emails' : e.path = p /\ e.uid = u,
           \A i \in FolderRows!Id : i < nextFolder /\ i \in deleting' =>
               folders'[i].path = folders[i].path \/ folders[i].path \notin FolderRows!Steady',
           \A i \in FolderRows!Id : i \in deleting =>
               \/ i \in deleting' \/ folders[i].path \notin FolderRows!Steady'
               \/ \A u \in Nat : <<folders[i].path, u>> \in done => <<folders[i].path, u>> \in outlived',
           \A e \in emails : e \in emails' \/ <<e.path, e.uid>> \in gone' \/ e.folder \in deleting'
    PROVE  DoneBacked'
<1> SUFFICES ASSUME NEW p \in FolderRows!Steady', NEW u \in Nat, <<p, u>> \in done'
             PROVE  Backed(p, u)'
  BY DEF DoneBacked
<1>1. p \in FolderRows!Steady /\ p \in Path /\ p # NoPath
  BY FolderBounds DEF Onward, FolderRows!Steady
<1>2. CASE \E e \in emails' : e.path = p /\ e.uid = u
  BY <1>2 DEF Backed
<1>3. ASSUME NEW i \in FolderRows!Id, folders[i].path = p, i \in deleting'
      PROVE  folders'[i].path = p
  <2>1. i < nextFolder
    BY <1>1, <1>3, FolderBounds, RestOf DEF FoldersInv, FoldersShape, RowsApart, FolderRows!Id
  <2> QED BY <1>3, <2>1
<1>4. CASE <<p, u>> \in done
  <2>1. Backed(p, u)
    BY <1>1, <1>4 DEF FoldersInv, DoneBacked
  <2>2. CASE <<p, u>> \in gone \/ <<p, u>> \in missed \/ <<p, u>> \in outlived
    BY <2>2 DEF Backed
  <2>3. CASE \E e \in emails : e.path = p /\ e.uid = u
    <3>1. PICK e \in emails : e.path = p /\ e.uid = u
      BY <2>3
    <3>2. CASE e \in emails' \/ <<e.path, e.uid>> \in gone'
      BY <3>1, <3>2 DEF Backed
    <3>3. CASE e.folder \in deleting'
      <4>1. e.folder \in FolderRows!Id /\ folders[e.folder].path = p
        BY <1>1, <3>1 DEF FoldersInv, EmailsNamed, Names
      <4> QED BY <1>3, <3>3, <4>1 DEF Backed
    <3> QED BY <3>2, <3>3
  <2>4. CASE \E i \in FolderRows!Id : i \in deleting /\ folders[i].path = p
    <3>1. PICK i \in FolderRows!Id : i \in deleting /\ folders[i].path = p
      BY <2>4
    <3>2. CASE i \in deleting'
      BY <1>3, <3>1, <3>2 DEF Backed
    <3>3. CASE <<p, u>> \in outlived'
      BY <3>3 DEF Backed
    <3> QED BY <1>4, <3>1, <3>2, <3>3
  <2> QED BY <2>1, <2>2, <2>3, <2>4 DEF Backed
<1> QED BY <1>1, <1>2, <1>4

LEMMA Grown ==
    ASSUME FoldersInv, RowsGrow, UNCHANGED <<deleting, started, erased, renamed, stale, gone, missed, outlived, emails>>,
           tasks \subseteq tasks'
    PROVE  Onward /\ \A i \in FolderRows!Id : i < nextFolder => Gentle(i)
<1>1. FolderRows!Steady' = FolderRows!Steady
  BY DEF FolderRows!Steady
<1>2. Onward
  BY <1>1, RowsGrown DEF Onward, FoldersInv, FoldersShape
<1>3. ASSUME NEW i \in FolderRows!Id, i < nextFolder PROVE Gentle(i)
  <2>1. folders'[i] = folders[i]
    BY <1>3, RowsGrown
  <2>2. \A p \in Path, u \in Nat : Saved(i, p, u) => Saved(i, p, u)'
    BY DEF Saved
  <2> QED BY <2>1, <2>2 DEF Gentle, FolderRows!Steady
<1> QED BY <1>2, <1>3

(* A step of a pass that takes nothing away and moves no cursor.           *)
LEMMA PassSteps1 ==
    ASSUME FoldersInv, NEW s \in Syncer, NEW r \in Pass, FolderRows!Becomes(s, r), RowsGrow,
           UNCHANGED <<mail, done, deleting, started, erased, renamed, stale, gone, missed, outlived,
                       emails>>,
           tasks \subseteq tasks', tasks' \subseteq Path \X Nat,
           r.pc \notin {"idle", "folder"} => r.at \in Path,
           r.pc # "idle" => Knows(r)' /\ IsThrough(r)'
    PROVE  FoldersInv'
<1>1. Onward /\ \A i \in FolderRows!Id : i < nextFolder => Gentle(i)
  BY Grown
<1>2. /\ PassesRight' /\ syncer' \in [Syncer -> Pass]
      /\ \A t \in Syncer : syncer'[t].pc \notin {"idle", "folder"} => syncer'[t].at \in Path
  BY <1>1, PassMoves
<1>3. FoldersShape' /\ RowsApart' /\ TrashNamed'
  BY <1>2, RowsGrown DEF FoldersInv, FoldersShape, TrashNamed
<1>4. EmailsNamed'
  <2> SUFFICES ASSUME NEW e \in emails PROVE Names(e.folder, e.path)'
    BY DEF EmailsNamed
  <2>1. Names(e.folder, e.path)
    BY DEF FoldersInv, EmailsNamed
  <2> QED BY <1>1, <2>1, NameStays DEF Names
<1>5. RowsReached'
  <2> SUFFICES ASSUME NEW i \in FolderRows!Id PROVE Reached(i, folders[i].path, folders[i].last)'
    BY DEF RowsReached
  <2>1. CASE folders'[i].path \in FolderRows!Steady' /\ i < nextFolder
    <3>1. folders'[i] = folders[i]
      BY <2>1, RowsGrown
    <3> QED BY <1>1, <2>1, <3>1, RowStays
  <2>2. CASE folders'[i].path \notin FolderRows!Steady'
    BY <2>2 DEF Reached
  <2>3. CASE folders'[i].last = 0
    BY <2>3 DEF Reached
  <2>4. CASE folders'[i] = folders[i] /\ ~(i < nextFolder)
    <3>1. folders[i] = FolderRows!NoRow
      BY <2>4, FolderBounds DEF FoldersInv, FoldersShape, RowsApart, FolderRows!Id
    <3> QED BY <2>4, <3>1, RestOf, FolderBounds DEF Reached, FolderRows!Steady
  <2> QED BY <2>1, <2>2, <2>3, <2>4, RowsGrown
<1>6. DoneBacked'
  BY <1>1, DoneStays DEF Gentle
<1> QED BY <1>2, <1>3, <1>4, <1>5, <1>6 DEF FoldersInv

LEMMA PassAt ==
    ASSUME FoldersInv, NEW s \in Syncer, syncer[s].pc # "idle"
    PROVE  /\ syncer[s] \in Pass /\ Knows(syncer[s]) /\ IsThrough(syncer[s])
           /\ syncer[s].pc \notin {"idle", "folder"} => syncer[s].at \in Path
BY DEF FoldersInv, FoldersShape, PassesRight

(* Listing the folders: what it finds is as the rows are.                  *)
LEMMA ListingRight ==
    ASSUME FoldersInv, NEW b \in Pass, NEW T \in SUBSET Mailbox,
           \A p \in Path : b.cache[p] # 0 => Names(b.cache[p], p), b.top = 0
    PROVE  LET r == FolderRows!Listing(b, T)
           IN r \in Pass /\ r.pc = "folder" /\ Knows(r) /\ IsThrough(r)
<1> DEFINE L == [p \in Path |->
                    LET id == FolderRows!FolderOf(p)
                    IN [id |-> id, last |-> IF id = 0 THEN 0 ELSE folders[id].last]]
           r == [b EXCEPT !.pc = "folder", !.todo = T, !.listed = L]
<1>1. FolderRows!Listing(b, T) = r
  BY DEF FolderRows!Listing
<1>2. ASSUME NEW p \in Path
      PROVE  /\ L[p] \in [id : Nat, last : Nat]
             /\ L[p].id # 0 => Names(L[p].id, p) /\ Reached(L[p].id, p, L[p].last)
             /\ L[p].id = 0 => L[p].last = 0
  <2>1. PICK i : i = FolderRows!FolderOf(p)
    OBVIOUS
  <2>2. L[p] = [id |-> i, last |-> IF i = 0 THEN 0 ELSE folders[i].last]
    BY <2>1
  <2>3. /\ i \in Nat
        /\ i # 0 => Names(i, p) /\ i \in FolderRows!Id /\ folders[i].path = p
    BY <2>1, RowOf
  <2>4. i # 0 => folders[i].last \in Nat /\ Reached(i, p, folders[i].last)
    BY <2>3 DEF FoldersInv, FoldersShape, FolderRow, RowsReached
  <2> QED BY <2>2, <2>3, <2>4
<1>3. L \in [Path -> [id : Nat, last : Nat]]
  BY <1>2
<1> HIDE DEF L
<1>4. r \in Pass /\ r.pc = "folder" /\ r.listed = L /\ r.cache = b.cache /\ r.top = 0
  BY <1>3 DEF Pass, PassSteps
<1> HIDE DEF r
<1>5. Knows(r)
  BY <1>2, <1>4 DEF Knows
<1>6. IsThrough(r)
  BY <1>2, <1>4 DEF IsThrough
<1> QED BY <1>1, <1>4, <1>5, <1>6

(* When only passes move, what holds of them holds on.                     *)
LEMMA PassSame ==
    ASSUME NEW r,
           UNCHANGED <<folders, nextFolder, emails, tasks, deleting, gone, missed, outlived,
                       renamed, stale>>
    PROVE  (Knows(r) => Knows(r)') /\ (IsThrough(r) => IsThrough(r)')
BY DEF Knows, IsThrough, Names, Reached, Saved, FolderRows!Steady

LEMMA FoldersSyncAllFolders ==
    ASSUME FoldersInv, NEW s \in Syncer,
           FolderRows!SyncAllFolders(s) \/ FolderRows!SyncNonInboxFolders(s)
    PROVE  FoldersInv'
<1>1. /\ UNCHANGED <<mail, folders, nextFolder, emails, tasks, done, deleting>>
      /\ UNCHANGED <<started, gone, missed, outlived, erased, renamed, stale>>
  BY DEF FolderRows!SyncAllFolders, FolderRows!SyncNonInboxFolders, FolderRows!history, FolderRows!queue
<1>2. ASSUME NEW r \in Pass, r.pc = "folder", Knows(r), IsThrough(r), FolderRows!Becomes(s, r)
      PROVE  FoldersInv'
  <2>1. Knows(r)' /\ IsThrough(r)'
    BY <1>1, <1>2, PassSame
  <2>2. tasks' \subseteq Path \X Nat /\ tasks \subseteq tasks' /\ RowsGrow
    BY <1>1 DEF FoldersInv, FoldersShape, RowsGrow
  <2> QED BY <1>1, <1>2, <2>1, <2>2, PassSteps1
<1>3. FolderRows!AtRest.top = 0 /\ \A p \in Path : FolderRows!AtRest.cache[p] = 0
  BY DEF FolderRows!AtRest, FolderRows!Uncached
<1>4. CASE FolderRows!Becomes(s, FolderRows!Listing(FolderRows!AtRest, Mailbox))
  <2>1. PICK r : r = FolderRows!Listing(FolderRows!AtRest, Mailbox)
    OBVIOUS
  <2>2. r \in Pass /\ r.pc = "folder" /\ Knows(r) /\ IsThrough(r)
    BY <1>3, <2>1, ListingRight, RestOf
  <2> QED BY <1>2, <1>4, <2>1, <2>2
<1>5. CASE FolderRows!Becomes(s, [FolderRows!AtRest EXCEPT !.pc = "folder", !.todo = {Inbox}])
  <2>1. PICK r : r = [FolderRows!AtRest EXCEPT !.pc = "folder", !.todo = {Inbox}]
    OBVIOUS
  <2>2. /\ r \in Pass /\ r.pc = "folder" /\ r.listed = FolderRows!AtRest.listed
        /\ r.cache = FolderRows!AtRest.cache /\ r.top = 0
    BY <1>3, <2>1, RestOf, FolderBounds DEF Pass, PassSteps
  <2>3. \A p \in Path : r.listed[p].id = 0 /\ r.listed[p].last = 0
    BY <2>2 DEF FolderRows!AtRest, FolderRows!Unlisted
  <2>4. Knows(r) /\ IsThrough(r)
    BY <1>3, <2>2, <2>3 DEF Knows, IsThrough
  <2> QED BY <1>2, <1>5, <2>1, <2>2, <2>4
<1>6. CASE FolderRows!SyncNonInboxFolders(s)
  <2>1. /\ syncer[s].pc = "folder"
        /\ FolderRows!Becomes(s, FolderRows!Listing(syncer[s], Mailbox \ {Inbox}))
    BY <1>6 DEF FolderRows!SyncNonInboxFolders
  <2>2. PICK b \in Pass : b = syncer[s] /\ Knows(b) /\ IsThrough(b)
    BY <2>1, PassAt
  <2>3. PICK r : r = FolderRows!Listing(b, Mailbox \ {Inbox})
    OBVIOUS
  <2>4. b.top = 0 /\ \A p \in Path : b.cache[p] # 0 => Names(b.cache[p], p)
    BY <2>1, <2>2 DEF Knows, IsThrough
  <2>5. r \in Pass /\ r.pc = "folder" /\ Knows(r) /\ IsThrough(r)
    BY <2>3, <2>4, ListingRight
  <2> QED BY <1>2, <2>1, <2>2, <2>3, <2>5
<1> QED BY <1>4, <1>5, <1>6 DEF FolderRows!SyncAllFolders

LEMMA FoldersSyncFolder ==
    ASSUME FoldersInv, NEW s \in Syncer, FolderRows!SyncFolder(s)
    PROVE  FoldersInv'
<1>1. /\ UNCHANGED <<mail, emails, tasks, done, deleting>>
      /\ UNCHANGED <<started, gone, missed, outlived, erased, renamed, stale>>
      /\ tasks' \subseteq Path \X Nat /\ tasks \subseteq tasks'
      /\ syncer[s].pc = "folder"
  BY DEF FolderRows!SyncFolder, FolderRows!history, FolderRows!queue, FoldersInv, FoldersShape
<1>2. PICK b \in Pass : b = syncer[s] /\ Knows(b) /\ IsThrough(b) /\ b.pc = "folder"
  BY <1>1, PassAt
<1>3. PICK p \in b.todo : \E rest :
          /\ rest = [b EXCEPT !.todo = @ \ {p}, !.listed[p] = FolderRows!Unlisted[p]]
          /\ \/ FolderRows!Becomes(s, rest) /\ UNCHANGED <<folders, nextFolder>>
             \/ /\ mail[p] > 0
                /\ IF b.listed[p].last = 0 THEN FolderRows!Ensure(p)
                   ELSE UNCHANGED <<folders, nextFolder>>
                /\ FolderRows!Becomes(s, [[rest EXCEPT !.at = p, !.id = b.listed[p].id,
                                               !.last = b.listed[p].last, !.end = mail[p]]
                                           EXCEPT !.pc = "read"])
  BY <1>2 DEF FolderRows!SyncFolder
<1>4. p \in Mailbox /\ p \in Path /\ mail[p] \in Nat
  BY FolderBounds, PassFields DEF FoldersInv, FoldersShape
<1>5. RowsGrow
  BY <1>3, <1>4 DEF RowsGrow, FolderRows!Ensure
<1>6. Onward /\ \A i \in FolderRows!Id : i < nextFolder => Gentle(i)
  BY <1>1, <1>5, Grown
<1>7. ASSUME NEW r \in Pass, FolderRows!Becomes(s, r), Knows(r), IsThrough(r), r.at \in Path \/ r.pc = "folder"
      PROVE  FoldersInv'
  <2>1. Knows(r)' /\ IsThrough(r)'
    BY <1>6, <1>7, PassStays
  <2> QED BY <1>1, <1>5, <1>7, <2>1, PassSteps1
<1>8. PICK rest : /\ rest = [b EXCEPT !.todo = @ \ {p}, !.listed[p] = FolderRows!Unlisted[p]]
                  /\ \/ FolderRows!Becomes(s, rest)
                     \/ /\ mail[p] > 0
                        /\ FolderRows!Becomes(s, [[rest EXCEPT !.at = p, !.id = b.listed[p].id,
                                                       !.last = b.listed[p].last, !.end = mail[p]]
                                                   EXCEPT !.pc = "read"])
  BY <1>3
<1>9. /\ rest \in Pass /\ rest.pc = "folder" /\ rest.cache = b.cache /\ rest.top = b.top
      /\ rest.listed \in [Path -> [id : Nat, last : Nat]]
      /\ rest.listed[p].id = 0 /\ rest.listed[p].last = 0
      /\ \A q \in Path : q # p => rest.listed[q] = b.listed[q]
  <2>1. PICK listed_ : listed_ = [b.listed EXCEPT ![p] = FolderRows!Unlisted[p]]
    OBVIOUS
  <2>2. FolderRows!Unlisted[p] = [id |-> 0, last |-> 0]
    BY <1>4 DEF FolderRows!Unlisted
  <2>3. /\ listed_ \in [Path -> [id : Nat, last : Nat]]
        /\ listed_[p].id = 0 /\ listed_[p].last = 0
        /\ \A q \in Path : q # p => listed_[q] = b.listed[q]
    BY <1>4, <2>1, <2>2, PassFields
  <2>4. PICK todo_ : todo_ = b.todo \ {p} /\ todo_ \subseteq Mailbox
    BY PassFields
  <2>5. rest = [b EXCEPT !.todo = todo_, !.listed = listed_]
    BY <1>8, <2>1, <2>4
  <2> QED BY <1>2, <2>3, <2>4, <2>5 DEF Pass
<1>10. Knows(rest) /\ IsThrough(rest)
  BY <1>2, <1>9 DEF Knows, IsThrough
<1>11. CASE FolderRows!Becomes(s, rest)
  BY <1>7, <1>9, <1>10, <1>11
<1>12. ASSUME mail[p] > 0,
              FolderRows!Becomes(s, [[rest EXCEPT !.at = p, !.id = b.listed[p].id,
                                                  !.last = b.listed[p].last, !.end = mail[p]]
                                              EXCEPT !.pc = "read"])
       PROVE  FoldersInv'
  <2>1. PICK r : r = [[rest EXCEPT !.at = p, !.id = b.listed[p].id,
                              !.last = b.listed[p].last, !.end = mail[p]] EXCEPT !.pc = "read"]
    OBVIOUS
  <2>2. /\ r \in Pass /\ r.pc = "read" /\ r.listed = rest.listed /\ r.cache = rest.cache
        /\ r.at = p /\ r.id = b.listed[p].id /\ r.last = b.listed[p].last /\ r.end = mail[p]
        /\ r.top = rest.top
    BY <1>4, <1>9, <2>1, PassFields DEF Pass, PassSteps
  <2>3. Knows(r) /\ IsThrough(r)
    BY <1>2, <1>4, <1>9, <1>10, <1>12, <2>2 DEF Knows, IsThrough
  <2> QED BY <1>4, <1>7, <1>12, <2>1, <2>2, <2>3
<1> QED BY <1>8, <1>11, <1>12

LEMMA FoldersFindFolder ==
    ASSUME FoldersInv, NEW s \in Syncer, FolderRows!FindFolder(s)
    PROVE  FoldersInv'
<1>1. /\ UNCHANGED <<mail, emails, tasks, done, deleting>>
      /\ UNCHANGED <<started, gone, missed, outlived, erased, renamed, stale>>
      /\ tasks' \subseteq Path \X Nat /\ tasks \subseteq tasks'
      /\ syncer[s].pc = "read"
  BY DEF FolderRows!FindFolder, FolderRows!history, FolderRows!queue, FoldersInv, FoldersShape
<1>2. PICK b \in Pass : b = syncer[s] /\ Knows(b) /\ IsThrough(b) /\ b.pc = "read" /\ b.at \in Path
  BY <1>1, PassAt
<1>3. PICK i : i = IF b.id # 0 THEN b.id ELSE FolderRows!FolderOf(b.at)
  OBVIOUS
<1>4. PICK n : n = IF b.id # 0 \/ i = 0 THEN b.last ELSE folders[i].last
  OBVIOUS
<1>5. IF i # 0
      THEN /\ FolderRows!Becomes(s, [[b EXCEPT !.last = n, !.pos = n + 1]
                    EXCEPT !.id = i, !.pc = IF n = 0 THEN "fetch" ELSE "enqueue"])
           /\ UNCHANGED <<folders, nextFolder>>
      ELSE /\ FolderRows!Create(b.at)
           /\ FolderRows!Becomes(s, [[b EXCEPT !.last = n, !.pos = n + 1]
                    EXCEPT !.id = nextFolder, !.pc = "fetch"])
  BY <1>2, <1>3, <1>4 DEF FolderRows!FindFolder
<1>6. b.id \in Nat /\ b.last \in Nat
  BY PassFields
<1>7. CASE i # 0
  <2>1. Names(i, b.at) /\ n \in Nat /\ Reached(i, b.at, n) /\ i \in Nat
    <3>1. CASE b.id # 0
      BY <1>2, <1>3, <1>4, <1>6, <3>1 DEF Knows, IsThrough
    <3>2. CASE b.id = 0
      BY <1>2, <1>3, <1>4, <1>7, <3>2, RowOf DEF FoldersInv, FoldersShape, FolderRow, RowsReached
    <3> QED BY <3>1, <3>2
  <2>2. PICK r : r = [[b EXCEPT !.last = n, !.pos = n + 1]
                    EXCEPT !.id = i, !.pc = IF n = 0 THEN "fetch" ELSE "enqueue"]
    OBVIOUS
  <2>3. /\ r \in Pass /\ r.pc = (IF n = 0 THEN "fetch" ELSE "enqueue")
        /\ r.listed = b.listed /\ r.cache = b.cache
        /\ r.at = b.at /\ r.id = i /\ r.last = n /\ r.pos = n + 1 /\ r.end = b.end
        /\ r.top = b.top
    <3>0. PICK m \in Nat : m = n + 1 /\ n \in Nat
      BY <2>1
    <3>1. PICK a : a = [b EXCEPT !.last = n, !.pos = m]
      OBVIOUS
    <3>2. /\ a \in Pass /\ a.listed = b.listed /\ a.cache = b.cache
          /\ a.at = b.at /\ a.last = n /\ a.pos = m /\ a.end = b.end /\ a.top = b.top
      BY <3>0, <3>1 DEF Pass
    <3>3. PICK pc \in PassSteps : pc = IF n = 0 THEN "fetch" ELSE "enqueue"
      BY DEF PassSteps
    <3>4. r = [a EXCEPT !.id = i, !.pc = pc]
      BY <2>2, <3>0, <3>1, <3>3
    <3> QED BY <2>1, <3>0, <3>2, <3>3, <3>4 DEF Pass
  <2>4. Knows(r)
    BY <1>2, <1>7, <2>1, <2>3 DEF Knows
  <2>5. IsThrough(r)
    <3>1. /\ n = 0 => Reached(i, b.at, r.pos - 1)
          /\ r.top < r.pos
      BY <1>2, <2>1, <2>3 DEF IsThrough
    <3> QED BY <1>2, <2>1, <2>3, <3>1 DEF IsThrough
  <2>6. Knows(r)' /\ IsThrough(r)'
    BY <1>1, <1>5, <1>7, <2>4, <2>5, PassSame
  <2> QED BY <1>1, <1>2, <1>5, <1>7, <2>2, <2>3, <2>6, PassSteps1 DEF RowsGrow
<1>8. CASE i = 0
  <2>1. b.id = 0 /\ FolderRows!FolderOf(b.at) = 0 /\ n = 0
    BY <1>2, <1>3, <1>4, <1>8 DEF IsThrough
  <2>2. RowsGrow
    BY <1>2, <1>5, <1>8, <2>1 DEF RowsGrow
  <2>3. PICK k : k = nextFolder
    OBVIOUS
  <2>4. Names(k, b.at)' /\ k \in Nat /\ k > 0
    BY <1>2, <1>5, <1>8, <2>3, CreatedRow
  <2>5. Knows(b)' /\ IsThrough(b)'
    BY <1>1, <1>2, <2>2, Grown, PassStays
  <2>6. PICK r : r = [[b EXCEPT !.last = n, !.pos = n + 1] EXCEPT !.id = k, !.pc = "fetch"]
    OBVIOUS
  <2>7. /\ r \in Pass /\ r.pc = "fetch" /\ r.listed = b.listed /\ r.cache = b.cache
        /\ r.at = b.at /\ r.id = k /\ r.last = 0 /\ r.pos = 1 /\ r.end = b.end
        /\ r.top = b.top
    <3>0. PICK m \in Nat : m = n + 1 /\ n \in Nat
      BY <2>1
    <3>1. PICK a : a = [b EXCEPT !.last = n, !.pos = m]
      OBVIOUS
    <3>2. /\ a \in Pass /\ a.listed = b.listed /\ a.cache = b.cache
          /\ a.at = b.at /\ a.last = n /\ a.pos = m /\ a.end = b.end /\ a.top = b.top
      BY <3>0, <3>1 DEF Pass
    <3>3. r = [a EXCEPT !.id = k, !.pc = "fetch"]
      BY <2>6, <3>0, <3>1
    <3>4. "fetch" \in PassSteps /\ m = 1
      BY <2>1, <3>0 DEF PassSteps
    <3>5. r \in Pass
      BY <2>4, <3>2, <3>3, <3>4 DEF Pass
    <3>6. /\ r.pc = "fetch" /\ r.listed = a.listed /\ r.cache = a.cache /\ r.at = a.at /\ r.id = k
          /\ r.last = a.last /\ r.pos = a.pos /\ r.end = a.end /\ r.top = a.top
      BY <3>2, <3>3 DEF Pass
    <3> QED BY <2>1, <3>2, <3>4, <3>5, <3>6
  <2>8. Knows(r)'
    BY <1>2, <2>4, <2>5, <2>7 DEF Knows
  <2>9. IsThrough(r)'
    <3>1. r.pos > 0 /\ r.top < r.pos /\ Reached(r.id, r.at, r.pos - 1)'
      BY <1>2, <2>7 DEF Reached, IsThrough
    <3> QED BY <2>5, <2>7, <3>1 DEF IsThrough
  <2> QED BY <1>1, <1>2, <1>5, <1>8, <2>2, <2>3, <2>6, <2>7, <2>8, <2>9, PassSteps1
<1> QED BY <1>7, <1>8

(* A pass that goes on to its next mailbox forgets all but what it listed. *)
LEMMA PassedOn ==
    ASSUME NEW b \in Pass
    PROVE  LET r == FolderRows!Passed(b)
           IN /\ r \in Pass /\ r.pc = "folder" /\ r.listed = b.listed /\ r.cache = b.cache
              /\ r.top = 0 /\ r.last = 0 /\ r.end = 0
              /\ Knows(b) => Knows(r)
              /\ IsThrough(b) => IsThrough(r)
<1>1. PICK r : r = FolderRows!Passed(b)
  OBVIOUS
<1>2. PICK rest : rest = FolderRows!AtRest
  OBVIOUS
<1>3. /\ rest \in Pass /\ rest.top = 0 /\ rest.last = 0 /\ rest.end = 0
      /\ r = [rest EXCEPT !.pc = "folder", !.todo = b.todo, !.listed = b.listed,
                          !.loaded = b.loaded, !.cache = b.cache]
  <2>1. rest.top = 0 /\ rest.last = 0 /\ rest.end = 0
    BY <1>2 DEF FolderRows!AtRest
  <2> QED BY <1>1, <1>2, <2>1, RestOf DEF FolderRows!Passed
<1>4. /\ r \in Pass /\ r.pc = "folder" /\ r.listed = b.listed /\ r.cache = b.cache
      /\ r.top = 0 /\ r.last = 0 /\ r.end = 0
  BY <1>3 DEF Pass, PassSteps
<1>5. Knows(b) => Knows(r)
  BY <1>4 DEF Knows
<1>6. IsThrough(b) => IsThrough(r)
  BY <1>4 DEF IsThrough
<1> QED BY <1>1, <1>4, <1>5, <1>6

(* A cursor is set to a UID up to which the mailbox is through.            *)
LEMMA CursorMoves ==
    ASSUME FoldersInv, NEW s \in Syncer, NEW r \in Pass, NEW i, NEW p, NEW n \in Nat,
           Names(i, p), FolderRows!SetCursor(i, n), Reached(i, p, n)', nextFolder' = nextFolder,
           UNCHANGED <<mail, done, deleting, started, gone, missed, outlived, erased, renamed, stale,
                       emails>>,
           tasks \subseteq tasks', tasks' \subseteq Path \X Nat,
           FolderRows!Becomes(s, r), r.pc \notin {"idle", "folder"} => r.at \in Path, Knows(r), IsThrough(r)
    PROVE  FoldersInv'
<1>1. /\ folders' \in [FolderRows!Id -> FolderRow]
      /\ \A j \in FolderRows!Id : folders'[j].path = folders[j].path /\ folders'[j].lower = folders[j].lower
      /\ \A j \in FolderRows!Id : folders[j] = FolderRows!NoRow => folders'[j] = folders[j]
      /\ \A j \in FolderRows!Id : j # i => folders'[j] = folders[j]
      /\ folders'[i].last \in {n, folders[i].last}
  <2>1. i \in FolderRows!Id /\ folders[i] \in FolderRow /\ folders \in [FolderRows!Id -> FolderRow]
    BY DEF Names, FoldersInv, FoldersShape
  <2>2. CASE FolderRows!Live(i)
    <3>1. folders' = [folders EXCEPT ![i].last = n]
      BY <2>2 DEF FolderRows!SetCursor
    <3>2. PICK row : row = [folders[i] EXCEPT !.last = n]
      OBVIOUS
    <3>3. /\ row \in FolderRow /\ row.path = folders[i].path /\ row.lower = folders[i].lower
          /\ row.last = n
      BY <2>1, <3>2 DEF FolderRow
    <3>4. folders' = [folders EXCEPT ![i] = row]
      BY <2>1, <3>1, <3>2
    <3>5. folders[i] # FolderRows!NoRow
      BY <2>2 DEF FolderRows!Live
    <3> QED BY <2>1, <3>3, <3>4, <3>5
  <2>3. CASE ~FolderRows!Live(i)
    BY <2>1, <2>3 DEF FolderRows!SetCursor
  <2> QED BY <2>2, <2>3
<1>2. FolderRows!Steady' = FolderRows!Steady
  BY DEF FolderRows!Steady
<1>3. Onward
  BY <1>2 DEF Onward, FoldersInv, FoldersShape
<1>4. ASSUME NEW j \in FolderRows!Id PROVE Gentle(j)
  <2>1. \A q \in Path, u \in Nat : Saved(j, q, u) => Saved(j, q, u)'
    BY DEF Saved
  <2> QED BY <1>1, <2>1 DEF Gentle, FolderRows!Steady
<1>5. Knows(r)' /\ IsThrough(r)'
  BY <1>3, <1>4, PassStays
<1>6. /\ PassesRight' /\ syncer' \in [Syncer -> Pass]
      /\ \A t \in Syncer : syncer'[t].pc \notin {"idle", "folder"} => syncer'[t].at \in Path
  BY <1>3, <1>4, <1>5, PassMoves
<1>7. FoldersShape'
  BY <1>1, <1>6 DEF FoldersInv, FoldersShape
<1>8. RowsApart'
  BY <1>1, RestOf DEF FoldersInv, RowsApart
<1>9. TrashNamed'
  BY <1>1 DEF FoldersInv, TrashNamed
<1>10. EmailsNamed'
  <2> SUFFICES ASSUME NEW e \in emails PROVE Names(e.folder, e.path)'
    BY DEF EmailsNamed
  <2>1. Names(e.folder, e.path)
    BY DEF FoldersInv, EmailsNamed
  <2> QED BY <1>3, <1>4, <2>1, NameStays DEF Names
<1>11. RowsReached'
  <2> SUFFICES ASSUME NEW j \in FolderRows!Id PROVE Reached(j, folders[j].path, folders[j].last)'
    BY DEF RowsReached
  <2>1. CASE folders'[j].last = folders[j].last
    BY <1>3, <1>4, <2>1, RowStays
  <2>2. CASE j = i /\ folders'[j].last = n
    BY <1>1, <1>2, <2>2 DEF Reached, Names
  <2> QED BY <1>1, <2>1, <2>2
<1>12. DoneBacked'
  BY <1>1, <1>3, DoneStays
<1> QED BY <1>6, <1>7, <1>8, <1>9, <1>10, <1>11, <1>12 DEF FoldersInv

(* What a full sync is through with is what was reached in this mailbox.   *)
LEMMA TopReached ==
    ASSUME NEW b \in Pass, Knows(b), IsThrough(b), b.pc \in {"fetch", "checkpoint"},
           UNCHANGED <<emails, tasks, deleting, gone, missed, outlived, renamed, stale>>
    PROVE  b.id \in Nat /\ b.top \in Nat /\ Names(b.id, b.at) /\ Reached(b.id, b.at, b.top)'
<1>1. /\ Names(b.id, b.at) /\ Reached(b.id, b.at, b.pos - 1) /\ b.top < b.pos
      /\ b.pos \in Nat /\ b.top \in Nat /\ b.id \in Nat
  BY PassFields DEF Knows, IsThrough
<1>2. Reached(b.id, b.at, b.top)
  BY <1>1 DEF Reached
<1>3. Reached(b.id, b.at, b.top)'
  BY <1>2 DEF Reached, Saved, FolderRows!Steady
<1> QED BY <1>1, <1>3

LEMMA FoldersTakeCheckpoint ==
    ASSUME FoldersInv, NEW s \in Syncer, FolderRows!TakeCheckpoint(s)
    PROVE  FoldersInv'
<1>1. /\ UNCHANGED <<mail, nextFolder, emails, tasks, done, deleting>>
      /\ UNCHANGED <<started, gone, missed, outlived, erased, renamed, stale>>
      /\ tasks' \subseteq Path \X Nat /\ tasks \subseteq tasks'
      /\ syncer[s].pc = "checkpoint"
  BY DEF FolderRows!TakeCheckpoint, FolderRows!history, FolderRows!queue, FoldersInv, FoldersShape
<1>2. PICK b \in Pass : /\ b = syncer[s] /\ Knows(b) /\ IsThrough(b) /\ b.pc = "checkpoint"
                        /\ b.at \in Path
  BY <1>1, PassAt
<1>3. PICK r : r = [b EXCEPT !.pc = "fetch", !.batch = 0]
  OBVIOUS
<1>4. FolderRows!SetCursor(b.id, b.top) /\ FolderRows!Becomes(s, r)
  BY <1>2, <1>3 DEF FolderRows!TakeCheckpoint
<1>5. /\ r \in Pass /\ r.pc = "fetch" /\ r.listed = b.listed /\ r.cache = b.cache /\ r.at = b.at
      /\ r.id = b.id /\ r.pos = b.pos /\ r.end = b.end /\ r.top = b.top
  BY <1>3 DEF Pass, PassSteps
<1>6. Knows(r) /\ IsThrough(r)
  BY <1>2, <1>5 DEF Knows, IsThrough
<1>7. b.id \in Nat /\ b.top \in Nat /\ Names(b.id, b.at) /\ Reached(b.id, b.at, b.top)'
  BY <1>1, <1>2, TopReached
<1> QED BY <1>1, <1>2, <1>4, <1>5, <1>6, <1>7, CursorMoves

LEMMA FoldersEndFetch ==
    ASSUME FoldersInv, NEW s \in Syncer, FolderRows!EndFetch(s)
    PROVE  FoldersInv'
<1>1. /\ UNCHANGED <<mail, nextFolder, emails, tasks, done, deleting>>
      /\ UNCHANGED <<started, gone, missed, outlived, erased, renamed, stale>>
      /\ tasks' \subseteq Path \X Nat /\ tasks \subseteq tasks'
      /\ syncer[s].pc = "fetch"
  BY DEF FolderRows!EndFetch, FolderRows!NextFolder, FolderRows!history, FolderRows!queue,
         FoldersInv, FoldersShape
<1>2. PICK b \in Pass : b = syncer[s] /\ Knows(b) /\ IsThrough(b) /\ b.pc = "fetch"
  BY <1>1, PassAt
<1>3. PICK r : r = FolderRows!Passed(b)
  OBVIOUS
<1>4. /\ FolderRows!SetCursor(b.id, b.top) \/ UNCHANGED folders
      /\ FolderRows!Becomes(s, r)
  BY <1>2, <1>3 DEF FolderRows!EndFetch, FolderRows!NextFolder
<1>5. r \in Pass /\ r.pc = "folder" /\ Knows(r) /\ IsThrough(r)
  BY <1>2, <1>3, PassedOn
<1>6. CASE FolderRows!SetCursor(b.id, b.top)
  <2>1. b.id \in Nat /\ b.top \in Nat /\ Names(b.id, b.at) /\ Reached(b.id, b.at, b.top)'
    BY <1>1, <1>2, TopReached
  <2> QED BY <1>1, <1>4, <1>5, <1>6, <2>1, CursorMoves
<1>7. CASE UNCHANGED folders
  <2>1. Knows(r)' /\ IsThrough(r)'
    BY <1>1, <1>5, <1>7, PassSame
  <2> QED BY <1>1, <1>4, <1>5, <1>7, <2>1, PassSteps1 DEF RowsGrow
<1> QED BY <1>4, <1>6, <1>7

LEMMA FoldersEnqueueUIDs ==
    ASSUME FoldersInv, NEW s \in Syncer, FolderRows!EnqueueUIDs(s)
    PROVE  FoldersInv'
<1>1. /\ UNCHANGED <<mail, nextFolder, emails, done, deleting>>
      /\ UNCHANGED <<started, gone, missed, outlived, erased, renamed, stale>>
      /\ syncer[s].pc = "enqueue"
  BY DEF FolderRows!EnqueueUIDs, FolderRows!history
<1>2. PICK b \in Pass : b = syncer[s] /\ Knows(b) /\ IsThrough(b) /\ b.pc = "enqueue" /\ b.at \in Path
  BY <1>1, PassAt
<1>3. PICK r : r = FolderRows!Passed(b)
  OBVIOUS
<1>4. PICK new : new = b.last + 1 .. b.end
  OBVIOUS
<1>5. /\ FolderRows!Becomes(s, r)
      /\ \/ /\ tasks' = tasks \cup ({<<b.at, u>> : u \in new} \ done)
            /\ IF new = {} THEN UNCHANGED folders ELSE FolderRows!SetCursor(b.id, b.end)
         \/ UNCHANGED <<folders, tasks>>
  BY <1>2, <1>3, <1>4 DEF FolderRows!EnqueueUIDs
<1>6. r \in Pass /\ r.pc = "folder" /\ Knows(r) /\ IsThrough(r)
  BY <1>2, <1>3, PassedOn
<1>7. /\ Names(b.id, b.at) /\ Reached(b.id, b.at, b.last) /\ b.last \in Nat /\ b.end \in Nat
      /\ new \subseteq Nat
  BY <1>2, <1>4, PassFields DEF Knows, IsThrough
<1>8. tasks' \subseteq Path \X Nat /\ tasks \subseteq tasks'
  <2>1. {<<b.at, u>> : u \in new} \subseteq Path \X Nat
    BY <1>2, <1>7
  <2>2. tasks \subseteq Path \X Nat
    BY DEF FoldersInv, FoldersShape
  <2> QED BY <1>5, <2>1, <2>2
<1>9. CASE UNCHANGED folders
  <2>1. RowsGrow
    BY <1>1, <1>9 DEF RowsGrow
  <2>2. Onward /\ \A i \in FolderRows!Id : i < nextFolder => Gentle(i)
    BY <1>1, <1>8, <2>1, Grown
  <2>3. Knows(r)' /\ IsThrough(r)'
    BY <1>6, <2>2, PassStays
  <2> QED BY <1>1, <1>5, <1>6, <1>8, <2>1, <2>3, PassSteps1
<1>10. CASE /\ tasks' = tasks \cup ({<<b.at, u>> : u \in new} \ done)
            /\ FolderRows!SetCursor(b.id, b.end)
  <2>1. Reached(b.id, b.at, b.end)'
    <3> SUFFICES ASSUME b.at \in FolderRows!Steady, b.id \notin deleting, NEW u \in Nat,
                        0 < u, u <= b.end
                 PROVE  Saved(b.id, b.at, u)'
      BY <1>1 DEF Reached, FolderRows!Steady
    <3>1. CASE u <= b.last
      <4>1. Saved(b.id, b.at, u)
        BY <1>7, <3>1 DEF Reached
      <4> QED BY <1>1, <1>10, <4>1 DEF Saved
    <3>2. CASE b.last < u /\ <<b.at, u>> \notin done
      <4>1. u \in new
        BY <1>4, <1>7, <3>2
      <4>2. <<b.at, u>> \in tasks'
        BY <1>10, <3>2, <4>1
      <4> QED BY <4>2 DEF Saved
    <3>3. CASE <<b.at, u>> \in done
      <4>1. Backed(b.at, u)
        BY <1>2, <3>3 DEF FoldersInv, DoneBacked
      <4>2. b.id \in FolderRows!Id /\ folders[b.id].path = b.at /\ b.at # NoPath
        BY <1>2, <1>7, FolderBounds DEF Names
      <4>3. ASSUME NEW i \in FolderRows!Id, folders[i].path = b.at PROVE i = b.id
        BY <4>2, <4>3 DEF FoldersInv, RowsApart
      <4>4. CASE \E e \in emails : e.path = b.at /\ e.uid = u
        <5>1. PICK e \in emails : e.path = b.at /\ e.uid = u
          BY <4>4
        <5>2. e.folder \in FolderRows!Id /\ folders[e.folder].path = b.at
          BY <5>1 DEF FoldersInv, EmailsNamed, Names
        <5>3. e.folder = b.id
          BY <4>3, <5>2
        <5> QED BY <1>1, <5>1, <5>3 DEF Saved
      <4>5. CASE \E i \in FolderRows!Id : i \in deleting /\ folders[i].path = b.at
        BY <4>3, <4>5
      <4> QED BY <1>1, <4>1, <4>4, <4>5 DEF Backed, Saved
    <3> QED BY <1>7, <3>1, <3>2, <3>3
  <2> QED BY <1>1, <1>5, <1>6, <1>7, <1>8, <1>10, <2>1, CursorMoves
<1> QED BY <1>5, <1>9, <1>10

(* A message finds its folder: in the cache, by making it, or not at all.  *)
LEMMA FolderFound ==
    ASSUME FoldersInv, NEW s \in Syncer, NEW b \in Pass, b.at \in Path,
           \A p \in Path : b.cache[p] # 0 => Names(b.cache[p], p),
           \A p \in Path : /\ b.listed[p].id # 0 =>
                                  /\ Names(b.listed[p].id, p)
                                  /\ Reached(b.listed[p].id, p, b.listed[p].last)
                           /\ b.listed[p].id = 0 => b.listed[p].last = 0,
           b.end # 0 => /\ b.id # 0 /\ Names(b.id, b.at) /\ b.pos > 0 /\ b.top < b.pos
                        /\ Reached(b.id, b.at, b.pos - 1),
           FolderRows!GetOrCreateFolder(s, b),
           UNCHANGED <<mail, emails, tasks, done, deleting, started, gone, missed, outlived, erased, renamed, stale>>
    PROVE  FoldersInv'
<1>1. tasks' \subseteq Path \X Nat /\ tasks \subseteq tasks'
  BY DEF FoldersInv, FoldersShape
<1>2. PICK c : c = IF b.loaded THEN b.cache ELSE [q \in Path |-> FolderRows!FolderOf(q)]
  OBVIOUS
<1>3. c \in [Path -> Nat] /\ \A p \in Path : c[p] # 0 => Names(c[p], p)
  <2>1. CASE b.loaded
    BY <1>2, <2>1, PassFields
  <2>2. CASE ~b.loaded
    BY <1>2, <2>2, RowOf
  <2> QED BY <2>1, <2>2
<1>4. PICK known : known = [b EXCEPT !.loaded = TRUE, !.cache = c]
  OBVIOUS
<1>5. /\ known \in Pass /\ known.listed = b.listed /\ known.cache = c /\ known.at = b.at
      /\ known.id = b.id /\ known.pos = b.pos /\ known.end = b.end /\ known.top = b.top
  BY <1>3, <1>4 DEF Pass
<1>6. /\ c[b.at] \in Nat
      /\ \/ /\ c[b.at] # 0
            /\ FolderRows!Becomes(s, [known EXCEPT !.folder = c[b.at], !.pc = "save"])
            /\ UNCHANGED <<folders, nextFolder>>
         \/ /\ c[b.at] = 0 /\ FolderRows!FolderOf(b.at) = 0
            /\ FolderRows!Create(b.at)
            /\ FolderRows!Becomes(s, [known EXCEPT !.cache[b.at] = nextFolder,
                                                   !.folder = nextFolder, !.pc = "save"])
         \/ /\ FolderRows!Becomes(s, [known EXCEPT !.folder = 0, !.pc = "panic"])
            /\ UNCHANGED <<folders, nextFolder>>
  BY <1>2, <1>3, <1>4 DEF FolderRows!GetOrCreateFolder
<1>7. /\ RowsGrow
      /\ Onward /\ \A i \in FolderRows!Id : i < nextFolder => Gentle(i)
  <2>1. RowsGrow
    BY <1>6 DEF RowsGrow
  <2> QED BY <1>1, <2>1, Grown
<1>8. ASSUME NEW i, NEW p, NEW n, Names(i, p)
      PROVE  Names(i, p)' /\ (Reached(i, p, n) => Reached(i, p, n)')
  <2>1. Gentle(i)
    BY <1>7, <1>8 DEF Names
  <2> QED BY <1>7, <1>8, <2>1, NameStays, ReachedStays
<1>9. ASSUME NEW r \in Pass, r.pc \in {"save", "panic"}, FolderRows!Becomes(s, r),
             r.listed = b.listed, r.at = b.at, r.id = b.id, r.pos = b.pos, r.end = b.end, r.top = b.top,
             \A p \in Path : r.cache[p] # 0 => Names(r.cache[p], p)',
             r.pc = "save" => Names(r.folder, b.at)'
      PROVE  FoldersInv'
  <2>1. ASSUME NEW p \in Path, b.listed[p].id # 0
        PROVE  Names(b.listed[p].id, p)' /\ Reached(b.listed[p].id, p, b.listed[p].last)'
    <3>1. PICK i : i = b.listed[p].id
      OBVIOUS
    <3>2. PICK n : n = b.listed[p].last
      OBVIOUS
    <3>3. Names(i, p)' /\ Reached(i, p, n)'
      BY <1>8, <2>1, <3>1, <3>2
    <3> QED BY <3>1, <3>2, <3>3
  <2>2. ASSUME b.end # 0
        PROVE  /\ b.id # 0 /\ Names(b.id, b.at)' /\ b.pos > 0 /\ b.top < b.pos
               /\ Reached(b.id, b.at, b.pos - 1)'
    <3>1. PICK n : n = b.pos - 1
      OBVIOUS
    <3>2. Names(b.id, b.at)' /\ Reached(b.id, b.at, n)'
      BY <1>8, <2>2, <3>1
    <3> QED BY <2>2, <3>1, <3>2
  <2>3. Knows(r)'
    BY <1>9, <2>1, <2>2 DEF Knows
  <2>4. IsThrough(r)'
    BY <1>9, <2>1, <2>2 DEF IsThrough
  <2> QED BY <1>1, <1>7, <1>9, <2>3, <2>4, PassSteps1
<1>10. \A p \in Path : c[p] # 0 => Names(c[p], p)'
  <2> SUFFICES ASSUME NEW p \in Path, c[p] # 0 PROVE Names(c[p], p)'
    OBVIOUS
  <2> QED BY <1>3, <1>8
<1>11. CASE /\ c[b.at] # 0
            /\ FolderRows!Becomes(s, [known EXCEPT !.folder = c[b.at], !.pc = "save"])
  <2>1. PICK k \in Nat : k = c[b.at]
    BY <1>6
  <2>2. PICK r : r = [known EXCEPT !.folder = k, !.pc = "save"]
    OBVIOUS
  <2>3. /\ r \in Pass /\ r.pc = "save" /\ r.listed = b.listed /\ r.cache = c /\ r.at = b.at
        /\ r.id = b.id /\ r.pos = b.pos /\ r.end = b.end /\ r.folder = k /\ r.top = b.top
    BY <1>5, <2>2 DEF Pass, PassSteps
  <2>4. Names(k, b.at)'
    BY <1>10, <1>11, <2>1
  <2> QED BY <1>9, <1>10, <1>11, <2>1, <2>2, <2>3, <2>4
<1>12. CASE /\ FolderRows!Create(b.at)
            /\ FolderRows!Becomes(s, [known EXCEPT !.cache[b.at] = nextFolder,
                                                   !.folder = nextFolder, !.pc = "save"])
  <2>1. PICK k : k = nextFolder
    OBVIOUS
  <2>2. Names(k, b.at)' /\ k \in Nat
    BY <1>12, <2>1, CreatedRow
  <2>3. PICK d : d = [c EXCEPT ![b.at] = k]
    OBVIOUS
  <2>4. PICK r : r = [known EXCEPT !.cache = d, !.folder = k, !.pc = "save"]
    OBVIOUS
  <2>5. r = [known EXCEPT !.cache[b.at] = nextFolder, !.folder = nextFolder, !.pc = "save"]
    BY <1>5, <2>1, <2>3, <2>4 DEF Pass
  <2>6. d \in [Path -> Nat] /\ d[b.at] = k /\ \A p \in Path : p # b.at => d[p] = c[p]
    BY <1>3, <2>2, <2>3
  <2>7. /\ r \in Pass /\ r.pc = "save" /\ r.listed = b.listed /\ r.cache = d /\ r.at = b.at
        /\ r.id = b.id /\ r.pos = b.pos /\ r.end = b.end /\ r.folder = k /\ r.top = b.top
    BY <1>5, <2>2, <2>4, <2>6 DEF Pass, PassSteps
  <2>8. \A p \in Path : d[p] # 0 => Names(d[p], p)'
    <3> SUFFICES ASSUME NEW p \in Path, d[p] # 0 PROVE Names(d[p], p)'
      OBVIOUS
    <3> QED BY <1>10, <2>2, <2>6
  <2> QED BY <1>9, <1>12, <2>2, <2>5, <2>7, <2>8
<1>13. CASE FolderRows!Becomes(s, [known EXCEPT !.folder = 0, !.pc = "panic"])
  <2>1. PICK r : r = [known EXCEPT !.folder = 0, !.pc = "panic"]
    OBVIOUS
  <2>2. /\ r \in Pass /\ r.pc = "panic" /\ r.listed = b.listed /\ r.cache = c /\ r.at = b.at
        /\ r.id = b.id /\ r.pos = b.pos /\ r.end = b.end /\ r.top = b.top
    BY <1>5, <2>1 DEF Pass, PassSteps
  <2> QED BY <1>9, <1>10, <1>13, <2>1, <2>2
<1> QED BY <1>6, <1>11, <1>12, <1>13

LEMMA FoldersFetch ==
    ASSUME FoldersInv, NEW s \in Syncer, FolderRows!Fetch(s)
    PROVE  FoldersInv'
<1>1. /\ UNCHANGED <<mail, emails, tasks, done, deleting>>
      /\ UNCHANGED <<started, gone, missed, outlived, erased, renamed, stale>>
      /\ syncer[s].pc = "fetch"
  BY DEF FolderRows!Fetch, FolderRows!history, FolderRows!queue
<1>2. PICK b \in Pass : b = syncer[s] /\ Knows(b) /\ IsThrough(b) /\ b.pc = "fetch" /\ b.at \in Path
  BY <1>1, PassAt
<1>3. FolderRows!GetOrCreateFolder(s, b)
  BY <1>2 DEF FolderRows!Fetch
<1>4. b.end # 0 => /\ b.id # 0 /\ Names(b.id, b.at) /\ b.pos > 0 /\ b.top < b.pos
                   /\ Reached(b.id, b.at, b.pos - 1)
  BY <1>2 DEF Knows, IsThrough
<1> QED BY <1>1, <1>2, <1>3, <1>4, FolderFound DEF Knows, IsThrough

LEMMA FoldersProcessTask ==
    ASSUME FoldersInv, NEW s \in Syncer, FolderRows!ProcessTask(s)
    PROVE  FoldersInv'
<1>1. /\ UNCHANGED <<mail, emails, tasks, done, deleting>>
      /\ UNCHANGED <<started, gone, missed, outlived, erased, renamed, stale>>
      /\ syncer[s].pc = "folder"
  BY DEF FolderRows!ProcessTask, FolderRows!history, FolderRows!queue
<1>2. PICK a \in Pass : a = syncer[s] /\ Knows(a) /\ IsThrough(a)
  BY <1>1, PassAt
<1>3. PICK t \in tasks :
          FolderRows!GetOrCreateFolder(s, [a EXCEPT !.at = t[1], !.pos = t[2], !.end = 0])
  BY <1>2 DEF FolderRows!ProcessTask
<1>4. t[1] \in Path /\ t[2] \in Nat
  BY DEF FoldersInv, FoldersShape
<1>5. PICK b : b = [a EXCEPT !.at = t[1], !.pos = t[2], !.end = 0]
  OBVIOUS
<1>6. b \in Pass /\ b.at \in Path /\ b.end = 0 /\ b.cache = a.cache /\ b.listed = a.listed
  BY <1>4, <1>5 DEF Pass
<1> QED BY <1>1, <1>2, <1>3, <1>5, <1>6, FolderFound DEF Knows, IsThrough

(* A message is saved in the row that the pass knows for its mailbox, or   *)
(* given up.                                                               *)
LEMMA MessageSaved ==
    ASSUME FoldersInv, NEW s \in Syncer, syncer[s].pc = "save", NEW r \in Pass,
           FolderRows!Becomes(s, r),
           r.pc \notin {"idle", "folder"} => r.at \in Path,
           UNCHANGED <<mail, folders, nextFolder, deleting, started, gone, outlived, erased, renamed,
                       stale>>,
           NEW e, e = [path |-> syncer[s].at, uid |-> syncer[s].pos, folder |-> syncer[s].folder],
           emails' \in {emails, emails \cup {e}}, missed \subseteq missed',
           tasks' \subseteq tasks, done' \subseteq Path \X Nat,
           e \in emails' \/ UNCHANGED <<emails, tasks, done>>,
           \A p \in Path, u \in Nat : <<p, u>> \in tasks =>
               <<p, u>> \in tasks' \/ (p = syncer[s].at /\ u = syncer[s].pos),
           \A p \in Path, u \in Nat : <<p, u>> \in done' =>
               <<p, u>> \in done \/ (p = syncer[s].at /\ u = syncer[s].pos),
           Onward /\ (\A i \in FolderRows!Id : Gentle(i)) => Knows(r)' /\ IsThrough(r)'
    PROVE  FoldersInv'
<1>2. PICK b \in Pass : b = syncer[s] /\ Knows(b) /\ IsThrough(b) /\ b.pc = "save" /\ b.at \in Path
  BY PassAt
<1>6. /\ FolderRows!Steady' = FolderRows!Steady /\ Onward
      /\ Names(b.folder, b.at) /\ e.path = b.at /\ e.uid = b.pos /\ e.folder = b.folder
      /\ b.pos \in Nat
  BY <1>2, PassFields DEF FolderRows!Steady, Onward, FoldersInv, FoldersShape, Knows
<1>7. ASSUME NEW i, Names(i, b.at), b.at \in FolderRows!Steady
      PROVE  i = b.folder
  <2>1. /\ i \in FolderRows!Id /\ folders[i].path = b.at /\ b.at # NoPath
        /\ b.folder \in FolderRows!Id /\ folders[b.folder].path = b.at
    BY <1>2, <1>6, <1>7, FolderBounds DEF Names
  <2> QED BY <2>1 DEF FoldersInv, RowsApart
<1>8. ASSUME NEW i \in FolderRows!Id PROVE Gentle(i)
  <2>1. ASSUME NEW p \in FolderRows!Steady, Names(i, p), NEW u \in Nat, Saved(i, p, u)
        PROVE  Saved(i, p, u)'
    <3>0. p \in Path
      BY DEF FolderRows!Steady
    <3>1. CASE p = b.at /\ u = b.pos /\ e \in emails'
      <4>1. i = b.folder
        BY <1>7, <2>1, <3>1
      <4> QED BY <1>6, <3>1, <4>1 DEF Saved
    <3>2. CASE ~(p = b.at /\ u = b.pos)
      <4>1. <<p, u>> \in tasks => <<p, u>> \in tasks'
        BY <1>2, <3>0, <3>2
      <4>2. emails \subseteq emails'
        OBVIOUS
      <4> QED BY <2>1, <4>1, <4>2 DEF Saved
    <3>3. CASE UNCHANGED <<emails, tasks>>
      BY <2>1, <3>3 DEF Saved
    <3> QED BY <3>1, <3>2, <3>3
  <2> QED BY <1>6, <2>1 DEF Gentle
<1>9. Knows(r)' /\ IsThrough(r)'
  BY <1>6, <1>8
<1>11. /\ PassesRight' /\ syncer' \in [Syncer -> Pass]
       /\ \A t \in Syncer : syncer'[t].pc \notin {"idle", "folder"} => syncer'[t].at \in Path
  BY <1>6, <1>8, <1>9, PassMoves
<1>12. FoldersShape' /\ RowsApart' /\ TrashNamed'
  BY <1>11 DEF FoldersInv, FoldersShape, RowsApart, TrashNamed
<1>13. EmailsNamed'
  <2> SUFFICES ASSUME NEW d \in emails' PROVE Names(d.folder, d.path)'
    BY DEF EmailsNamed
  <2>1. Names(d.folder, d.path)
    BY <1>6 DEF FoldersInv, EmailsNamed
  <2> QED BY <1>6, <1>8, <2>1, NameStays DEF Names
<1>14. RowsReached'
  <2> SUFFICES ASSUME NEW i \in FolderRows!Id PROVE Reached(i, folders[i].path, folders[i].last)'
    BY DEF RowsReached
  <2> QED BY <1>6, <1>8, RowStays
<1>15. DoneBacked'
  <2>1. CASE UNCHANGED <<emails, done>>
    BY <1>6, <2>1, DoneStays
  <2>2. CASE e \in emails'
    <3>2. \A p \in Path, u \in Nat : <<p, u>> \in done' =>
             <<p, u>> \in done \/ \E d \in emails' : d.path = p /\ d.uid = u
      BY <1>2, <1>6, <2>2
    <3>3. \A d \in emails : d \in emails'
      OBVIOUS
    <3> QED BY <1>6, <3>2, <3>3, DoneStays
  <2> QED BY <2>1, <2>2
<1> QED BY <1>11, <1>12, <1>13, <1>14, <1>15 DEF FoldersInv

LEMMA FoldersFullSave ==
    ASSUME FoldersInv, NEW s \in Syncer, FolderRows!FullSave(s)
    PROVE  FoldersInv'
<1>1. /\ UNCHANGED <<mail, folders, nextFolder, tasks, done, deleting, started, gone, outlived,
                     erased, renamed, stale>>
      /\ syncer[s].pc = "save" /\ syncer[s].end # 0
  BY DEF FolderRows!FullSave, FolderRows!queue
<1>2. PICK b \in Pass : b = syncer[s] /\ Knows(b) /\ IsThrough(b) /\ b.pc = "save" /\ b.at \in Path
  BY <1>1, PassAt
<1>3. PICK e : e = [path |-> b.at, uid |-> b.pos, folder |-> b.folder]
  OBVIOUS
<1>4. PICK pc \in {"checkpoint", "fetch"}, top \in {b.pos, b.top}, batch \in Nat :
         FolderRows!Becomes(s, [b EXCEPT !.pc = pc, !.pos = @ + 1, !.top = top, !.batch = batch])
  <2>1. PICK reported \in BOOLEAN :
           LET top == IF reported THEN b.pos ELSE b.top
               batch == b.batch + 1
               due_ == batch >= Checkpoint /\ top > b.last
           IN  FolderRows!Becomes(s, [b EXCEPT !.pc = IF due_ THEN "checkpoint" ELSE "fetch",
                                              !.pos = @ + 1, !.top = top, !.batch = batch])
    BY <1>2 DEF FolderRows!FullSave
  <2>2. b.batch + 1 \in Nat
    BY PassFields
  <2> QED BY <2>1, <2>2
<1>5. \/ emails' = emails \cup {e} /\ missed' = missed
      \/ emails' = emails /\ missed' = missed \cup {<<b.at, b.pos>>}
  BY <1>2, <1>3 DEF FolderRows!FullSave, FolderRows!Ingest, FolderRows!GiveUp
<1>6. PICK m : m = b.pos + 1
  OBVIOUS
<1>7. b.pos \in Nat /\ b.top \in Nat /\ m \in Nat /\ m - 1 = b.pos /\ m > 0
  <2>1. b.pos \in Nat /\ b.top \in Nat
    BY PassFields
  <2> QED BY <1>6, <2>1
<1>8. PICK r : r = [b EXCEPT !.pc = pc, !.pos = m, !.top = top, !.batch = batch]
  OBVIOUS
<1>9. r = [b EXCEPT !.pc = pc, !.pos = @ + 1, !.top = top, !.batch = batch]
  BY <1>6, <1>8
<1>10. /\ r \in Pass /\ r.pc = pc /\ r.listed = b.listed /\ r.cache = b.cache /\ r.at = b.at
       /\ r.id = b.id /\ r.end = b.end /\ r.pos = m /\ r.top = top
  BY <1>4, <1>7, <1>8 DEF Pass, PassSteps
<1>11. ASSUME Onward, \A i \in FolderRows!Id : Gentle(i)
       PROVE  Knows(r)' /\ IsThrough(r)'
  <2>1. Knows(b)' /\ IsThrough(b)'
    BY <1>2, <1>11, PassStays
  <2>2. Knows(r)'
    BY <1>1, <1>2, <1>10, <2>1 DEF Knows
  <2>3. /\ Names(b.id, b.at) /\ Reached(b.id, b.at, b.pos - 1)' /\ b.top < b.pos
        /\ Names(b.folder, b.at)
    BY <1>1, <1>2, <2>1 DEF Knows, IsThrough
  <2>4. Reached(b.id, b.at, b.pos)'
    <3> SUFFICES ASSUME b.at \in FolderRows!Steady', b.id \notin deleting', NEW u \in Nat,
                        0 < u, u <= b.pos
                 PROVE  Saved(b.id, b.at, u)'
      BY DEF Reached
    <3>1. CASE u < b.pos
      BY <1>7, <2>3, <3>1 DEF Reached
    <3>2. CASE u = b.pos
      <4>1. b.at \in FolderRows!Steady /\ b.at # NoPath
        BY <1>2, <1>11, FolderBounds DEF Onward
      <4>2. b.id = b.folder
        BY <2>3, <4>1 DEF Names, FoldersInv, RowsApart
      <4>3. CASE emails' = emails \cup {e}
        BY <1>3, <3>2, <4>2, <4>3 DEF Saved
      <4>4. CASE <<b.at, b.pos>> \in missed'
        BY <3>2, <4>4 DEF Saved
      <4> QED BY <1>5, <4>3, <4>4
    <3> QED BY <1>7, <3>1, <3>2
  <2>5. r.pos > 0 /\ r.top < r.pos /\ Reached(r.id, r.at, r.pos - 1)'
    <3>1. top < m
      BY <1>6, <1>7, <2>3
    <3> QED BY <1>7, <1>10, <2>4, <3>1
  <2> QED BY <1>4, <1>10, <2>1, <2>2, <2>5 DEF IsThrough
<1>12. done' \subseteq Path \X Nat /\ tasks' \subseteq tasks
  BY <1>1 DEF FoldersInv, FoldersShape
<1>13. /\ emails' \in {emails, emails \cup {e}} /\ missed \subseteq missed'
       /\ e \in emails' \/ UNCHANGED <<emails, tasks, done>>
  BY <1>1, <1>5
<1> QED BY <1>1, <1>2, <1>3, <1>4, <1>9, <1>10, <1>11, <1>12, <1>13, MessageSaved

LEMMA FoldersTaskSave ==
    ASSUME FoldersInv, NEW s \in Syncer, FolderRows!TaskSave(s)
    PROVE  FoldersInv'
<1>1. /\ UNCHANGED <<mail, folders, nextFolder, deleting, started, gone, outlived, erased, renamed,
                     stale>>
      /\ syncer[s].pc = "save" /\ missed \subseteq missed'
  BY DEF FolderRows!TaskSave, FolderRows!GiveUp
<1>2. PICK b \in Pass : b = syncer[s] /\ Knows(b) /\ IsThrough(b) /\ b.pc = "save" /\ b.at \in Path
  BY <1>1, PassAt
<1>3. PICK e : e = [path |-> b.at, uid |-> b.pos, folder |-> b.folder]
  OBVIOUS
<1>4. PICK t : t = <<b.at, b.pos>>
  OBVIOUS
<1>5. PICK r : r = FolderRows!Passed(b)
  OBVIOUS
<1>6. /\ FolderRows!Becomes(s, r)
      /\ \/ /\ emails' = emails \cup {e} /\ tasks' = tasks \ {t}
            /\ done' = done \/ (t \in tasks /\ done' = done \cup {t})
         \/ UNCHANGED <<emails, tasks, done>>
  BY <1>2, <1>3, <1>4, <1>5 DEF FolderRows!TaskSave, FolderRows!Ingest, FolderRows!queue
<1>7. r \in Pass /\ r.pc = "folder" /\ Knows(r) /\ IsThrough(r)
  BY <1>2, <1>5, PassedOn
<1>8. Onward /\ (\A i \in FolderRows!Id : Gentle(i)) => Knows(r)' /\ IsThrough(r)'
  BY <1>7, PassStays
<1>9. done' \subseteq Path \X Nat /\ tasks' \subseteq tasks
  <2>1. t \in Path \X Nat
    BY <1>2, <1>4, PassFields
  <2> QED BY <1>6, <2>1 DEF FoldersInv, FoldersShape
<1>10. \A p \in Path, u \in Nat : <<p, u>> \in tasks =>
          <<p, u>> \in tasks' \/ (p = b.at /\ u = b.pos)
  BY <1>4, <1>6
<1>11. \A p \in Path, u \in Nat : <<p, u>> \in done' =>
          <<p, u>> \in done \/ (p = b.at /\ u = b.pos)
  BY <1>4, <1>6
<1>12. /\ emails' \in {emails, emails \cup {e}}
       /\ e \in emails' \/ UNCHANGED <<emails, tasks, done>>
  BY <1>6
<1> QED BY <1>1, <1>2, <1>3, <1>6, <1>7, <1>8, <1>9, <1>10, <1>11, <1>12, MessageSaved

LEMMA FoldersEndPass ==
    ASSUME FoldersInv, NEW s \in Syncer, FolderRows!Becomes(s, FolderRows!AtRest),
           UNCHANGED <<mail, folders, nextFolder, emails, tasks, done, deleting>>,
           UNCHANGED <<started, gone, missed, outlived, erased, renamed, stale>>
    PROVE  FoldersInv'
<1>1. tasks' \subseteq Path \X Nat /\ tasks \subseteq tasks' /\ RowsGrow
  BY DEF FoldersInv, FoldersShape, RowsGrow
<1> QED BY <1>1, RestOf, PassSteps1

(* A start ends all passes, and gives rows their name in lower case.       *)
LEMMA FoldersRestart ==
    ASSUME FoldersInv, FolderRows!Restart
    PROVE  FoldersInv'
<1>1. /\ folders' = [i \in FolderRows!Id |-> IF folders[i].lower = NoPath
                        THEN [folders[i] EXCEPT !.lower = folders[i].path] ELSE folders[i]]
      /\ started' = nextFolder /\ syncer' = [s \in Syncer |-> FolderRows!AtRest]
      /\ deleting' = {} /\ stale' = stale \cup {folders[i].path : i \in deleting}
      /\ UNCHANGED <<mail, nextFolder, emails, tasks, done, gone, missed, outlived, erased, renamed>>
  BY DEF FolderRows!Restart, FolderRows!queue
<1>2. /\ folders' \in [FolderRows!Id -> FolderRow]
      /\ \A i \in FolderRows!Id :
            /\ folders'[i].path = folders[i].path /\ folders'[i].last = folders[i].last
            /\ folders'[i].lower = IF folders[i].lower = NoPath THEN folders[i].path
                                   ELSE folders[i].lower
            /\ folders[i] = FolderRows!NoRow => folders'[i] = FolderRows!NoRow
  <2> SUFFICES ASSUME NEW i \in FolderRows!Id
               PROVE  /\ folders'[i] \in FolderRow
                      /\ folders'[i].path = folders[i].path /\ folders'[i].last = folders[i].last
                      /\ folders'[i].lower = IF folders[i].lower = NoPath THEN folders[i].path
                                             ELSE folders[i].lower
                      /\ folders[i] = FolderRows!NoRow => folders'[i] = FolderRows!NoRow
    BY <1>1
  <2>1. folders[i] \in FolderRow
    BY DEF FoldersInv, FoldersShape
  <2>2. folders'[i] = IF folders[i].lower = NoPath
                      THEN [folders[i] EXCEPT !.lower = folders[i].path] ELSE folders[i]
    BY <1>1
  <2> QED BY <2>1, <2>2, RestOf DEF FolderRow
<1>3. /\ FolderRows!Steady' \subseteq FolderRows!Steady
      /\ \A i \in deleting : folders[i].path \notin FolderRows!Steady'
  BY <1>1 DEF FolderRows!Steady
<1>4. Onward
  BY <1>1, <1>3 DEF Onward, FoldersInv, FoldersShape
<1>5. ASSUME NEW i \in FolderRows!Id PROVE Gentle(i)
  <2>1. \A p, u : Saved(i, p, u) => Saved(i, p, u)'
    BY <1>1 DEF Saved
  <2>2. \A p \in FolderRows!Steady' : Names(i, p) => i \notin deleting
    BY <1>3 DEF Names
  <2> QED BY <1>2, <2>1, <2>2 DEF Gentle
<1>6. FoldersShape'
  <2>1. syncer' \in [Syncer -> Pass] /\ \A s \in Syncer : syncer'[s].pc = "idle"
    BY <1>1, RestOf
  <2> QED BY <1>1, <1>2, <2>1 DEF FoldersInv, FoldersShape
<1>7. RowsApart'
  BY <1>1, <1>2 DEF FoldersInv, RowsApart
<1>8. TrashNamed'
  <2> SUFFICES ASSUME NEW i \in FolderRows!Id
               PROVE  /\ folders'[i].path = Trash => folders'[i].lower \in {NoPath, Trash}
                      /\ folders'[i].path # NoPath => folders'[i].lower # NoPath
    BY <1>1 DEF FoldersInv, TrashNamed
  <2> QED BY <1>2 DEF FoldersInv, TrashNamed
<1>9. PassesRight'
  BY <1>1, RestOf DEF PassesRight
<1>10. EmailsNamed'
  <2> SUFFICES ASSUME NEW e \in emails PROVE Names(e.folder, e.path)'
    BY <1>1 DEF EmailsNamed
  <2>1. Names(e.folder, e.path)
    BY DEF FoldersInv, EmailsNamed
  <2> QED BY <1>1, <1>4, <1>5, <2>1, NameStays DEF Names
<1>11. RowsReached'
  <2> SUFFICES ASSUME NEW i \in FolderRows!Id PROVE Reached(i, folders[i].path, folders[i].last)'
    BY DEF RowsReached
  <2> QED BY <1>2, <1>4, <1>5, RowStays
<1>12. DoneBacked'
  BY <1>1, <1>2, <1>3, <1>4, DoneStays
<1> QED BY <1>6, <1>7, <1>8, <1>9, <1>10, <1>11, <1>12 DEF FoldersInv

LEMMA FoldersPanic ==
    ASSUME FoldersInv, NEW s \in Syncer, FolderRows!Panic(s)
    PROVE  FoldersInv'
BY FoldersEndPass, FoldersRestart DEF FolderRows!Panic, FolderRows!history, FolderRows!queue

LEMMA FoldersPassStep ==
    ASSUME FoldersInv, NEW s \in Syncer, FolderRows!PassStep(s)
    PROVE  FoldersInv'
<1>1. FolderRows!EndPass(s) => FoldersInv'
  BY FoldersEndPass DEF FolderRows!EndPass, FolderRows!history, FolderRows!queue
<1> QED BY <1>1, FoldersSyncAllFolders, FoldersSyncFolder, FoldersFindFolder, FoldersEnqueueUIDs,
           FoldersFetch, FoldersFullSave, FoldersTakeCheckpoint, FoldersEndFetch,
           FoldersProcessTask, FoldersTaskSave, FoldersPanic
        DEF FolderRows!PassStep

-----------------------------------------------------------------------------
(* Requests about folders.                                                 *)

(* What leaves the rows there are, and deletes messages at most by order.  *)
LEMMA RowsUntouched ==
    ASSUME FoldersInv, RowsGrow,
           UNCHANGED <<syncer, deleting, started, missed, outlived, renamed, stale>>,
           tasks' \subseteq tasks, tasks \subseteq tasks' \cup missed, done' \subseteq done,
           mail' \in [Mailbox -> Nat], emails' \subseteq emails, gone \subseteq gone',
           \A e \in emails : e \in emails' \/ <<e.path, e.uid>> \in gone',
           \A pair \in erased' : pair[1] >= pair[2]
    PROVE  FoldersInv'
<1>1. FolderRows!Steady' = FolderRows!Steady
  BY DEF FolderRows!Steady
<1>2. Onward
  BY <1>1, RowsGrown DEF Onward, FoldersInv, FoldersShape
<1>3. ASSUME NEW i \in FolderRows!Id, i < nextFolder PROVE Gentle(i)
  <2>1. folders'[i] = folders[i]
    BY <1>3, RowsGrown
  <2>2. ASSUME NEW p \in FolderRows!Steady, Names(i, p), NEW u \in Nat, Saved(i, p, u)
        PROVE  Saved(i, p, u)'
    <3>1. CASE \E e \in emails : e.folder = i /\ e.uid = u
      <4>1. PICK e \in emails : e.folder = i /\ e.uid = u
        BY <3>1
      <4>2. e.path = p
        BY <2>2, <4>1 DEF FoldersInv, EmailsNamed, Names
      <4> QED BY <4>1, <4>2 DEF Saved
    <3>2. CASE \/ <<p, u>> \in tasks \/ <<p, u>> \in gone
               \/ <<p, u>> \in missed \/ <<p, u>> \in outlived
      BY <3>2 DEF Saved
    <3> QED BY <2>2, <3>1, <3>2 DEF Saved
  <2> QED BY <1>1, <2>1, <2>2 DEF Gentle
<1>4. PassesRight'
  <2>1. \A s \in Syncer : syncer'[s].pc # "idle" => Knows(syncer[s])' /\ IsThrough(syncer[s])'
    BY <1>2, <1>3, PassesStay
  <2> QED BY <2>1 DEF PassesRight
<1>5. FoldersShape' /\ RowsApart' /\ TrashNamed'
  BY RowsGrown DEF FoldersInv, FoldersShape
<1>6. EmailsNamed'
  <2> SUFFICES ASSUME NEW e \in emails' PROVE Names(e.folder, e.path)'
    BY DEF EmailsNamed
  <2>1. Names(e.folder, e.path)
    BY DEF FoldersInv, EmailsNamed
  <2> QED BY <1>2, <1>3, <2>1, NameStays DEF Names
<1>7. RowsReached'
  <2> SUFFICES ASSUME NEW i \in FolderRows!Id PROVE Reached(i, folders[i].path, folders[i].last)'
    BY DEF RowsReached
  <2>1. CASE i < nextFolder
    BY <1>2, <1>3, <2>1, RowsGrown, RowStays
  <2>2. CASE folders'[i].last = 0
    BY <2>2 DEF Reached
  <2>3. CASE folders'[i] = folders[i] /\ ~(i < nextFolder)
    <3>1. folders[i] = FolderRows!NoRow
      BY <2>3, FolderBounds DEF FoldersInv, FoldersShape, RowsApart, FolderRows!Id
    <3> QED BY <2>3, <3>1, RestOf DEF Reached
  <2> QED BY <2>1, <2>2, <2>3, RowsGrown
<1>8. DoneBacked'
  BY <1>2, RowsGrown, DoneStays
<1> QED BY <1>4, <1>5, <1>6, <1>7, <1>8 DEF FoldersInv

LEMMA FoldersCreateFolder ==
    ASSUME FoldersInv, NEW p \in Path, FolderRows!CreateFolder(p)
    PROVE  FoldersInv'
<1>1. /\ RowsGrow
      /\ UNCHANGED <<mail, emails, tasks, done, syncer, deleting, started, gone, missed, outlived, erased, renamed, stale>>
  BY DEF FolderRows!CreateFolder, FolderRows!history, FolderRows!queue, RowsGrow
<1> QED BY <1>1, RowsUntouched DEF FoldersInv, FoldersShape, TrashNamed

LEMMA FoldersArrive ==
    ASSUME FoldersInv, NEW p \in Mailbox, FolderRows!Arrive(p)
    PROVE  FoldersInv'
<1>1. /\ RowsGrow /\ mail' = [mail EXCEPT ![p] = @ + 1]
      /\ UNCHANGED <<emails, tasks, done, syncer, deleting, started, gone, missed, outlived, erased, renamed, stale>>
  BY DEF FolderRows!Arrive, FolderRows!history, FolderRows!queue, RowsGrow
<1>2. mail' \in [Mailbox -> Nat]
  BY <1>1 DEF FoldersInv, FoldersShape
<1> QED BY <1>1, <1>2, RowsUntouched DEF FoldersInv, TrashNamed

(* Of the queue only what is completed, or given up, is swept away.        *)
LEMMA FoldersCleanQueueGarbage ==
    ASSUME FoldersInv, NEW t, FolderRows!CleanQueueGarbage(t)
    PROVE  FoldersInv'
<1>1. /\ \/ tasks' = tasks /\ done' = done \ {t}
         \/ t \in missed /\ tasks' = tasks \ {t} /\ done' = done
      /\ UNCHANGED <<mail, folders, nextFolder, emails, syncer, deleting, started, gone, missed,
                     outlived, erased, renamed, stale>>
  BY DEF FolderRows!CleanQueueGarbage, FolderRows!history
<1>2. tasks' \subseteq tasks /\ tasks \subseteq tasks' \cup missed /\ done' \subseteq done
  BY <1>1
<1>3. RowsGrow /\ \A e \in emails : e \in emails' \/ <<e.path, e.uid>> \in gone'
  BY <1>1 DEF RowsGrow
<1>4. mail' \in [Mailbox -> Nat] /\ \A pair \in erased' : pair[1] >= pair[2]
  BY <1>1 DEF FoldersInv, FoldersShape, TrashNamed
<1>5. /\ UNCHANGED <<syncer, deleting, started, missed, outlived, renamed, stale>>
      /\ emails' \subseteq emails /\ gone \subseteq gone'
  BY <1>1
<1> QED BY <1>2, <1>3, <1>4, <1>5, RowsUntouched

(* Trash is not found by its name only when the row is younger.            *)
LEMMA FoldersDeleteEmail ==
    ASSUME FoldersInv, NEW e \in emails, FolderRows!DeleteEmail(e)
    PROVE  FoldersInv'
<1> DEFINE trash == FolderRows!FolderOf(Trash)
           named == \E i \in FolderRows!Id : folders[i].lower = Trash
<1>1. /\ emails' = emails \ {e} /\ gone' = gone \cup {<<e.path, e.uid>>}
      /\ UNCHANGED <<mail, tasks, done, syncer, deleting, started, missed, outlived, renamed, stale>>
      /\ \/ UNCHANGED <<folders, nextFolder, erased>>
         \/ trash = 0 /\ FolderRows!Create(Trash) /\ UNCHANGED erased
         \/ /\ ~named /\ trash # 0
            /\ erased' = erased \cup {<<trash, started>>} /\ UNCHANGED <<folders, nextFolder>>
  BY DEF FolderRows!DeleteEmail, FolderRows!queue
<1>2. RowsGrow
  BY <1>1, FolderBounds DEF RowsGrow
<1>3. trash # 0 /\ ~named => trash >= started
  <2> SUFFICES ASSUME trash # 0, ~named PROVE trash >= started
    OBVIOUS
  <2>1. PICK i : i = trash
    OBVIOUS
  <2>2. i \in FolderRows!Id /\ folders[i].path = Trash /\ i \in Nat /\ started \in Nat
    BY <2>1, RowOf, FolderBounds DEF FolderRows!Id, FoldersInv, FoldersShape
  <2>3. folders[i].lower # Trash
    BY <2>2
  <2>4. ~(i < started)
    BY <2>2, <2>3, FolderBounds DEF FoldersInv, TrashNamed
  <2> QED BY <2>1, <2>2, <2>4
<1>4. \A pair \in erased' : pair[1] >= pair[2]
  <2>1. \A pair \in erased : pair[1] >= pair[2]
    BY DEF FoldersInv, TrashNamed
  <2> HIDE DEF trash, named
  <2> QED BY <1>1, <1>3, <2>1
<1>5. \A d \in emails : d \in emails' \/ <<d.path, d.uid>> \in gone'
  BY <1>1
<1> QED BY <1>1, <1>2, <1>4, <1>5, RowsUntouched DEF FoldersInv, FoldersShape

LEMMA LiveFolder ==
    ASSUME FoldersInv, NEW i \in FolderRows!Id, FolderRows!Live(i)
    PROVE  /\ folders[i] \in FolderRow /\ folders[i].path \in Path
           /\ folders[i].path # NoPath /\ i < nextFolder
BY FolderBounds DEF FolderRows!Live, FoldersInv, FoldersShape, RowsApart, FolderRow, FolderRows!Id

LEMMA FoldersRenameFolder ==
    ASSUME FoldersInv, NEW k \in FolderRows!Id, NEW p \in Path, FolderRows!RenameFolder(k, p)
    PROVE  FoldersInv'
<1>1. /\ FolderRows!Live(k) /\ FolderRows!FolderOf(p) = 0
      /\ folders[k].path \notin {Inbox, Trash} /\ p \notin {Inbox, Trash}
      /\ folders' = [folders EXCEPT ![k].path = p]
      /\ renamed' = renamed \cup {folders[k].path, p}
      /\ UNCHANGED <<mail, nextFolder, emails, tasks, done, syncer, deleting, started, gone, missed, outlived, erased, stale>>
  BY DEF FolderRows!RenameFolder, FolderRows!System, FolderRows!queue
<1>2. /\ folders[k] \in FolderRow /\ folders[k].path # NoPath /\ k < nextFolder
      /\ \A i \in FolderRows!Id : folders[i].path # p
      /\ p # NoPath
  BY <1>1, LiveFolder, RowOf, FolderBounds
<1>3. /\ folders' \in [FolderRows!Id -> FolderRow]
      /\ folders'[k].path = p /\ folders'[k].lower = folders[k].lower
      /\ folders'[k].last = folders[k].last
      /\ \A i \in FolderRows!Id : i # k => folders'[i] = folders[i]
  <2>1. PICK row : row = [folders[k] EXCEPT !.path = p]
    OBVIOUS
  <2>2. row \in FolderRow /\ row.path = p /\ row.lower = folders[k].lower /\ row.last = folders[k].last
    BY <1>2, <2>1 DEF FolderRow
  <2>3. folders' = [folders EXCEPT ![k] = row] /\ folders \in [FolderRows!Id -> FolderRow]
    BY <1>1, <2>1 DEF FoldersInv, FoldersShape
  <2> QED BY <2>2, <2>3
<1>4. /\ FolderRows!Steady' \subseteq FolderRows!Steady
      /\ folders[k].path \notin FolderRows!Steady' /\ p \notin FolderRows!Steady'
  BY <1>1 DEF FolderRows!Steady
<1>5. Onward
  BY <1>1, <1>4 DEF Onward, FoldersInv, FoldersShape
<1>6. ASSUME NEW i \in FolderRows!Id PROVE Gentle(i)
  <2>1. \A q, u : Saved(i, q, u) => Saved(i, q, u)'
    BY <1>1 DEF Saved
  <2> QED BY <1>1, <1>3, <1>4, <2>1 DEF Gentle
<1>7. FoldersShape'
  BY <1>1, <1>3 DEF FoldersInv, FoldersShape
<1>8. RowsApart'
  <2> SUFFICES ASSUME NEW i \in FolderRows!Id
               PROVE  /\ folders'[i].path = NoPath => folders'[i] = FolderRows!NoRow
                      /\ nextFolder <= i => folders'[i] = FolderRows!NoRow
                      /\ \A j \in FolderRows!Id :
                            folders'[i].path = folders'[j].path /\ folders'[i].path # NoPath => i = j
    BY <1>1 DEF RowsApart
  <2>1. i \in Nat /\ k \in Nat /\ nextFolder \in Nat
    BY FolderBounds DEF FolderRows!Id, FoldersInv, FoldersShape
  <2> QED BY <1>2, <1>3, <2>1 DEF FoldersInv, RowsApart
<1>9. TrashNamed'
  BY <1>1, <1>2, <1>3 DEF FoldersInv, TrashNamed
<1>10. PassesRight'
  <2>1. \A s \in Syncer : syncer'[s].pc # "idle" => Knows(syncer[s])' /\ IsThrough(syncer[s])'
    BY <1>1, <1>5, <1>6, PassesStay
  <2> QED BY <2>1 DEF PassesRight
<1>11. EmailsNamed'
  <2> SUFFICES ASSUME NEW e \in emails PROVE Names(e.folder, e.path)'
    BY <1>1 DEF EmailsNamed
  <2>1. Names(e.folder, e.path)
    BY DEF FoldersInv, EmailsNamed
  <2> QED BY <1>5, <1>6, <2>1, NameStays DEF Names
<1>12. RowsReached'
  <2> SUFFICES ASSUME NEW i \in FolderRows!Id PROVE Reached(i, folders[i].path, folders[i].last)'
    BY DEF RowsReached
  <2> QED BY <1>3, <1>5, <1>6, RowStays
<1>13. DoneBacked'
  BY <1>1, <1>3, <1>4, <1>5, DoneStays
<1> QED BY <1>7, <1>8, <1>9, <1>10, <1>11, <1>12, <1>13 DEF FoldersInv

LEMMA FoldersDeleteEmails ==
    ASSUME FoldersInv, NEW k \in FolderRows!Id, FolderRows!DeleteEmails(k)
    PROVE  FoldersInv'
<1>1. /\ emails' = {e \in emails : e.folder # k} /\ deleting' = deleting \cup {k}
      /\ UNCHANGED <<mail, folders, nextFolder, tasks, done, syncer, started, gone, missed, outlived, erased, renamed, stale>>
  BY DEF FolderRows!DeleteEmails, FolderRows!history, FolderRows!queue
<1>2. Onward
  BY <1>1 DEF Onward, FoldersInv, FoldersShape, FolderRows!Steady
<1>3. ASSUME NEW i \in FolderRows!Id PROVE Gentle(i)
  <2>1. ASSUME i \notin deleting', NEW p, NEW u, Saved(i, p, u)
        PROVE  i \notin deleting /\ Saved(i, p, u)'
    BY <1>1, <2>1 DEF Saved
  <2>2. i \notin deleting' => i \notin deleting
    BY <1>1
  <2> QED BY <1>1, <2>1, <2>2 DEF Gentle
<1>4. FoldersShape' /\ RowsApart' /\ TrashNamed'
  BY <1>1 DEF FoldersInv, FoldersShape, RowsApart, TrashNamed
<1>5. PassesRight'
  <2>1. \A s \in Syncer : syncer'[s].pc # "idle" => Knows(syncer[s])' /\ IsThrough(syncer[s])'
    BY <1>1, <1>2, <1>3, PassesStay
  <2> QED BY <2>1 DEF PassesRight
<1>6. EmailsNamed'
  <2> SUFFICES ASSUME NEW e \in emails' PROVE Names(e.folder, e.path)'
    BY DEF EmailsNamed
  <2>1. Names(e.folder, e.path)
    BY <1>1 DEF FoldersInv, EmailsNamed
  <2> QED BY <1>2, <1>3, <2>1, NameStays DEF Names
<1>7. RowsReached'
  <2> SUFFICES ASSUME NEW i \in FolderRows!Id PROVE Reached(i, folders[i].path, folders[i].last)'
    BY DEF RowsReached
  <2> QED BY <1>1, <1>2, <1>3, RowStays
<1>8. DoneBacked'
  BY <1>1, <1>2, DoneStays
<1> QED BY <1>4, <1>5, <1>6, <1>7, <1>8 DEF FoldersInv

(* Nobody remembers the row, or its path is one to be doubted.             *)
LEMMA FoldersDeleteFolder ==
    ASSUME FoldersInv, NEW k \in FolderRows!Id, FolderRows!DeleteFolder(k)
    PROVE  FoldersInv'
<1>1. /\ folders' = [folders EXCEPT ![k] = FolderRows!NoRow] /\ deleting' = deleting \ {k}
      /\ stale' = IF FolderRows!Remembered(k) \/ \E e \in emails : e.folder = k
                  THEN stale \cup {folders[k].path} ELSE stale
      /\ outlived' = outlived \cup {t \in done : t[1] = folders[k].path}
      /\ UNCHANGED <<mail, nextFolder, emails, tasks, done, syncer, started, gone, missed, erased, renamed>>
  BY DEF FolderRows!DeleteFolder, FolderRows!queue
<1>2. /\ folders' \in [FolderRows!Id -> FolderRow] /\ folders'[k] = FolderRows!NoRow
      /\ \A i \in FolderRows!Id : i # k => folders'[i] = folders[i]
  BY <1>1, RestOf DEF FoldersInv, FoldersShape
<1>3. /\ FolderRows!Steady' \subseteq FolderRows!Steady /\ NoPath \notin FolderRows!Steady'
      /\ FolderRows!Remembered(k) \/ (\E e \in emails : e.folder = k) =>
            folders[k].path \notin FolderRows!Steady'
  BY <1>1, FolderBounds DEF FolderRows!Steady
<1>4. Onward
  BY <1>1, <1>3 DEF Onward, FoldersInv, FoldersShape
<1>5. ASSUME NEW i \in FolderRows!Id,
             i = k => FolderRows!Remembered(k) \/ \E e \in emails : e.folder = k
      PROVE  Gentle(i)
  <2>1. \A p, u : Saved(i, p, u) => Saved(i, p, u)'
    BY <1>1 DEF Saved
  <2>2. CASE i # k
    BY <1>1, <1>2, <2>1, <2>2 DEF Gentle
  <2>3. CASE i = k
    <3>1. folders[k].path \notin FolderRows!Steady' /\ folders'[k].path \notin FolderRows!Steady'
      BY <1>2, <1>3, <1>5, <2>3, RestOf
    <3>2. \A p \in FolderRows!Steady' : ~Names(k, p)
      BY <1>3, <3>1 DEF Names
    <3> QED BY <2>3, <3>1, <3>2 DEF Gentle
  <2> QED BY <2>2, <2>3
<1>6. FoldersShape'
  BY <1>1, <1>2 DEF FoldersInv, FoldersShape
<1>7. RowsApart' /\ TrashNamed'
  BY <1>1, <1>2, RestOf, FolderBounds DEF FoldersInv, RowsApart, TrashNamed
<1>8. PassesRight'
  <2>1. \A s \in Syncer : syncer'[s].pc # "idle" => Knows(syncer[s])' /\ IsThrough(syncer[s])'
    BY <1>1, <1>4, <1>5, PassesStay
  <2> QED BY <2>1 DEF PassesRight
<1>9. EmailsNamed'
  <2> SUFFICES ASSUME NEW e \in emails PROVE Names(e.folder, e.path)'
    BY <1>1 DEF EmailsNamed
  <2>1. Names(e.folder, e.path)
    BY DEF FoldersInv, EmailsNamed
  <2>2. Gentle(e.folder)
    BY <1>5, <2>1 DEF Names
  <2> QED BY <1>4, <2>1, <2>2, NameStays
<1>10. RowsReached'
  <2> SUFFICES ASSUME NEW i \in FolderRows!Id PROVE Reached(i, folders[i].path, folders[i].last)'
    BY DEF RowsReached
  <2>1. CASE i # k
    BY <1>2, <1>4, <1>5, <2>1, RowStays
  <2>2. CASE i = k
    BY <1>2, <1>3, <2>2, RestOf DEF Reached
  <2> QED BY <2>1, <2>2
<1>11. DoneBacked'
  <2>1. \A u \in Nat : <<folders[k].path, u>> \in done => <<folders[k].path, u>> \in outlived'
    BY <1>1
  <2>2. \A i \in FolderRows!Id : i \in deleting' => folders'[i].path = folders[i].path
    BY <1>1, <1>2
  <2>3. \A i \in deleting : i \in deleting' \/ i = k
    BY <1>1
  <2> QED BY <1>1, <1>4, <2>1, <2>2, <2>3, DoneStays
<1> QED BY <1>6, <1>7, <1>8, <1>9, <1>10, <1>11 DEF FoldersInv

(* The invariant is one of passes and requests of any number, all at once. *)
LEMMA FoldersNext == FoldersInv /\ FolderRows!Next => FoldersInv'
<1> SUFFICES ASSUME FoldersInv, FolderRows!Next PROVE FoldersInv'
  OBVIOUS
<1>1. CASE \E s \in Syncer : FolderRows!PassStep(s)
  BY <1>1, FoldersPassStep
<1>2. CASE \E p \in Mailbox : FolderRows!Arrive(p)
  BY <1>2, FoldersArrive
<1>3. CASE \E p \in Path : FolderRows!CreateFolder(p)
  BY <1>3, FoldersCreateFolder
<1>4. CASE \E i \in FolderRows!Id : \/ FolderRows!DeleteEmails(i) \/ FolderRows!DeleteFolder(i)
                                    \/ \E p \in Path : FolderRows!RenameFolder(i, p)
  BY <1>4, FoldersDeleteEmails, FoldersDeleteFolder, FoldersRenameFolder
<1>5. CASE \E e \in emails : FolderRows!DeleteEmail(e)
  BY <1>5, FoldersDeleteEmail
<1>6. CASE \E t \in tasks \cup done : FolderRows!CleanQueueGarbage(t)
  BY <1>6, FoldersCleanQueueGarbage
<1>7. CASE FolderRows!Restart
  BY <1>7, FoldersRestart
<1> QED BY <1>1, <1>2, <1>3, <1>4, <1>5, <1>6, <1>7 DEF FolderRows!Next

LEMMA FoldersStutter == FoldersInv /\ UNCHANGED names => FoldersInv'
BY RowsUntouched DEF names, RowsGrow, FoldersInv, FoldersShape, TrashNamed

LEMMA FoldersInTime == FoldersInv => FolderRows!FoldersSound
<1> SUFFICES ASSUME FoldersInv PROVE FolderRows!FoldersSound
  OBVIOUS
<1>1. ASSUME NEW e \in emails, e.path \in FolderRows!Steady
      PROVE  FolderRows!Live(e.folder) /\ folders[e.folder].path = e.path
  <2>1. /\ e.folder \in FolderRows!Id /\ folders[e.folder].path = e.path
        /\ folders[e.folder].path # NoPath
    BY <1>1, FolderBounds DEF FoldersInv, EmailsNamed, Names, FolderRows!Steady
  <2> QED BY <2>1, RestOf DEF FolderRows!Live
<1>2. ASSUME NEW i \in FolderRows!Id \ deleting, folders[i].path \in FolderRows!Steady,
             NEW u \in 1 .. folders[i].last
      PROVE  \/ <<folders[i].path, u>> \in tasks \cup gone \cup missed \cup outlived
             \/ \E e \in emails : e.folder = i /\ e.uid = u
  <2>1. folders[i].last \in Nat
    BY DEF FoldersInv, FoldersShape, FolderRow
  <2>2. Saved(i, folders[i].path, u)
    BY <1>2, <2>1 DEF FoldersInv, RowsReached, Reached
  <2> QED BY <2>2 DEF Saved
<1>3. FolderRows!EmailsInTheirFolder
  BY <1>1 DEF FolderRows!EmailsInTheirFolder
<1>4. FolderRows!CursorsCover
  BY <1>2 DEF FolderRows!CursorsCover
<1>5. FolderRows!TrashFoundAfterStart
  BY DEF FoldersInv, TrashNamed, FolderRows!TrashFoundAfterStart
<1> QED BY <1>3, <1>4, <1>5 DEF FolderRows!FoldersSound

(* Whichever cache the id of a folder came from, messages are in the row   *)
(* of their mailbox, and what a cursor has passed over is saved, queued,   *)
(* deleted, given up after failures, or was completed before its row was   *)
(* removed (syncFolderByUID, EnqueueUIDs, GetOrCreateFolder, DeleteFolder); *)
(* for any number of passes, mailboxes and messages, any distance of the   *)
(* checkpoints, streams that break off anywhere, rows made, renamed and    *)
(* deleted under the passes, panics and restarts.                          *)
THEOREM FoldersAreSound == MCSpec => []FoldersSound
<1>1. MCInit => FoldersInv
  BY FoldersInit DEF MCInit
<1>2. FoldersInv /\ [MCNext]_requests => FoldersInv'
  <2> SUFFICES ASSUME FoldersInv, [MCNext]_requests PROVE FoldersInv'
    OBVIOUS
  <2>1. CASE UNCHANGED names
    BY <2>1, FoldersStutter
  <2>2. CASE FolderRows!Next
    BY <2>2, FoldersNext
  <2> QED BY <2>1, <2>2 DEF MCNext, Passes, requests
<1>3. FoldersInv => FoldersSound
  BY FoldersInTime DEF FoldersSound
<1> QED BY <1>1, <1>2, <1>3, PTL DEF MCSpec

(* The run keeps requests away while passes are beside each other, for the *)
(* number of states; the specification of the rows itself does not.        *)
THEOREM FoldersStaySound == FolderRows!Spec => []FolderRows!FoldersSound
<1>1. UNCHANGED FolderRows!folderList => UNCHANGED names
  BY DEF FolderRows!folderList, FolderRows!history, FolderRows!queue, names
<1>2. FoldersInv /\ [FolderRows!Next]_(FolderRows!folderList) => FoldersInv'
  BY <1>1, FoldersNext, FoldersStutter
<1>3. FoldersInv => FolderRows!FoldersSound
  BY FoldersInTime
<1> QED BY FoldersInit, <1>2, <1>3, PTL DEF FolderRows!Spec

-----------------------------------------------------------------------------
(* Lists.                                                                  *)

(* Sets are finite, and counted, in a module as anywhere.                  *)
LEMMA CountedAlike ==
    ASSUME NEW S
    PROVE  /\ Lists!IsFiniteSet(S) <=> IsFiniteSet(S)
           /\ Lists!Cardinality(S) = Cardinality(S)
<1>1. Lists!IsFiniteSet(S) <=> IsFiniteSet(S)
  BY DEF Lists!IsFiniteSet, IsFiniteSet
<1>2. Lists!Cardinality(S) = Cardinality(S)
  BY DEF Lists!Cardinality, Cardinality
<1> QED BY <1>1, <1>2

LEMMA ListBounds ==
    /\ Messages \subseteq Nat /\ IsFiniteSet(Messages) /\ Date \in [Messages -> Nat]
    /\ Limit \in Nat \ {0} /\ SearchLimit \in Nat \ {0} /\ IdLimit \in Nat \ {0}
    /\ MaxChanges \in Nat
BY RequestsAssumption, CountedAlike DEF RequestsAssumption, Lists!ListingAssumption

Cursor == [pinned : BOOLEAN, date : Nat, offset : Nat, first : BOOLEAN]
Walk == [kind : Lists!Kinds, folder : Lists!Folders, unread : BOOLEAN, cursor : Cursor,
         shown : [Messages -> Nat], steady : SUBSET Messages, calm : BOOLEAN,
         ends : SUBSET Messages, pc : {"closed", "open", "failed", "done"}]

ListShape ==
    /\ listed \in [Messages -> Lists!Rows] /\ walk \in Walk /\ indexed \subseteq Messages
    /\ found \in [searched : BOOLEAN, matched : BOOLEAN, shown : BOOLEAN, crowded : BOOLEAN]

(* The rows of a result come in a strict total order.                      *)
LEMMA BeforeOrders ==
    ASSUME listed \in [Messages -> Lists!Rows], NEW k,
           NEW a \in Messages, NEW b \in Messages, NEW c \in Messages
    PROVE  /\ ~Lists!Before(k, a, a)
           /\ Lists!Before(k, a, b) /\ Lists!Before(k, b, c) => Lists!Before(k, a, c)
           /\ a # b => Lists!Before(k, a, b) \/ Lists!Before(k, b, a)
<1>1. /\ listed[a].pinned \in BOOLEAN /\ listed[b].pinned \in BOOLEAN /\ listed[c].pinned \in BOOLEAN
      /\ Date[a] \in Nat /\ Date[b] \in Nat /\ Date[c] \in Nat
      /\ a \in Nat /\ b \in Nat /\ c \in Nat
  BY ListBounds DEF Lists!Rows
<1> DEFINE L(x, y) == Lists!LabelBefore(x, y)
<1>2. /\ ~L(a, a) /\ (L(a, b) /\ L(b, c) => L(a, c)) /\ (a # b => L(a, b) \/ L(b, a))
  BY <1>1 DEF Lists!LabelBefore
<1> HIDE DEF L
<1>3. \A x, y : Lists!Before(k, x, y) <=>
          IF k = "label" THEN L(x, y)
          ELSE \/ listed[x].pinned /\ ~listed[y].pinned
               \/ listed[x].pinned = listed[y].pinned /\ L(x, y)
  BY DEF Lists!Before, Lists!KeysetBefore, L
<1> QED BY <1>1, <1>2, <1>3

(* The number of a row in a result: one number for each.                   *)
LEMMA RanksRise ==
    ASSUME listed \in [Messages -> Lists!Rows], NEW k, NEW S \in SUBSET Messages,
           NEW a \in S, NEW b \in S
    PROVE  /\ Lists!Rank(k, a, S) \in 0 .. Cardinality(S) - 1
           /\ Lists!Before(k, a, b) => Lists!Rank(k, a, S) < Lists!Rank(k, b, S)
<1> DEFINE Below(m) == {n \in S : Lists!Before(k, n, m)}
<1>1. IsFiniteSet(S) /\ Cardinality(S) \in Nat
  BY ListBounds, FS_Subset, FS_CardinalityType
<1>2. \A x \in S, y \in S, z \in S :
          /\ ~Lists!Before(k, x, x)
          /\ Lists!Before(k, x, y) /\ Lists!Before(k, y, z) => Lists!Before(k, x, z)
  BY BeforeOrders
<1>3. ASSUME NEW m \in S
      PROVE  /\ Below(m) \in SUBSET S /\ Below(m) # S /\ IsFiniteSet(Below(m))
             /\ Cardinality(Below(m)) \in Nat /\ Cardinality(Below(m)) < Cardinality(S)
  <2>1. Below(m) \in SUBSET S /\ Below(m) # S
    BY <1>2
  <2>2. IsFiniteSet(Below(m)) /\ Cardinality(Below(m)) \in Nat
    BY <1>1, <2>1, FS_Subset, FS_CardinalityType
  <2>3. Cardinality(Below(m)) <= Cardinality(S) /\ Cardinality(Below(m)) # Cardinality(S)
    BY <1>1, <2>1, FS_Subset
  <2> QED BY <1>1, <2>1, <2>2, <2>3
<1>4. Lists!Rank(k, a, S) \in 0 .. Cardinality(S) - 1
  BY <1>1, <1>3, CountedAlike DEF Lists!Rank
<1>5. ASSUME Lists!Before(k, a, b) PROVE Cardinality(Below(a)) < Cardinality(Below(b))
  <2>1. Below(a) \in SUBSET Below(b) /\ a \in Below(b) /\ a \notin Below(a)
    BY <1>2, <1>5
  <2>2. Cardinality(Below(a)) <= Cardinality(Below(b)) /\ Cardinality(Below(a)) # Cardinality(Below(b))
    <3>1. IsFiniteSet(Below(b)) /\ Below(a) # Below(b)
      BY <1>3, <2>1
    <3> HIDE DEF Below
    <3> QED BY <2>1, <3>1, FS_Subset
  <2>3. Cardinality(Below(a)) \in Nat /\ Cardinality(Below(b)) \in Nat
    BY <1>3
  <2> QED BY <2>2, <2>3
<1> QED BY <1>4, <1>5, CountedAlike DEF Lists!Rank

LEMMA RanksDiffer ==
    ASSUME listed \in [Messages -> Lists!Rows], NEW k, NEW S \in SUBSET Messages,
           NEW a \in S, NEW b \in S, Lists!Rank(k, a, S) = Lists!Rank(k, b, S)
    PROVE  a = b
<1>1. Lists!Rank(k, a, S) \in Nat /\ Lists!Rank(k, b, S) \in Nat
  BY RanksRise
<1> SUFFICES ASSUME a # b PROVE FALSE
  OBVIOUS
<1>2. Lists!Before(k, a, b) \/ Lists!Before(k, b, a)
  BY BeforeOrders
<1>3. Lists!Rank(k, a, S) < Lists!Rank(k, b, S) \/ Lists!Rank(k, b, S) < Lists!Rank(k, a, S)
  BY <1>2, RanksRise
<1> QED BY <1>1, <1>3

(* Every number is taken.                                                  *)
LEMMA RanksFill ==
    ASSUME listed \in [Messages -> Lists!Rows], NEW k, NEW S \in SUBSET Messages,
           NEW r \in 0 .. Cardinality(S) - 1
    PROVE  \E m \in S : Lists!Rank(k, m, S) = r
<1> DEFINE T == 0 .. Cardinality(S) - 1
           f == [m \in S |-> Lists!Rank(k, m, S)]
<1>1. IsFiniteSet(S) /\ Cardinality(S) \in Nat
  BY ListBounds, FS_Subset, FS_CardinalityType
<1>2. \A m \in S : f[m] \in T
  BY RanksRise
<1>3. \A a, b \in S : f[a] = f[b] => a = b
  BY RanksDiffer
<1>4. f \in Injection(S, T)
  BY <1>2, <1>3, Fun_IsInj
<1>5. IsFiniteSet(T) /\ Cardinality(T) = Cardinality(S)
  BY <1>1, FS_Interval
<1>6. f \in Surjection(S, T)
  BY <1>4, <1>5, FS_Injection
<1>7. \A t \in T : \E m \in S : f[m] = t
  <2> HIDE DEF f, T
  <2> QED BY <1>6, Fun_SurjectionProperties
<1> QED BY <1>7

(* So many rows are in a page, unless the result ends in it.               *)
LEMMA PageFull ==
    ASSUME listed \in [Messages -> Lists!Rows], NEW k, NEW S \in SUBSET Messages,
           NEW o \in Nat, NEW l \in Nat, NEW m \in S, Lists!Rank(k, m, S) >= o + l,
           NEW P \in SUBSET S, \A n \in S : n \in P <=> Lists!Rank(k, n, S) \in o .. o + l - 1
    PROVE  Cardinality(P) = l
<1> DEFINE T == o .. o + l - 1
           f == [n \in P |-> Lists!Rank(k, n, S)]
<1>1. IsFiniteSet(P) /\ P \subseteq S
  BY ListBounds, FS_Subset
<1>2. o + l <= Cardinality(S) - 1 /\ Cardinality(S) \in Nat
  <2>1. Lists!Rank(k, m, S) \in 0 .. Cardinality(S) - 1
    BY RanksRise
  <2>2. Cardinality(S) \in Nat
    BY ListBounds, FS_Subset, FS_CardinalityType
  <2> QED BY <2>1, <2>2
<1>3. \A n \in P : f[n] \in T
  OBVIOUS
<1>4. \A a, b \in P : f[a] = f[b] => a = b
  BY RanksDiffer
<1>5. ASSUME NEW r \in T PROVE \E n \in P : f[n] = r
  <2>1. r \in 0 .. Cardinality(S) - 1
    BY <1>2
  <2>2. PICK n \in S : Lists!Rank(k, n, S) = r
    BY <2>1, RanksFill
  <2> QED BY <2>2
<1>6. f \in Injection(P, T) /\ f \in Surjection(P, T)
  BY <1>3, <1>4, <1>5, Fun_IsInj, Fun_IsSurj
<1>7. IsFiniteSet(T) /\ Cardinality(T) = l
  BY FS_Interval
<1> QED BY <1>6, <1>7, FS_Injection

(* A page has a last row.                                                  *)
LEMMA LastOfPage ==
    ASSUME listed \in [Messages -> Lists!Rows], NEW k, NEW P \in SUBSET Messages, P # {}
    PROVE  /\ Lists!LastOf(k, P) \in P
           /\ \A n \in P : n = Lists!LastOf(k, P) \/ Lists!Before(k, n, Lists!LastOf(k, P))
<1>1. IsFiniteSet(P) /\ Cardinality(P) \in Nat /\ Cardinality(P) # 0
  BY ListBounds, FS_Subset, FS_CardinalityType, FS_EmptySet
<1>2. PICK m \in P : Lists!Rank(k, m, P) = Cardinality(P) - 1
  <2>1. Cardinality(P) - 1 \in 0 .. Cardinality(P) - 1
    BY <1>1
  <2> QED BY <2>1, RanksFill
<1>3. \A n \in P \ {m} : Lists!Before(k, n, m)
  <2> SUFFICES ASSUME NEW n \in P \ {m}, Lists!Before(k, m, n) PROVE FALSE
    BY BeforeOrders
  <2>1. Lists!Rank(k, m, P) < Lists!Rank(k, n, P) /\ Lists!Rank(k, n, P) \in 0 .. Cardinality(P) - 1
    BY RanksRise
  <2> QED BY <1>1, <1>2, <2>1
<1> QED BY <1>2, <1>3 DEF Lists!LastOf

(* A later time is of the same day or a later one.                         *)
LEMMA DaysPass ==
    ASSUME NEW a \in Nat, NEW b \in Nat
    PROVE  a \div 2 \in Nat /\ (a >= b => a \div 2 >= b \div 2)
OBVIOUS

Shows == Lists!Visible(walk.kind, walk.folder, walk.unread)
Rest == IF walk.kind \in {"label", "group"} \/ walk.cursor.first THEN Shows
        ELSE {m \in Shows : Lists!After(m, walk.cursor)}
Keyset == walk.kind \notin {"label", "group"}
DayEnded(m) == \E e \in walk.ends : Date[e] \div 2 = Date[m] \div 2

WalkShape ==
    /\ walk.pc = "closed" => walk.steady = {}
    /\ walk.steady \subseteq Shows
    /\ walk.kind # "label" => walk.cursor.offset = 0

(* What was shown, and stayed as it was, is behind the cursor.             *)
ShownBehind ==
    walk.kind # "label" => \A m \in walk.steady :
        /\ walk.shown[m] <= 1
        /\ walk.pc = "open" /\ walk.shown[m] > 0 =>
              Keyset /\ ~walk.cursor.first /\ ~Lists!After(m, walk.cursor)

(* What was not shown is still ahead of it, or of a day a page ended in.   *)
RestAhead ==
    Keyset /\ walk.pc \in {"open", "done"} => \A m \in walk.steady :
        \/ walk.shown[m] = 1
        \/ DayEnded(m)
        \/ walk.pc = "open" /\ (walk.cursor.first \/ Lists!After(m, walk.cursor))

(* In a label that did not change the offset is the number of rows shown.  *)
OffsetShown ==
    walk.kind = "label" /\ walk.calm => \A m \in walk.steady :
        /\ walk.pc = "open" =>
              /\ walk.steady = Shows
              /\ walk.shown[m] = IF Lists!Rank("label", m, Shows) < walk.cursor.offset THEN 1 ELSE 0
        /\ walk.pc = "done" => walk.shown[m] = 1

FoundAll == found.matched => found.shown \/ found.crowded

ListInv == ListShape /\ WalkShape /\ ShownBehind /\ RestAhead /\ OffsetShown /\ FoundAll

LEMMA ListsInit == Lists!Init => ListInv
<1> SUFFICES ASSUME Lists!Init PROVE ListInv
  OBVIOUS
<1>1. /\ walk = Lists!NoWalk /\ walk.kind = "unified" /\ walk.pc = "closed" /\ walk.steady = {}
      /\ walk.cursor.offset = 0 /\ walk.cursor \in Cursor
  BY DEF Lists!Init, Lists!NoWalk, Lists!Start, Cursor
<1>2. walk \in Walk
  BY <1>1 DEF Lists!NoWalk, Walk, Lists!Kinds, Lists!Folders
<1>3. ListShape
  BY <1>2 DEF Lists!Init, Lists!NoRow, Lists!Rows, Lists!Folders, Lists!NoSearch, ListShape
<1>4. FoundAll
  BY DEF Lists!Init, Lists!NoSearch, FoundAll
<1> QED BY <1>1, <1>3, <1>4 DEF ListInv, WalkShape, ShownBehind, RestAhead, OffsetShown

LEMMA WalkFields ==
    ASSUME NEW w \in Walk
    PROVE  /\ w.kind \in Lists!Kinds /\ w.folder \in Lists!Folders /\ w.unread \in BOOLEAN
           /\ w.cursor \in Cursor /\ w.cursor.pinned \in BOOLEAN /\ w.cursor.date \in Nat
           /\ w.cursor.offset \in Nat /\ w.cursor.first \in BOOLEAN
           /\ w.shown \in [Messages -> Nat] /\ w.steady \in SUBSET Messages /\ w.calm \in BOOLEAN
           /\ w.ends \in SUBSET Messages /\ w.pc \in {"closed", "open", "failed", "done"}
BY DEF Walk, Cursor

LEMMA VisibleRows ==
    \A k, f, u : Lists!Visible(k, f, u) \in SUBSET Messages
BY DEF Lists!Visible

(* A change of a row leaves what is known of all others, and of the walk.  *)
LEMMA ListsRowChanges ==
    ASSUME ListInv, NEW m \in Messages, NEW r \in Lists!Rows, listed' = [listed EXCEPT ![m] = r],
           Lists!Disturb(m), Lists!Followed, indexed' \subseteq Messages, found' = found
    PROVE  ListInv'
<1>1. walk \in Walk /\ listed \in [Messages -> Lists!Rows]
  BY DEF ListInv, ListShape
<1>2. /\ walk' \in Walk /\ walk'.kind = walk.kind /\ walk'.folder = walk.folder
      /\ walk'.unread = walk.unread /\ walk'.cursor = walk.cursor /\ walk'.shown = walk.shown
      /\ walk'.ends = walk.ends /\ walk'.pc = walk.pc /\ walk.pc \in {"closed", "open"}
      /\ walk'.steady \subseteq walk.steady \ {m}
      /\ walk.pc = "open" => ~walk'.calm
  <2>1. CASE walk.pc = "open"
    <3>1. walk' = [walk EXCEPT !.steady = @ \ {m}, !.calm = FALSE]
      BY <2>1 DEF Lists!Disturb
    <3> QED BY <1>1, <2>1, <3>1 DEF Walk
  <2>2. CASE walk.pc # "open"
    <3>1. walk' = walk /\ walk.pc = "closed" /\ walk.steady = {}
      BY <2>2 DEF Lists!Disturb, Lists!Followed, ListInv, WalkShape
    <3> QED BY <1>1, <3>1
  <2> QED BY <2>1, <2>2
<1>3. listed' \in [Messages -> Lists!Rows] /\ \A n \in Messages \ {m} : listed'[n] = listed[n]
  BY <1>1
<1>4. walk.steady \subseteq Messages
  BY <1>1, WalkFields
<1>5. ListShape'
  BY <1>2, <1>3 DEF ListInv, ListShape
<1>6. \A n \in walk'.steady : n \in walk.steady /\ n \in Messages /\ listed'[n] = listed[n]
  BY <1>2, <1>3, <1>4
<1>7. WalkShape'
  <2>1. walk'.steady \subseteq Shows'
    BY <1>2, <1>6 DEF ListInv, WalkShape, Shows, Lists!Visible, Lists!InView, Lists!Filtered
  <2>2. walk.pc = "closed" => walk'.steady = {}
    BY <1>2 DEF ListInv, WalkShape
  <2> QED BY <1>2, <2>1, <2>2 DEF ListInv, WalkShape
<1>8. \A n \in walk'.steady : Lists!After(n, walk.cursor)' <=> Lists!After(n, walk.cursor)
  BY <1>2, <1>6 DEF Lists!After
<1>9. ShownBehind'
  BY <1>2, <1>6, <1>8 DEF ListInv, ShownBehind, Keyset
<1>10. RestAhead'
  BY <1>2, <1>6, <1>8 DEF ListInv, RestAhead, Keyset, DayEnded
<1>11. OffsetShown'
  <2>1. walk.pc # "open" => walk'.steady = {}
    BY <1>2 DEF ListInv, WalkShape
  <2> QED BY <1>2, <2>1 DEF OffsetShown
<1>12. FoundAll'
  BY DEF ListInv, FoundAll
<1> QED BY <1>5, <1>7, <1>9, <1>10, <1>11, <1>12 DEF ListInv

LEMMA ListsArrive == ASSUME ListInv, NEW m \in Messages, Lists!Arrive(m) PROVE ListInv'
<1>1. PICK folder \in Lists!Folders, category \in BOOLEAN :
         listed' = [listed EXCEPT ![m] = [Lists!NoRow EXCEPT !.there = TRUE, !.folder = folder,
                                             !.unread = TRUE, !.category = category]]
  BY DEF Lists!Arrive
<1>2. [Lists!NoRow EXCEPT !.there = TRUE, !.folder = folder, !.unread = TRUE,
                          !.category = category] \in Lists!Rows
  BY DEF Lists!NoRow, Lists!Rows
<1>3. /\ Lists!Disturb(m) /\ Lists!Followed /\ found' = found
      /\ indexed' = indexed \cup {m} /\ indexed \subseteq Messages
  BY DEF Lists!Arrive, ListInv, ListShape
<1> QED BY <1>1, <1>2, <1>3, ListsRowChanges

LEMMA ListsChange == ASSUME ListInv, NEW m \in Messages, Lists!Change(m) PROVE ListInv'
<1>1. listed[m] \in Lists!Rows
  BY DEF ListInv, ListShape
<1>2. PICK r \in { Lists!NoRow, [listed[m] EXCEPT !.pinned = ~@], [listed[m] EXCEPT !.unread = ~@],
                   [listed[m] EXCEPT !.muted = ~@], [listed[m] EXCEPT !.snoozed = ~@],
                   [listed[m] EXCEPT !.stamped = TRUE], [listed[m] EXCEPT !.folder = "Archive"] } :
         listed' = [listed EXCEPT ![m] = r]
  BY DEF Lists!Change
<1>3. r \in Lists!Rows
  <2> DEFINE row == listed[m]
  <2>1. row \in Lists!Rows
    BY <1>1
  <2> HIDE DEF row
  <2>2. Lists!NoRow \in Lists!Rows
    BY DEF Lists!NoRow, Lists!Rows, Lists!Folders
  <2>3. [row EXCEPT !.pinned = ~@] \in Lists!Rows /\ [row EXCEPT !.unread = ~@] \in Lists!Rows
    BY <2>1 DEF Lists!Rows
  <2>4. [row EXCEPT !.muted = ~@] \in Lists!Rows /\ [row EXCEPT !.snoozed = ~@] \in Lists!Rows
    BY <2>1 DEF Lists!Rows
  <2>5. /\ [row EXCEPT !.stamped = TRUE] \in Lists!Rows
        /\ [row EXCEPT !.folder = "Archive"] \in Lists!Rows
    BY <2>1 DEF Lists!Rows, Lists!Folders
  <2> QED BY <1>2, <2>2, <2>3, <2>4, <2>5 DEF row
<1>4. /\ Lists!Disturb(m) /\ Lists!Followed /\ found' = found
      /\ indexed' = indexed /\ indexed \subseteq Messages
  BY DEF Lists!Change, ListInv, ListShape
<1> QED BY <1>2, <1>3, <1>4, ListsRowChanges

LEMMA ListsOpenView == ASSUME ListInv, Lists!OpenView PROVE ListInv'
<1>1. PICK k \in Lists!Kinds, folder \in Lists!Folders, unread \in BOOLEAN :
         walk' = [Lists!NoWalk EXCEPT !.kind = k, !.folder = folder, !.unread = unread,
                     !.steady = Lists!Visible(k, folder, unread), !.pc = "open"]
  BY DEF Lists!OpenView
<1>2. UNCHANGED <<listed, indexed, found>>
  BY DEF Lists!OpenView
<1>3. /\ walk'.kind = k /\ walk'.folder = folder /\ walk'.unread = unread
      /\ walk'.steady = Lists!Visible(k, folder, unread) /\ walk'.pc = "open"
      /\ walk'.cursor = Lists!Start /\ walk'.shown = [m \in Messages |-> 0]
      /\ walk'.calm = TRUE /\ walk'.ends = {}
  BY <1>1 DEF Lists!NoWalk
<1>4. Lists!Start \in Cursor /\ Lists!Start.first = TRUE /\ Lists!Start.offset = 0
  BY DEF Lists!Start, Cursor
<1>5. walk' \in Walk
  BY <1>1, <1>4, VisibleRows DEF Lists!NoWalk, Walk
<1>6. ListShape' /\ FoundAll'
  BY <1>2, <1>5 DEF ListInv, ListShape, FoundAll
<1>7. Shows' = Lists!Visible(k, folder, unread) /\ Shows' \in SUBSET Messages
  <2>1. Shows' = Lists!Visible(k, folder, unread)
    BY <1>2, <1>3 DEF Shows, Lists!Visible, Lists!InView, Lists!Filtered
  <2> QED BY <2>1, VisibleRows
<1>8. WalkShape' /\ ShownBehind' /\ RestAhead'
  BY <1>3, <1>4, <1>7 DEF WalkShape, ShownBehind, RestAhead
<1>9. OffsetShown'
  <2> SUFFICES ASSUME NEW m \in walk'.steady
               PROVE  walk'.shown[m] = IF Lists!Rank("label", m, Shows)' < walk'.cursor.offset
                                       THEN 1 ELSE 0
    BY <1>3, <1>7 DEF OffsetShown
  <2>1. Lists!Rank("label", m, Shows') \in Nat
    <3>1. listed \in [Messages -> Lists!Rows] /\ m \in Shows'
      BY <1>3, <1>7 DEF ListInv, ListShape
    <3> QED BY <1>7, <3>1, RanksRise
  <2>2. Lists!Rank("label", m, Shows)' = Lists!Rank("label", m, Shows')
    BY <1>2 DEF Lists!Rank, Lists!Before, Lists!LabelBefore
  <2>3. m \in Messages
    BY <1>3, <1>7
  <2> QED BY <1>3, <1>4, <2>1, <2>2, <2>3
<1> QED BY <1>6, <1>8, <1>9 DEF ListInv

(* What a request shows, in terms of the rest of the list.                 *)
LEMMA PageOfRest ==
    ASSUME ListShape
    PROVE  /\ Shows \in SUBSET Messages /\ Rest \in SUBSET Shows
           /\ Lists!Page(walk) = {m \in Rest : Lists!Rank(walk.kind, m, Rest)
                                     \in walk.cursor.offset .. walk.cursor.offset + Limit - 1}
BY VisibleRows DEF Lists!Page, Rest, Shows

(* A list of every view whose request fails shows no more.                 *)
LEMMA ListsFailed ==
    ASSUME ListInv, walk.pc = "open", Keyset, walk' = [walk EXCEPT !.pc = "failed"],
           UNCHANGED <<listed, indexed, found>>
    PROVE  ListInv'
<1>1. walk \in Walk
  BY DEF ListInv, ListShape
<1>2. /\ walk' \in Walk /\ walk'.kind = walk.kind /\ walk'.folder = walk.folder
      /\ walk'.unread = walk.unread /\ walk'.cursor = walk.cursor /\ walk'.shown = walk.shown
      /\ walk'.steady = walk.steady /\ walk'.pc = "failed"
  BY <1>1 DEF Walk
<1>3. Shows' = Shows
  BY <1>2 DEF Shows, Lists!Visible, Lists!InView, Lists!Filtered
<1> QED BY <1>2, <1>3 DEF ListInv, ListShape, WalkShape, ShownBehind, RestAhead, OffsetShown,
           FoundAll, Keyset

(* One page of the label list.                                             *)
LEMMA ListsLabelPage ==
    ASSUME ListInv, walk.pc = "open", walk.kind = "label", NEW page, page = Lists!Page(walk),
           walk' \in Walk, walk'.kind = walk.kind, walk'.folder = walk.folder,
           walk'.unread = walk.unread, walk'.steady = walk.steady, walk'.calm = walk.calm,
           walk'.shown = [m \in Messages |-> IF m \in page THEN walk.shown[m] + 1
                                             ELSE walk.shown[m]],
           Cardinality(page) = Limit =>
               walk'.pc = "open" /\ walk'.cursor.offset = walk.cursor.offset + Limit,
           Cardinality(page) # Limit => walk'.pc = "done",
           UNCHANGED <<listed, indexed, found>>
    PROVE  ListInv'
<1>1. walk \in Walk /\ listed \in [Messages -> Lists!Rows]
  BY DEF ListInv, ListShape
<1>2. Shows' = Shows
  BY DEF Shows, Lists!Visible, Lists!InView, Lists!Filtered
<1>3. Shows \in SUBSET Messages /\ Rest = Shows /\ walk.steady \subseteq Shows
  BY PageOfRest DEF ListInv, WalkShape, Rest
<1>4. page = {m \in Shows : Lists!Rank("label", m, Shows)
                                \in walk.cursor.offset .. walk.cursor.offset + Limit - 1}
  BY <1>3, PageOfRest DEF ListInv
<1>5. ListShape' /\ FoundAll'
  BY DEF ListInv, ListShape, FoundAll
<1>6. WalkShape' /\ ShownBehind' /\ RestAhead'
  BY <1>2, <1>3 DEF WalkShape, ShownBehind, RestAhead, Keyset
<1>7. OffsetShown'
  <2> SUFFICES ASSUME walk.calm, NEW m \in walk.steady
               PROVE  /\ walk'.pc = "open" =>
                            /\ walk.steady = Shows
                            /\ walk'.shown[m] = IF Lists!Rank("label", m, Shows)
                                                       < walk'.cursor.offset THEN 1 ELSE 0
                      /\ walk'.pc = "done" => walk'.shown[m] = 1
    <3>2. \A m \in walk.steady : Lists!Rank("label", m, Shows)' = Lists!Rank("label", m, Shows)
      BY <1>2 DEF Lists!Rank, Lists!Before, Lists!LabelBefore
    <3> QED BY <1>2, <3>2 DEF OffsetShown
  <2> DEFINE rank == Lists!Rank("label", m, Shows)
             o == walk.cursor.offset
  <2>1. /\ m \in Messages /\ m \in Shows /\ walk.steady = Shows
        /\ walk.shown[m] = IF rank < o THEN 1 ELSE 0
    BY <1>3 DEF ListInv, OffsetShown
  <2>2. rank \in Nat /\ o \in Nat /\ Limit \in Nat
    BY <1>1, <1>3, <2>1, RanksRise, WalkFields, ListBounds
  <2>3. m \in page <=> rank \in o .. o + Limit - 1
    BY <1>4, <2>1
  <2>4. rank >= o + Limit => Cardinality(page) = Limit
    <3>1. /\ page \in SUBSET Shows
          /\ \A n \in Shows : n \in page <=> Lists!Rank("label", n, Shows) \in o .. o + Limit - 1
      BY <1>4
    <3> HIDE DEF o
    <3> QED BY <1>1, <1>3, <2>1, <2>2, <3>1, PageFull
  <2>5. walk'.shown[m] = IF m \in page THEN walk.shown[m] + 1 ELSE walk.shown[m]
    BY <2>1
  <2> HIDE DEF rank, o
  <2>6. walk'.shown[m] = IF rank < o + Limit THEN 1 ELSE 0
    BY <2>1, <2>2, <2>3, <2>5
  <2>7. walk'.pc = "open" => walk'.cursor.offset = o + Limit
    BY DEF o
  <2>8. walk'.pc = "done" => rank < o + Limit
    BY <2>2, <2>4
  <2> QED BY <2>1, <2>6, <2>7, <2>8 DEF rank
<1> QED BY <1>5, <1>6, <1>7 DEF ListInv

(* One page of any other list.  A full page that another follows leaves    *)
(* the cursor at its last row.                                             *)
LEMMA ListsKeysetPage ==
    ASSUME ListInv, walk.pc = "open", walk.kind # "label", NEW page, page = Lists!Page(walk),
           NEW last, last = Lists!LastOf(walk.kind, page),
           walk' \in Walk, walk'.kind = walk.kind, walk'.folder = walk.folder,
           walk'.unread = walk.unread, walk'.steady = walk.steady,
           walk'.shown = [m \in Messages |-> IF m \in page THEN walk.shown[m] + 1
                                             ELSE walk.shown[m]],
           walk.ends \subseteq walk'.ends, page # {} => last \in walk'.ends,
           Cardinality(page) = Limit =>
               /\ walk'.cursor.pinned = listed[last].pinned /\ walk'.cursor.date = Date[last]
               /\ ~walk'.cursor.first,
           walk'.cursor.offset = 0,
           walk'.pc = IF Cardinality(page) = Limit /\ walk.kind # "group" THEN "open" ELSE "done",
           UNCHANGED <<listed, indexed, found>>
    PROVE  ListInv'
<1>1. walk \in Walk /\ listed \in [Messages -> Lists!Rows] /\ Limit \in Nat \ {0}
  BY ListBounds DEF ListInv, ListShape
<1>2. Shows' = Shows
  BY DEF Shows, Lists!Visible, Lists!InView, Lists!Filtered
<1>3. /\ Shows \in SUBSET Messages /\ Rest \in SUBSET Messages /\ Rest \subseteq Shows
      /\ walk.steady \subseteq Shows
  BY PageOfRest DEF ListInv, WalkShape
<1>4. page = {m \in Rest : Lists!Rank(walk.kind, m, Rest) \in 0 .. 0 + Limit - 1}
  <2>1. walk.cursor.offset = 0
    BY DEF ListInv, WalkShape
  <2> QED BY <2>1, PageOfRest DEF ListInv
<1>5. ListShape' /\ FoundAll'
  BY DEF ListInv, ListShape, FoundAll
<1>6. WalkShape' /\ OffsetShown'
  BY <1>2, <1>3 DEF WalkShape, OffsetShown
<1>7. \A m \in Messages : walk.shown[m] \in Nat
  BY <1>1, WalkFields
<1>8. \A m \in walk.steady :
          walk'.shown[m] = IF m \in page THEN walk.shown[m] + 1 ELSE walk.shown[m]
  BY <1>3
<1>9. ASSUME NEW m \in walk.steady, m \in page PROVE walk.shown[m] = 0
  <2>1. m \in Rest
    BY <1>4, <1>9
  <2>2. ~(walk.shown[m] > 0)
    BY <2>1 DEF ListInv, ShownBehind, Rest, Keyset
  <2> QED BY <1>3, <1>7, <2>2
<1>10. ASSUME page # {}
       PROVE  /\ last \in page /\ last \in Messages
              /\ \A n \in page : n = last \/ Lists!Before(walk.kind, n, last)
  BY <1>1, <1>3, <1>4, <1>10, LastOfPage
<1>11. Cardinality(page) = Limit => page # {}
  BY <1>1, FS_EmptySet
<1>12. \A n \in Messages : /\ listed[n].pinned \in BOOLEAN /\ Date[n] \in Nat
                           /\ Date[n] \div 2 \in Nat
  BY <1>1, ListBounds, DaysPass DEF Lists!Rows
<1>13. \A a, b \in Messages :
           Lists!Before(walk.kind, a, b) =>
               \/ listed[a].pinned /\ ~listed[b].pinned
               \/ listed[a].pinned = listed[b].pinned /\ Date[a] \div 2 >= Date[b] \div 2
  <2> SUFFICES ASSUME NEW a \in Messages, NEW b \in Messages, Lists!Before(walk.kind, a, b)
               PROVE  \/ listed[a].pinned /\ ~listed[b].pinned
                      \/ /\ listed[a].pinned = listed[b].pinned
                         /\ Date[a] \div 2 >= Date[b] \div 2
    OBVIOUS
  <2>1. Date[a] >= Date[b] => Date[a] \div 2 >= Date[b] \div 2
    BY <1>12, DaysPass
  <2>2. Lists!LabelBefore(a, b) => Date[a] >= Date[b]
    BY <1>12 DEF Lists!LabelBefore
  <2> QED BY <2>1, <2>2 DEF Lists!Before, Lists!KeysetBefore
<1>14. ASSUME Cardinality(page) = Limit, walk.kind # "group", NEW m \in Messages
       PROVE  Lists!After(m, walk.cursor)' <=>
                  \/ ~listed[m].pinned /\ listed[last].pinned
                  \/ /\ listed[m].pinned = listed[last].pinned
                     /\ Date[m] \div 2 < Date[last] \div 2
  BY <1>14 DEF Lists!After
<1>15. ShownBehind'
  <2> SUFFICES ASSUME NEW m \in walk.steady
               PROVE  /\ walk'.shown[m] <= 1
                      /\ walk'.pc = "open" /\ walk'.shown[m] > 0 =>
                            /\ Keyset /\ ~walk'.cursor.first
                            /\ ~Lists!After(m, walk.cursor)'
    BY DEF ShownBehind, Keyset
  <2>1. walk'.shown[m] <= 1
    BY <1>3, <1>7, <1>8, <1>9 DEF ListInv, ShownBehind
  <2>2. ASSUME walk'.pc = "open", walk'.shown[m] > 0
        PROVE  Keyset /\ ~walk'.cursor.first /\ ~Lists!After(m, walk.cursor)'
    <3>1. Cardinality(page) = Limit /\ walk.kind # "group" /\ page # {} /\ Keyset
      BY <1>11, <2>2 DEF Keyset
    <3>2. last \in page /\ last \in Messages /\ m \in Messages
      BY <1>3, <1>10, <3>1
    <3>3. CASE m \in page
      <4>1. m = last \/ Lists!Before(walk.kind, m, last)
        BY <1>10, <3>1, <3>3
      <4>2. \/ listed[m].pinned /\ ~listed[last].pinned
            \/ listed[m].pinned = listed[last].pinned /\ Date[m] \div 2 >= Date[last] \div 2
        BY <1>12, <1>13, <3>2, <4>1
      <4> QED BY <1>12, <1>14, <3>1, <3>2, <4>2
    <3>4. CASE m \notin page
      <4>1. walk.shown[m] > 0
        BY <1>8, <2>2, <3>4
      <4>2. ~walk.cursor.first /\ ~Lists!After(m, walk.cursor)
        BY <4>1 DEF ListInv, ShownBehind
      <4>3. Lists!After(last, walk.cursor)
        BY <1>4, <3>1, <3>2, <4>2 DEF Rest, Keyset
      <4>4. walk.cursor.pinned \in BOOLEAN /\ walk.cursor.date \div 2 \in Nat
        BY <1>1, WalkFields, DaysPass
      <4>5. ~(\/ ~listed[m].pinned /\ listed[last].pinned
              \/ /\ listed[m].pinned = listed[last].pinned
                 /\ Date[m] \div 2 < Date[last] \div 2)
        BY <1>12, <3>2, <4>2, <4>3, <4>4 DEF Lists!After
      <4> QED BY <1>14, <3>1, <3>2, <4>5
    <3> QED BY <3>3, <3>4
  <2> QED BY <2>1, <2>2
<1>16. RestAhead'
  <2> SUFFICES ASSUME Keyset, NEW m \in walk.steady
               PROVE  \/ walk'.shown[m] = 1
                      \/ DayEnded(m)'
                      \/ walk'.pc = "open" /\ Lists!After(m, walk.cursor)'
    BY DEF RestAhead, Keyset
  <2>1. m \in Messages /\ m \in Shows
    BY <1>3
  <2>2. CASE m \in page
    BY <1>8, <1>9, <2>2
  <2>3. CASE m \notin page /\ walk.shown[m] = 1
    BY <1>8, <2>3
  <2>4. CASE DayEnded(m)
    BY <2>4 DEF DayEnded
  <2>5. CASE m \notin page /\ (walk.cursor.first \/ Lists!After(m, walk.cursor))
    <3>1. m \in Rest
      BY <2>1, <2>5 DEF Rest
    <3>2. Lists!Rank(walk.kind, m, Rest) \in Nat /\ Lists!Rank(walk.kind, m, Rest) >= 0 + Limit
      <4>1. Lists!Rank(walk.kind, m, Rest) \in Nat
        BY <1>1, <1>3, <3>1, RanksRise
      <4> QED BY <1>1, <1>4, <2>5, <3>1, <4>1
    <3>3. Cardinality(page) = Limit
      <4>1. PICK o \in Nat : o = 0
        OBVIOUS
      <4>2. /\ page \in SUBSET Rest /\ Lists!Rank(walk.kind, m, Rest) >= o + Limit
            /\ \A n \in Rest : n \in page <=>
                   Lists!Rank(walk.kind, n, Rest) \in o .. o + Limit - 1
        BY <1>4, <3>2, <4>1
      <4> QED BY <1>1, <1>3, <3>1, <4>2, PageFull
    <3>4. last \in page /\ last \in Messages /\ last \in Rest /\ walk'.pc = "open"
      BY <1>4, <1>10, <1>11, <3>3 DEF Keyset
    <3>5. ~Lists!Before(walk.kind, m, last)
      <4> SUFFICES ASSUME Lists!Before(walk.kind, m, last) PROVE FALSE
        OBVIOUS
      <4>1. Lists!Rank(walk.kind, m, Rest) < Lists!Rank(walk.kind, last, Rest)
        BY <1>1, <1>3, <3>1, <3>4, RanksRise
      <4>2. Lists!Rank(walk.kind, last, Rest) \in 0 .. 0 + Limit - 1
        BY <1>4, <3>4
      <4> QED BY <1>1, <3>2, <4>1, <4>2
    <3>6. Lists!Before(walk.kind, last, m)
      BY <1>1, <2>1, <2>5, <3>4, <3>5, BeforeOrders
    <3>7. \/ listed[last].pinned /\ ~listed[m].pinned
          \/ listed[last].pinned = listed[m].pinned /\ Date[last] \div 2 >= Date[m] \div 2
      BY <1>13, <2>1, <3>4, <3>6
    <3>8. CASE Date[last] \div 2 = Date[m] \div 2
      BY <1>11, <3>3, <3>8 DEF DayEnded
    <3>9. CASE Date[last] \div 2 # Date[m] \div 2
      <4>1. Lists!After(m, walk.cursor)'
        BY <1>12, <1>14, <2>1, <3>3, <3>4, <3>7, <3>9 DEF Keyset
      <4> QED BY <3>4, <4>1
    <3> QED BY <3>8, <3>9
  <2>6. \/ walk.shown[m] = 1 \/ DayEnded(m) \/ walk.cursor.first \/ Lists!After(m, walk.cursor)
    BY DEF ListInv, RestAhead
  <2> QED BY <2>2, <2>3, <2>4, <2>5, <2>6
<1> QED BY <1>5, <1>6, <1>15, <1>16 DEF ListInv

LEMMA ListsGetEmails == ASSUME ListInv, Lists!GetEmails PROVE ListInv'
<1> DEFINE page == Lists!Page(walk)
           last == Lists!LastOf(walk.kind, page)
           shown == [m \in Messages |-> IF m \in page THEN walk.shown[m] + 1 ELSE walk.shown[m]]
           ends == IF page = {} THEN walk.ends ELSE walk.ends \cup {last}
           full == Cardinality(page) = Limit
           cursor == IF full THEN Lists!NextCursor(walk, page) ELSE walk.cursor
           pc == IF full /\ walk.kind # "group" THEN "open" ELSE "done"
<1>1. walk \in Walk /\ listed \in [Messages -> Lists!Rows] /\ walk.pc = "open" /\ ListShape
  BY DEF ListInv, ListShape, Lists!GetEmails
<1>2. UNCHANGED <<listed, indexed, found>>
  BY DEF Lists!GetEmails
<1>3. CASE Lists!Fails(walk, page)
  <2>1. walk' = [walk EXCEPT !.pc = "failed"] /\ Keyset
    BY <1>3 DEF Lists!GetEmails, Lists!Fails, Keyset
  <2> QED BY <1>1, <1>2, <2>1, ListsFailed
<1>4. CASE ~Lists!Fails(walk, page)
  <2>1. walk' = [walk EXCEPT !.shown = shown, !.ends = ends, !.cursor = cursor, !.pc = pc]
    <3>1. Lists!Cardinality(page) = Cardinality(page)
      BY CountedAlike
    <3>2. walk' = IF Lists!Fails(walk, page) THEN [walk EXCEPT !.pc = "failed"]
                  ELSE [walk EXCEPT !.shown = shown, !.ends = ends,
                          !.cursor = IF Lists!Cardinality(page) = Limit
                                     THEN Lists!NextCursor(walk, page) ELSE walk.cursor,
                          !.pc = IF Lists!Cardinality(page) = Limit /\ walk.kind # "group"
                                 THEN "open" ELSE "done"]
      BY <1>1 DEF Lists!GetEmails, Walk
    <3> HIDE DEF page, shown, ends
    <3> QED BY <1>4, <3>1, <3>2
  <2>2. page \in SUBSET Messages /\ (full => page # {}) /\ (page # {} => last \in page)
    <3>1. page \in SUBSET Messages
      BY <1>1, PageOfRest
    <3>2. full => page # {}
      BY ListBounds, FS_EmptySet
    <3> QED BY <1>1, <3>1, <3>2, LastOfPage
  <2>3. /\ full => /\ ~cursor.first /\ cursor \in Cursor
                   /\ walk.kind = "label" => cursor.offset = walk.cursor.offset + Limit
                   /\ walk.kind # "label" => /\ cursor.offset = 0
                                             /\ cursor.pinned = listed[last].pinned
                                             /\ cursor.date = Date[last]
    <3>1. walk.cursor.offset + Limit \in Nat
      BY <1>1, WalkFields, ListBounds
    <3>2. full => listed[last].pinned \in BOOLEAN /\ Date[last] \in Nat
      BY <1>1, <2>2, ListBounds DEF Lists!Rows
    <3> QED BY <3>1, <3>2 DEF Lists!NextCursor, Lists!Start, Cursor
  <2>4. /\ shown \in [Messages -> Nat] /\ ends \in SUBSET Messages /\ cursor \in Cursor
        /\ pc \in {"closed", "open", "failed", "done"} /\ walk.ends \subseteq ends
        /\ page # {} => last \in ends
    BY <1>1, <2>2, <2>3, WalkFields
  <2>5. walk.kind # "label" => cursor.offset = 0
    BY <2>3 DEF ListInv, WalkShape
  <2> HIDE DEF page, last, shown, ends, full, cursor, pc
  <2>6. /\ walk' \in Walk /\ walk'.kind = walk.kind /\ walk'.folder = walk.folder
        /\ walk'.unread = walk.unread /\ walk'.steady = walk.steady /\ walk'.calm = walk.calm
        /\ walk'.shown = shown /\ walk'.ends = ends /\ walk'.cursor = cursor /\ walk'.pc = pc
    BY <1>1, <2>1, <2>4 DEF Walk
  <2>7. CASE walk.kind = "label"
    BY <1>1, <1>2, <2>3, <2>6, <2>7, ListsLabelPage DEF page, shown, full, pc
  <2>8. CASE walk.kind # "label"
    BY <1>1, <1>2, <2>3, <2>4, <2>5, <2>6, <2>8, ListsKeysetPage DEF page, last, shown, full, pc
  <2> QED BY <2>7, <2>8
<1> QED BY <1>3, <1>4

(* What LIMIT leaves: all rows, or as many as it says.                     *)
LEMMA WithinLimit ==
    ASSUME NEW limit \in Nat \ {0}, NEW S \in SUBSET Messages, NEW T \in Lists!Within(limit, S)
    PROVE  /\ T \in SUBSET S /\ IsFiniteSet(T) /\ Cardinality(T) \in Nat
           /\ T = S \/ Cardinality(T) = limit
           /\ Cardinality(T) < limit => T = S
<1>1. T \in SUBSET S /\ (T = S \/ Lists!Cardinality(T) = limit)
  BY DEF Lists!Within
<1>2. Lists!Cardinality(T) = Cardinality(T)
  BY CountedAlike
<1>3. IsFiniteSet(T) /\ Cardinality(T) \in Nat
  BY <1>1, ListBounds, FS_Subset, FS_CardinalityType
<1> QED BY <1>1, <1>2, <1>3

(* A search that comes back without a message of the folder that has the   *)
(* text is full of later messages of the others.                           *)
LEMMA SearchCut ==
    ASSUME listed \in [Messages -> Lists!Rows], NEW matches \in SUBSET Messages,
           NEW emails_ \in Lists!SearchEmails(matches, TRUE), NEW folder \in SUBSET Lists!Folders,
           \A m \in emails_ : listed[m].folder \notin folder
    PROVE  Lists!Crowded(matches, folder)
<1> DEFINE like == matches \cap Lists!Present
           Ahead(m) == {n \in like : listed[n].folder \notin folder /\ Date[n] >= Date[m]}
<1>1. emails_ \in Lists!Within(SearchLimit, like) /\ \A m \in emails_, n \in like \ emails_ : Date[m] >= Date[n]
  BY DEF Lists!SearchEmails
<1>2. SearchLimit \in Nat \ {0} /\ like \in SUBSET Messages
  BY ListBounds
<1>3. emails_ \in SUBSET like /\ (emails_ = like \/ Cardinality(emails_) = SearchLimit)
  <2> HIDE DEF like
  <2> QED BY <1>1, <1>2, WithinLimit
<1> SUFFICES ASSUME NEW m \in like, listed[m].folder \in folder
             PROVE  Lists!Cardinality(Ahead(m)) >= SearchLimit
  BY DEF Lists!Crowded
<1>4. m \notin emails_
  OBVIOUS
<1>5. emails_ \in SUBSET Ahead(m) /\ Cardinality(emails_) = SearchLimit
  BY <1>1, <1>3, <1>4
<1>6. IsFiniteSet(Ahead(m))
  <2>1. Ahead(m) \in SUBSET Messages
    BY <1>2
  <2> HIDE DEF Ahead
  <2> QED BY <2>1, ListBounds, FS_Subset
<1>7. Lists!Cardinality(Ahead(m)) = Cardinality(Ahead(m))
  BY CountedAlike
<1> HIDE DEF Ahead
<1>8. Cardinality(emails_) <= Cardinality(Ahead(m)) /\ Cardinality(Ahead(m)) \in Nat
  BY <1>5, <1>6, FS_Subset, FS_CardinalityType
<1> QED BY <1>2, <1>5, <1>7, <1>8

LEMMA ListsSearch == ASSUME ListInv, Lists!Search \/ Lists!Forget PROVE ListInv'
<1>1. UNCHANGED <<listed, walk, indexed>>
  BY DEF Lists!Search, Lists!Forget
<1>2. /\ found' \in [searched : BOOLEAN, matched : BOOLEAN, shown : BOOLEAN, crowded : BOOLEAN]
      /\ found'.matched => found'.shown \/ found'.crowded
  <2>1. CASE Lists!Forget
    BY <2>1 DEF Lists!Forget, Lists!NoSearch
  <2>2. CASE Lists!Search
    <3>0. \A fts : fts \in {"nothing", "error"} => (Lists!LikeAsked(fts) <=> TRUE)
      BY DEF Lists!LikeAsked
    <3>1. \A inAccount \in BOOLEAN : Lists!LikeAsked(Lists!SearchFTS(inAccount)) <=> TRUE
      BY <3>0 DEF Lists!SearchFTS
    <3>2. PICK matches \in SUBSET Messages, plain \in BOOLEAN, folder \in SUBSET Lists!Folders :
             LET Of(set) == {m \in set \cap Lists!Present : listed[m].folder \in folder}
             IN  \E emails_ \in Lists!SearchEmails(matches, plain) :
                     found' = [searched |-> TRUE, matched |-> plain /\ Of(matches) # {},
                               shown |-> Of(emails_) # {},
                               crowded |-> Lists!Crowded(matches, folder)]
      BY <2>2, <3>1 DEF Lists!Search
    <3> DEFINE Of(set) == {m \in set \cap Lists!Present : listed[m].folder \in folder}
    <3>3. PICK emails_ \in Lists!SearchEmails(matches, plain) :
            found' = [searched |-> TRUE, matched |-> plain /\ Of(matches) # {},
                      shown |-> Of(emails_) # {}, crowded |-> Lists!Crowded(matches, folder)]
      BY <3>2
    <3>4. Lists!Crowded(matches, folder) \in BOOLEAN
      BY DEF Lists!Crowded
    <3>5. ASSUME plain, Of(emails_) = {} PROVE Lists!Crowded(matches, folder)
      <4>1. listed \in [Messages -> Lists!Rows] /\ emails_ \in Lists!SearchEmails(matches, TRUE)
        BY <3>5 DEF ListInv, ListShape
      <4>2. emails_ \subseteq Lists!Present
        BY DEF Lists!SearchEmails, Lists!Within
      <4>3. \A m \in emails_ : listed[m].folder \notin folder
        BY <3>5, <4>2
      <4> QED BY <4>1, <4>3, SearchCut
    <3> HIDE DEF Of
    <3> QED BY <3>3, <3>4, <3>5
  <2> QED BY <2>1, <2>2
<1>3. Shows' = Shows
  BY <1>1 DEF Shows, Lists!Visible, Lists!InView, Lists!Filtered
<1>4. ListShape' /\ WalkShape' /\ FoundAll'
  BY <1>1, <1>2, <1>3 DEF ListInv, ListShape, WalkShape, FoundAll
<1>5. ShownBehind' /\ RestAhead'
  BY <1>1 DEF ListInv, ShownBehind, RestAhead, Keyset, DayEnded, Lists!After
<1>6. OffsetShown'
  <2>1. \A m : Lists!Rank("label", m, Shows)' = Lists!Rank("label", m, Shows)
    BY <1>3 DEF Lists!Rank, Lists!Before, Lists!LabelBefore
  <2> QED BY <1>1, <1>3, <2>1 DEF ListInv, OffsetShown
<1> QED BY <1>4, <1>5, <1>6 DEF ListInv

LEMMA ListsNext == ListInv /\ Lists!Next => ListInv'
<1> SUFFICES ASSUME ListInv, Lists!Next PROVE ListInv'
  OBVIOUS
<1>1. CASE \E m \in Messages : Lists!Arrive(m) \/ Lists!Change(m)
  BY <1>1, ListsArrive, ListsChange
<1>2. CASE Lists!OpenView
  BY <1>2, ListsOpenView
<1>3. CASE Lists!GetEmails
  BY <1>3, ListsGetEmails
<1>4. CASE Lists!Search \/ Lists!Forget
  BY <1>4, ListsSearch
<1> QED BY <1>1, <1>2, <1>3, <1>4 DEF Lists!Next

LEMMA ListsStutter == ListInv /\ UNCHANGED lists => ListInv'
<1> SUFFICES ASSUME ListInv, UNCHANGED lists PROVE ListInv'
  OBVIOUS
<1>1. UNCHANGED <<listed, walk, indexed, found>>
  BY DEF lists
<1>2. Shows' = Shows
  BY <1>1 DEF Shows, Lists!Visible, Lists!InView, Lists!Filtered
<1>3. \A m : Lists!Rank("label", m, Shows)' = Lists!Rank("label", m, Shows)
  BY <1>2 DEF Lists!Rank, Lists!Before, Lists!LabelBefore
<1>4. ListShape' /\ WalkShape' /\ FoundAll'
  BY <1>1, <1>2 DEF ListInv, ListShape, WalkShape, FoundAll
<1>5. ShownBehind' /\ RestAhead' /\ OffsetShown'
  BY <1>1, <1>2, <1>3
     DEF ListInv, ShownBehind, RestAhead, OffsetShown, Keyset, DayEnded, Lists!After
<1> QED BY <1>4, <1>5 DEF ListInv

LEMMA ListsAlways == MCSpec => []ListInv
<1>1. MCInit => ListInv
  BY ListsInit DEF MCInit
<1>2. ListInv /\ [MCNext]_requests => ListInv'
  <2> SUFFICES ASSUME ListInv, [MCNext]_requests PROVE ListInv'
    OBVIOUS
  <2>1. CASE UNCHANGED lists
    BY <2>1, ListsStutter
  <2>2. CASE Lists!Next
    BY <2>2, ListsNext
  <2> QED BY <2>1, <2>2 DEF MCNext, requests
<1> QED BY <1>1, <1>2, PTL DEF MCSpec

(* Whatever arrives, goes or is pinned while a user scrolls, no message    *)
(* that stayed as it was is shown twice, and at the end of the list all    *)
(* were shown but those of a day that a page ended in; and the offset      *)
(* pages of a label that nothing changed show every message once.  For any *)
(* number of messages, any dates and any size of a page.                   *)
THEOREM PagesAreSound == MCSpec => []PagesSound
<1>1. ListInv => PagesSound
  <2> SUFFICES ASSUME ListInv PROVE PagesSound
    OBVIOUS
  <2>1. Lists!NoRepeats
    BY DEF ListInv, ShownBehind, Lists!NoRepeats
  <2>2. Lists!OnlyDaysOfPageEndsSkipped
    BY DEF ListInv, RestAhead, Keyset, DayEnded, Lists!OnlyDaysOfPageEndsSkipped
  <2>3. Lists!CalmLabelComplete
    BY DEF ListInv, OffsetShown, Lists!CalmLabelComplete
  <2> QED BY <2>1, <2>2, <2>3 DEF PagesSound, Lists!PagesSound
<1> QED BY <1>1, ListsAlways, PTL

(* The badge and "select all" of an inbox, and of a folder, agree with the *)
(* list: their queries are written apart from it.                          *)
LEMMA InboxAgrees == ListShape => Lists!InboxQueriesAgree
<1> SUFFICES ASSUME ListShape PROVE Lists!InboxQueriesAgree
  OBVIOUS
<1>1. listed \in [Messages -> Lists!Rows]
  BY DEF ListShape
<1>2. \A m \in Messages : listed[m].folder \in Lists!Folders
  BY <1>1 DEF Lists!Rows
<1>3. ASSUME NEW ids \in Lists!GetEmailIDs("unified", "INBOX")
      PROVE  /\ ids \subseteq Lists!Visible("unified", "INBOX", FALSE)
             /\ Lists!Cardinality(ids) < IdLimit => ids = Lists!Visible("unified", "INBOX", FALSE)
  <2>1. Lists!InboxWhere = Lists!Visible("unified", "INBOX", FALSE)
    BY DEF Lists!InboxWhere, Lists!Present, Lists!Visible, Lists!InView, Lists!Filtered
  <2>2. ids \in Lists!Within(IdLimit, Lists!InboxWhere)
    BY DEF Lists!GetEmailIDs
  <2>3. Lists!InboxWhere \in SUBSET Messages
    BY DEF Lists!InboxWhere, Lists!Present
  <2>4. Lists!Cardinality(ids) = Cardinality(ids)
    BY CountedAlike
  <2>5. IdLimit \in Nat \ {0}
    BY ListBounds
  <2>6. /\ ids \in SUBSET Lists!InboxWhere
        /\ Cardinality(ids) < IdLimit => ids = Lists!InboxWhere
    BY <2>2, <2>3, <2>5, WithinLimit
  <2> QED BY <2>1, <2>4, <2>6
<1>4. {m \in Lists!Counted("unified", "INBOX") : TRUE => listed[m].unread /\ ~listed[m].muted}
         = Lists!Visible("unified", "INBOX", TRUE)
  BY DEF Lists!Counted, Lists!InboxWhere, Lists!Present, Lists!Visible, Lists!InView,
         Lists!Filtered
<1>5. Lists!GetEmailCount("unified", "INBOX", TRUE)
         = Lists!Cardinality(Lists!Visible("unified", "INBOX", TRUE))
  BY <1>4 DEF Lists!GetEmailCount
<1>6. ASSUME NEW folder \in Lists!Folders, NEW unread \in BOOLEAN
      PROVE  LET shown == Lists!Visible("folder", folder, unread)
                 count == Lists!GetEmailCount("folder", folder, unread)
             IN  /\ \A ids \in Lists!GetEmailIDs("folder", folder) :
                        Lists!Cardinality(ids) < IdLimit => shown \subseteq ids
                 /\ count >= Lists!Cardinality(shown)
                 /\ (\A m \in Lists!Present : ~listed[m].snoozed) =>
                       count = Lists!Cardinality(shown)
  <2> DEFINE shown == Lists!Visible("folder", folder, unread)
             all == {m \in Lists!Counted("folder", folder) :
                        unread => listed[m].unread /\ ~listed[m].muted}
  <2>1. ASSUME NEW ids \in Lists!GetEmailIDs("folder", folder), Lists!Cardinality(ids) < IdLimit
        PROVE  shown \subseteq ids
    <3>1. shown \subseteq Lists!RowsOf("folder", folder)
      BY DEF Lists!RowsOf, Lists!Present, Lists!Visible, Lists!InView
    <3>2. ids \in Lists!Within(IdLimit, Lists!RowsOf("folder", folder))
      BY DEF Lists!GetEmailIDs
    <3>3. Lists!RowsOf("folder", folder) \in SUBSET Messages
      BY DEF Lists!RowsOf, Lists!Present
    <3>4. Lists!Cardinality(ids) = Cardinality(ids)
      BY CountedAlike
    <3>5. ids = Lists!RowsOf("folder", folder)
      BY <2>1, <3>2, <3>3, <3>4, ListBounds, WithinLimit
    <3> QED BY <3>1, <3>5
  <2>2. shown \subseteq all
    BY DEF Lists!Counted, Lists!RowsOf, Lists!Present, Lists!Visible, Lists!InView, Lists!Filtered
  <2>3. (\A m \in Lists!Present : ~listed[m].snoozed) => shown = all
    BY DEF Lists!Counted, Lists!RowsOf, Lists!Present, Lists!Visible, Lists!InView, Lists!Filtered
  <2>4. IsFiniteSet(all)
    <3>1. all \in SUBSET Messages
      BY DEF Lists!Counted, Lists!RowsOf, Lists!Present
    <3> HIDE DEF all
    <3> QED BY <3>1, ListBounds, FS_Subset
  <2>5. Lists!GetEmailCount("folder", folder, unread) = Cardinality(all)
    BY CountedAlike DEF Lists!GetEmailCount
  <2>6. Lists!Cardinality(shown) = Cardinality(shown)
    BY CountedAlike
  <2> HIDE DEF shown, all
  <2>7. Cardinality(shown) \in Nat /\ Cardinality(all) \in Nat /\ Cardinality(shown) <= Cardinality(all)
    BY <2>2, <2>4, FS_Subset, FS_CardinalityType
  <2>8. Lists!GetEmailCount("folder", folder, unread) >= Lists!Cardinality(shown)
    BY <2>5, <2>6, <2>7
  <2> QED BY <2>1, <2>3, <2>5, <2>6, <2>8 DEF shown
<1> QED BY <1>3, <1>5, <1>6 DEF Lists!InboxQueriesAgree

(* Badge, "select all" and search repeat the conditions of the list in     *)
(* queries of their own and agree with it: "select all" as long as it gets *)
(* fewer ids than its limit, the search of a folder unless as many later   *)
(* messages of other folders have the text as a search returns             *)
(* (GetEmailCount, GetEmailIDs, SearchEmails, Search).                     *)
THEOREM QueriesAreRight == MCSpec => []QueriesAgree
<1>1. ListInv => QueriesAgree
  BY InboxAgrees DEF ListInv, FoundAll, QueriesAgree, Lists!QueriesAgree, Lists!SearchFinds
<1> QED BY <1>1, ListsAlways, PTL

-----------------------------------------------------------------------------
(* The shapes of all states.                                               *)

LEMMA StoreTypes == StoreInv => Store!TypeOK
<1> SUFFICES ASSUME StoreInv PROVE Store!TypeOK
  OBVIOUS
<1>1. {gmail, torn} \subseteq BOOLEAN
  BY DEF StoreInv, StoreShape
<1>2. \A m, n \in Msg : m # n /\ Store!HasRow(m) /\ Store!HasRow(n) =>
          rows[m].id # rows[n].id /\ rows[m].body # rows[n].body
  BY DEF StoreInv, IdsUnique
<1> QED BY <1>1, <1>2 DEF StoreInv, StoreShape, Store!TypeOK

LEMMA SecretsTypes == SecretsInv => Accounts!TypeOK
<1> SUFFICES ASSUME SecretsInv PROVE Accounts!TypeOK
  OBVIOUS
<1>1. {careful, skipped} \subseteq BOOLEAN
  BY DEF SecretsInv, SecretsShape
<1>2. {env, config} \subseteq {<<1>>, <<2, 1>>, <<2>>}
  BY DEF SecretsInv, SecretsShape, KeyLists
<1> QED BY <1>1, <1>2 DEF SecretsInv, SecretsShape, Accounts!TypeOK, AccountRow, LoginState,
           LoginSteps, Rekey

LEMMA ListsTypes == ListInv => Lists!TypeOK
<1> SUFFICES ASSUME ListInv PROVE Lists!TypeOK
  OBVIOUS
<1>1. walk \in Walk
  BY DEF ListInv, ListShape
<1>2. /\ walk.pc \in {"closed", "open", "failed", "done"}
      /\ walk.shown \in [Messages -> Nat] /\ walk.steady \subseteq Messages
  BY <1>1, WalkFields
<1> QED BY <1>2 DEF ListInv, ListShape, Lists!TypeOK

LEMMA TeamTypes == TeamInv => Team!TypeOK
<1> SUFFICES ASSUME TeamInv PROVE Team!TypeOK
  OBVIOUS
<1>1. \A e \in Email : tickets[e].status \in Team!Status /\ tickets[e].assigned \in User \cup {Nobody}
  BY DEF TeamInv, TeamShape, Ticket
<1>2. \A c \in Client : handling[c].pc \in {"idle", "stamp", "assign", "answer"}
  BY DEF TeamInv, TeamShape, Handling
<1> QED BY <1>1, <1>2 DEF TeamInv, TeamShape, Team!TypeOK

(* What the mailboxes of a Gmail account need besides their invariant.     *)
LabelsBounded ==
    /\ settled \subseteq {"cleaned", "backfilled"}
    /\ nextId <= MaxRows + 1 /\ worker.id <= MaxRows
    /\ todo \subseteq Letter \X Folder /\ doubled \subseteq Letter
    /\ moved \in 0 .. MaxMoves /\ failures \in 0 .. MaxFaults

LEMMA WorkerRests ==
    Gmail!Off.id = 0 /\ Gmail!Loop.id = 0 /\ \A pc : [Gmail!Off EXCEPT !.pc = pc].id = 0
BY DEF Gmail!Off, Gmail!Loop

LEMMA LabelsBoundedInit == Gmail!Init => LabelsBounded
BY LabelsBounds, WorkerRests DEF Gmail!Init, LabelsBounded

LEMMA LabelsBoundedNext ==
    ASSUME LabelsInv, LabelsBounded, Gmail!Next
    PROVE  LabelsBounded'
<1> DEFINE Rows == worker' \in WorkerState /\ worker'.id <= MaxRows
<1>1. /\ MaxRows \in Nat /\ MaxMoves \in Nat /\ MaxFaults \in Nat /\ nextId \in Nat
      /\ failures \in 0 .. MaxFaults /\ worker.id \in Nat
  BY LabelsBounds, WorkerFields DEF LabelsInv, LabelsShape, LabelsBounded
<1>2. Gmail!Failure => failures' \in 0 .. MaxFaults
  BY <1>1 DEF Gmail!Failure
<1>3. CASE \E m \in Letter, f \in Folder : Gmail!Discover(m, f)
  BY <1>3 DEF LabelsBounded, Gmail!Discover
<1>4. CASE \E m \in Letter, f \in Folder : Gmail!Lookup(m, f)
  <2>1. PICK m \in Letter, f \in Folder : Gmail!Lookup(m, f)
    BY <1>4
  <2> DEFINE at == [Gmail!Off EXCEPT !.msg = m, !.folder = f]
  <2>2. at \in WorkerState /\ at.id = 0
    BY DEF Gmail!Off, WorkerState, WorkerSteps
  <2>3. /\ [at EXCEPT !.pc = "save"].id = 0
        /\ \A i \in Gmail!Id : [at EXCEPT !.pc = "labels", !.id = i].id = i
    BY DEF Gmail!Off
  <2>4. /\ \/ worker' = [at EXCEPT !.pc = "save"]
           \/ \E i \in Gmail!Existing(m, f) : worker' = [at EXCEPT !.pc = "labels", !.id = i]
        /\ failures' = failures \/ Gmail!Failure
        /\ doubled' \subseteq doubled \cup {m}
        /\ UNCHANGED <<settled, nextId, todo, moved>>
    BY <2>1 DEF Gmail!Lookup
  <2>5. worker'.id <= MaxRows
    <3>1. Gmail!Existing(m, f) \subseteq Gmail!Id
      BY DEF Gmail!Existing, Gmail!RowsOf, Gmail!Live
    <3>2. \A i \in Gmail!Id : i <= MaxRows
      BY <1>1 DEF Gmail!Id
    <3>3. worker'.id = 0 \/ \E i \in Gmail!Id : worker'.id = i
      BY <2>3, <2>4, <3>1, Zenon
    <3> QED BY <1>1, <3>2, <3>3
  <2> QED BY <1>1, <1>2, <2>4, <2>5 DEF LabelsBounded
<1>5. CASE Gmail!DetectGmail
  <2>1. worker'.id = 0
    BY <1>5, WorkerRests DEF Gmail!DetectGmail
  <2> QED BY <1>1, <1>5, <2>1 DEF LabelsBounded, Gmail!DetectGmail
<1>6. CASE Gmail!CleanupGmailDuplicates
  <2>1. /\ worker' = [Gmail!Off EXCEPT !.pc = "backfill"]
        /\ settled' \subseteq settled \cup {"cleaned"} /\ (failures' = failures \/ Gmail!Failure)
        /\ UNCHANGED <<nextId, todo, doubled, moved>>
    BY <1>6 DEF Gmail!CleanupGmailDuplicates
  <2> QED BY <1>1, <1>2, <2>1, WorkerRests DEF LabelsBounded
<1>7. CASE Gmail!BackfillGmailLabels
  <2>1. /\ worker' = Gmail!Loop /\ settled' = settled \cup {"backfilled"}
        /\ failures' = failures \/ Gmail!Failure
        /\ UNCHANGED <<nextId, todo, doubled, moved>>
    BY <1>7 DEF Gmail!BackfillGmailLabels
  <2> QED BY <1>1, <1>2, <2>1, WorkerRests DEF LabelsBounded
<1>8. CASE Gmail!Disconnect
  BY <1>1, <1>2, <1>8, WorkerRests DEF LabelsBounded, Gmail!Disconnect
<1>9. CASE Gmail!GetGmailLabels
  <2>1. /\ worker' = Gmail!Loop \/ worker' = [worker EXCEPT !.pc = "upsert", !.had = labels[worker.id]]
        /\ failures' = failures \/ Gmail!Failure
        /\ todo' \subseteq todo /\ UNCHANGED <<settled, nextId, doubled, moved>>
    BY <1>9 DEF Gmail!GetGmailLabels, Gmail!Finish
  <2>2. worker'.id \in {0, worker.id}
    <3>1. [worker EXCEPT !.pc = "upsert", !.had = labels[worker.id]].id = worker.id
      BY WorkerFields DEF WorkerState
    <3> QED BY <2>1, <3>1, WorkerRests
  <2> QED BY <1>1, <1>2, <2>1, <2>2 DEF LabelsBounded
<1>10. CASE Gmail!UpsertEmailLabels
  <2>1. /\ worker' = Gmail!Loop /\ (failures' = failures \/ Gmail!Failure)
        /\ todo' \subseteq todo /\ UNCHANGED <<settled, nextId, doubled, moved>>
    BY <1>10 DEF Gmail!UpsertEmailLabels, Gmail!Finish
  <2> QED BY <1>1, <1>2, <2>1, WorkerRests DEF LabelsBounded
<1>11. CASE Gmail!SaveEmailToFolder
  <2>1. /\ nextId <= MaxRows /\ nextId' = nextId + 1
        /\ worker' = Gmail!Loop \/ worker' = [worker EXCEPT !.pc = "upsert", !.id = nextId, !.had = {}]
        /\ todo' \subseteq todo /\ UNCHANGED <<settled, doubled, moved, failures>>
    BY <1>11 DEF Gmail!SaveEmailToFolder, Gmail!Finish
  <2>2. worker'.id \in {0, nextId}
    <3>1. [worker EXCEPT !.pc = "upsert", !.id = nextId, !.had = {}].id = nextId
      BY WorkerFields DEF WorkerState
    <3> QED BY <2>1, <3>1, WorkerRests
  <2> QED BY <1>1, <2>1, <2>2 DEF LabelsBounded
<1>12. CASE \E i \in Gmail!Id, f \in Folder : Gmail!MoveEmail(i, f)
  <2>1. /\ moved < MaxMoves /\ moved' = moved + 1
        /\ UNCHANGED <<settled, nextId, todo, worker, doubled, failures>>
    BY <1>12 DEF Gmail!MoveEmail
  <2> QED BY <1>1, <2>1 DEF LabelsBounded
<1>13. CASE \E v \in Gmail!Move : Gmail!SyncMove(v)
  <2>1. PICK v \in Gmail!Move : Gmail!SyncMove(v)
    BY <1>13
  <2>2. /\ failures' = failures \/ Gmail!Failure
        /\ todo' = IF v.id \in Gmail!Live THEN todo \cup {<<copies[v.id].msg, v.target>>} ELSE todo
        /\ UNCHANGED <<settled, nextId, worker, doubled, moved>>
    BY <2>1 DEF Gmail!SyncMove
  <2>3. todo' \subseteq Letter \X Folder
    <3>1. v.id \in Gmail!Live => copies[v.id].msg \in Letter
      BY LiveRows, CopyFields
    <3>2. v.target \in Folder
      BY DEF Gmail!Move
    <3> QED BY <2>2, <3>1, <3>2 DEF LabelsBounded
  <2> QED BY <1>1, <1>2, <2>2, <2>3 DEF LabelsBounded
<1>14. CASE \E i \in Gmail!Id : Gmail!DeleteEmail(i)
  BY <1>14 DEF LabelsBounded, Gmail!DeleteEmail
<1> QED BY <1>3, <1>4, <1>5, <1>6, <1>7, <1>8, <1>9, <1>10, <1>11, <1>12, <1>13, <1>14
        DEF Gmail!Next

LEMMA LabelsTypes == LabelsInv /\ LabelsBounded => Gmail!TypeOK
<1> SUFFICES ASSUME LabelsInv, LabelsBounded PROVE Gmail!TypeOK
  OBVIOUS
<1>1. /\ nextId \in 1 .. MaxRows + 1 /\ worker.id \in 0 .. MaxRows
      /\ worker.pc \in WorkerSteps /\ worker.had \subseteq Folder
  BY LabelsBounds, WorkerFields DEF LabelsBounded, LabelsInv, LabelsShape
<1> QED BY <1>1 DEF LabelsBounded, LabelsInv, LabelsShape, WorkerSteps, Gmail!TypeOK

(* What the rows of folders need besides their invariant: no cursor, and   *)
(* no UID a pass is at, is beyond the mailbox.                             *)
PassBounded(r) ==
    /\ r.last <= MaxMail /\ r.end <= MaxMail /\ r.top <= MaxMail
    /\ \A p \in Path : r.listed[p].last <= MaxMail
    /\ r.pc = "save" => 0 < r.pos /\ r.pos <= MaxMail

FoldersBounded ==
    /\ \A p \in Mailbox : mail[p] <= MaxMail
    /\ \A i \in FolderRows!Id : folders[i].last <= MaxMail
    /\ nextFolder <= MaxId + 1 /\ 0 < started
    /\ \A e \in emails : e \in [path : Path, uid : 1 .. MaxMail, folder : FolderRows!Id]
    /\ tasks \subseteq FolderRows!Message /\ done \subseteq FolderRows!Message
    /\ gone \subseteq FolderRows!Message /\ missed \subseteq FolderRows!Message
    /\ outlived \subseteq FolderRows!Message
    /\ \A s \in Syncer : PassBounded(syncer[s])
    /\ \A i \in deleting : i \in FolderRows!Id /\ folders[i].path # NoPath
    /\ renamed \subseteq Path /\ stale \subseteq Path

LEMMA MailBound == MaxMail \in Nat \ {0}
BY RequestsAssumption DEF RequestsAssumption, FolderRows!FolderListAssumption

LEMMA RestBounded ==
    /\ FolderRows!AtRest.last = 0 /\ FolderRows!AtRest.end = 0 /\ FolderRows!AtRest.pc = "idle"
    /\ FolderRows!AtRest.top = 0
    /\ \A p \in Path : FolderRows!AtRest.listed[p].last = 0
    /\ PassBounded(FolderRows!AtRest)
<1>1. /\ FolderRows!AtRest.last = 0 /\ FolderRows!AtRest.end = 0 /\ FolderRows!AtRest.pc = "idle"
      /\ FolderRows!AtRest.top = 0
      /\ FolderRows!AtRest.listed = FolderRows!Unlisted
  BY DEF FolderRows!AtRest
<1>2. \A p \in Path : FolderRows!Unlisted[p].last = 0
  BY DEF FolderRows!Unlisted
<1> QED BY <1>1, <1>2, MailBound DEF PassBounded

LEMMA FoldersBoundedInit == FolderRows!Init => FoldersBounded
<1> SUFFICES ASSUME FolderRows!Init PROVE FoldersBounded
  OBVIOUS
<1>1. /\ mail \in [Mailbox -> 0 .. 1] /\ folders = [i \in FolderRows!Id |-> FolderRows!NoRow]
      /\ nextFolder = 1 /\ started = 1 /\ emails = {} /\ tasks = {} /\ done = {} /\ gone = {}
      /\ missed = {} /\ outlived = {}
      /\ syncer = [s \in Syncer |-> FolderRows!AtRest] /\ deleting = {} /\ renamed = {} /\ stale = {}
  BY DEF FolderRows!Init
<1>2. \A p \in Mailbox : mail[p] \in 0 .. 1
  BY <1>1
<1>3. MaxId \in Nat
  BY FolderBounds
<1> QED BY <1>1, <1>2, <1>3, MailBound, RestBounded, RestOf DEF FoldersBounded

(* A row made for a path, and the cursor of a row set.                     *)
LEMMA CreateBounded ==
    ASSUME FoldersInv, FoldersBounded, NEW p \in Path, FolderRows!Create(p)
    PROVE  /\ \A i \in FolderRows!Id : folders'[i].last <= MaxMail
           /\ \A i \in deleting : folders'[i].path # NoPath
           /\ nextFolder' <= MaxId + 1
<1>1. folders \in [FolderRows!Id -> FolderRow] /\ nextFolder \in Nat
  BY DEF FoldersInv, FoldersShape
<1>2. [FolderRows!NoRow EXCEPT !.path = p].last = 0 /\ [FolderRows!NoRow EXCEPT !.path = p].path = p
  BY DEF FolderRows!NoRow
<1>3. /\ \A i \in FolderRows!Id :
            folders'[i] = IF i = nextFolder THEN [FolderRows!NoRow EXCEPT !.path = p] ELSE folders[i]
      /\ nextFolder <= MaxId /\ nextFolder' = nextFolder + 1
  BY <1>1 DEF FolderRows!Create
<1>4. ASSUME NEW i \in FolderRows!Id PROVE folders'[i].last <= MaxMail
  <2>1. folders'[i].last = IF i = nextFolder THEN 0 ELSE folders[i].last
    BY <1>2, <1>3
  <2>2. folders[i].last <= MaxMail
    BY DEF FoldersBounded
  <2> QED BY <2>1, <2>2, MailBound
<1>5. ASSUME NEW i \in deleting PROVE folders'[i].path # NoPath
  <2>1. i \in FolderRows!Id /\ folders[i].path # NoPath /\ p # NoPath
    BY FolderBounds DEF FoldersBounded
  <2> QED BY <1>2, <1>3, <2>1
<1>6. nextFolder' <= MaxId + 1
  BY <1>1, <1>3, FolderBounds
<1> QED BY <1>4, <1>5, <1>6

LEMMA CursorBounded ==
    ASSUME FoldersInv, FoldersBounded, NEW k \in Nat, NEW n \in Nat, n <= MaxMail,
           FolderRows!SetCursor(k, n)
    PROVE  /\ \A i \in FolderRows!Id : folders'[i].last <= MaxMail
           /\ \A i \in deleting : folders'[i].path # NoPath
<1>1. folders \in [FolderRows!Id -> FolderRow]
  BY DEF FoldersInv, FoldersShape
<1>2. CASE ~FolderRows!Live(k)
  BY <1>2 DEF FolderRows!SetCursor, FoldersBounded
<1>3. CASE FolderRows!Live(k)
  <2>1. folders' = [folders EXCEPT ![k].last = n] /\ k \in FolderRows!Id
    BY <1>3 DEF FolderRows!SetCursor, FolderRows!Live
  <2>2. \A i \in FolderRows!Id : /\ folders'[i].path = folders[i].path
                                 /\ folders'[i].last = IF i = k THEN n ELSE folders[i].last
    BY <1>1, <2>1 DEF FolderRow
  <2> QED BY <2>2 DEF FoldersBounded
<1> QED BY <1>2, <1>3

(* What a step of a pass has to keep.                                      *)
LEMMA PassKeepsBounds ==
    ASSUME FoldersInv, FoldersBounded, NEW s \in Syncer, NEW r, PassBounded(r),
           FolderRows!Becomes(s, r),
           UNCHANGED <<mail, deleting, started, gone, outlived, renamed, stale>>,
           \A i \in FolderRows!Id : folders'[i].last <= MaxMail,
           \A i \in deleting : folders'[i].path # NoPath,
           nextFolder' <= MaxId + 1,
           \A e \in emails' : e \in [path : Path, uid : 1 .. MaxMail, folder : FolderRows!Id],
           tasks' \subseteq FolderRows!Message, done' \subseteq FolderRows!Message,
           missed' \subseteq FolderRows!Message
    PROVE  FoldersBounded'
<1>1. syncer \in [Syncer -> Pass]
  BY DEF FoldersInv, FoldersShape
<1>2. \A t \in Syncer : syncer'[t] = IF t = s THEN r ELSE syncer[t]
  BY <1>1 DEF FolderRows!Becomes
<1>3. \A t \in Syncer : PassBounded(syncer'[t])
  BY <1>2 DEF FoldersBounded
<1>4. \A t \in Syncer : PassBounded(syncer[t])'
  BY <1>3 DEF PassBounded
<1> QED BY <1>4 DEF FoldersBounded, FolderRows!Message

LEMMA PassOf ==
    ASSUME FoldersInv, FoldersBounded, NEW s \in Syncer
    PROVE  /\ syncer[s] \in Pass /\ PassBounded(syncer[s])
           /\ syncer[s].pc \notin {"idle", "folder"} => syncer[s].at \in Path
           /\ syncer[s].pc # "idle" => Knows(syncer[s]) /\ IsThrough(syncer[s])
BY DEF FoldersInv, FoldersShape, FoldersBounded, PassesRight

(* Nothing else changes, as is so of most steps.                           *)
Kept ==
    /\ UNCHANGED <<mail, emails, tasks, done, deleting, started, gone, missed, outlived, renamed, stale>>

LEMMA EnsureBounded ==
    ASSUME FoldersInv, FoldersBounded, NEW p \in Path,
           FolderRows!Create(p) \/ UNCHANGED <<folders, nextFolder>>
    PROVE  /\ \A i \in FolderRows!Id : folders'[i].last <= MaxMail
           /\ \A i \in deleting : folders'[i].path # NoPath
           /\ nextFolder' <= MaxId + 1
BY CreateBounded DEF FoldersBounded

LEMMA ListingBounded ==
    ASSUME FoldersInv, FoldersBounded, NEW r \in Pass, PassBounded(r), NEW todo_
    PROVE  PassBounded(FolderRows!Listing(r, todo_))
<1> DEFINE n == FolderRows!Listing(r, todo_)
<1>1. /\ n.last = r.last /\ n.end = r.end /\ n.pc = "folder" /\ n.top = r.top
      /\ n.listed = [p \in Path |-> LET id == FolderRows!FolderOf(p)
                                    IN [id |-> id, last |-> IF id = 0 THEN 0 ELSE folders[id].last]]
  BY DEF FolderRows!Listing, Pass
<1>2. ASSUME NEW p \in Path PROVE n.listed[p].last <= MaxMail
  <2>1. n.listed[p].last = IF FolderRows!FolderOf(p) = 0 THEN 0
                           ELSE folders[FolderRows!FolderOf(p)].last
    BY <1>1
  <2>2. FolderRows!FolderOf(p) # 0 => FolderRows!FolderOf(p) \in FolderRows!Id
    BY RowOf
  <2> QED BY <2>1, <2>2, MailBound DEF FoldersBounded
<1> QED BY <1>1, <1>2 DEF PassBounded

LEMMA GetBounded ==
    ASSUME FoldersInv, FoldersBounded, NEW s \in Syncer, NEW r \in Pass, PassBounded(r),
           r.at \in Path, 0 < r.pos, r.pos <= MaxMail,
           FolderRows!GetOrCreateFolder(s, r), Kept
    PROVE  FoldersBounded'
<1>1. PICK n : /\ FolderRows!Becomes(s, n)
               /\ n.last = r.last /\ n.end = r.end /\ n.listed = r.listed /\ n.pos = r.pos /\ n.top = r.top
  <2> DEFINE cache == IF r.loaded THEN r.cache ELSE [q \in Path |-> FolderRows!FolderOf(q)]
             known == [r EXCEPT !.loaded = TRUE, !.cache = cache]
             p == r.at
  <2>1. \/ FolderRows!Becomes(s, [known EXCEPT !.folder = cache[p], !.pc = "save"])
        \/ FolderRows!Becomes(s, [known EXCEPT !.cache[p] = nextFolder, !.folder = nextFolder,
                                               !.pc = "save"])
        \/ FolderRows!Becomes(s, [known EXCEPT !.folder = 0, !.pc = "panic"])
    BY DEF FolderRows!GetOrCreateFolder
  <2>2. \A f, pc : LET n == [known EXCEPT !.folder = f, !.pc = pc]
                   IN  n.last = r.last /\ n.end = r.end /\ n.listed = r.listed /\ n.pos = r.pos /\ n.top = r.top
    BY DEF Pass
  <2>3. LET n == [known EXCEPT !.cache[p] = nextFolder, !.folder = nextFolder, !.pc = "save"]
        IN  n.last = r.last /\ n.end = r.end /\ n.listed = r.listed /\ n.pos = r.pos /\ n.top = r.top
    BY DEF Pass
  <2> DEFINE Same(n) == n.last = r.last /\ n.end = r.end /\ n.listed = r.listed /\ n.pos = r.pos /\ n.top = r.top
  <2>4. \A f, pc : Same([known EXCEPT !.folder = f, !.pc = pc])
    BY <2>2
  <2>5. Same([known EXCEPT !.cache[p] = nextFolder, !.folder = nextFolder, !.pc = "save"])
    BY <2>3
  <2> HIDE DEF known, Same, cache
  <2>6. \E n : FolderRows!Becomes(s, n) /\ Same(n)
    BY <2>1, <2>4, <2>5, Zenon
  <2> QED BY <2>6 DEF Same
<1>2. PassBounded(n)
  BY <1>1 DEF PassBounded
<1>3. FolderRows!Create(r.at) \/ UNCHANGED <<folders, nextFolder>>
  BY DEF FolderRows!GetOrCreateFolder
<1> QED BY <1>1, <1>2, <1>3, EnsureBounded, PassKeepsBounds DEF Kept, FoldersBounded

LEMMA RestartBounded ==
    ASSUME FoldersInv, FoldersBounded, FolderRows!Restart
    PROVE  FoldersBounded'
<1>1. /\ folders' = [i \in FolderRows!Id |-> IF folders[i].lower = NoPath
                         THEN [folders[i] EXCEPT !.lower = folders[i].path] ELSE folders[i]]
      /\ started' = nextFolder /\ syncer' = [t \in Syncer |-> FolderRows!AtRest] /\ deleting' = {}
      /\ stale' = stale \cup {folders[i].path : i \in deleting}
      /\ UNCHANGED <<mail, nextFolder, emails, tasks, done, gone, missed, outlived, renamed>>
  BY DEF FolderRows!Restart, FolderRows!queue
<1>2. \A i \in FolderRows!Id : folders[i] \in FolderRow
  BY DEF FoldersInv, FoldersShape
<1>3. \A i \in FolderRows!Id : folders'[i].last = folders[i].last
  BY <1>1, <1>2 DEF FolderRow
<1>4. stale' \subseteq Path
  BY <1>1, <1>2 DEF FoldersBounded, FolderRow
<1>5. \A t \in Syncer : PassBounded(syncer'[t])
  BY <1>1, RestBounded
<1>6. \A t \in Syncer : PassBounded(syncer[t])'
  BY <1>5 DEF PassBounded
<1>7. 0 < started'
  BY <1>1 DEF FoldersInv, FoldersShape
<1>8. /\ UNCHANGED <<mail, nextFolder, emails, tasks, done, gone, missed, outlived, renamed>>
      /\ deleting' = {}
  BY <1>1
<1> HIDE DEF PassBounded
<1> QED BY <1>3, <1>4, <1>6, <1>7, <1>8 DEF FoldersBounded, FolderRows!Message

LEMMA SyncBounded ==
    ASSUME FoldersInv, FoldersBounded, NEW s \in Syncer,
           \/ FolderRows!SyncAllFolders(s) \/ FolderRows!SyncFolder(s) \/ FolderRows!FindFolder(s)
           \/ FolderRows!SyncNonInboxFolders(s) \/ FolderRows!EndPass(s)
    PROVE  FoldersBounded'
<1> DEFINE me == syncer[s]
<1>1. me \in Pass /\ PassBounded(me)
  BY PassOf
<1>2. /\ FolderRows!AtRest \in Pass /\ PassBounded(FolderRows!AtRest)
      /\ FolderRows!AtRest.last = 0 /\ FolderRows!AtRest.end = 0
  BY RestOf, RestBounded
<1>3. \A n : PassBounded(n) /\ FolderRows!Becomes(s, n) /\ Kept /\ UNCHANGED <<folders, nextFolder>>
             => FoldersBounded'
  BY PassKeepsBounds DEF Kept, FoldersBounded
<1>4. CASE FolderRows!SyncAllFolders(s)
  <2>1. PassBounded(FolderRows!Listing(FolderRows!AtRest, Mailbox))
    BY <1>2, ListingBounded
  <2>2. PassBounded([FolderRows!AtRest EXCEPT !.pc = "folder", !.todo = {Inbox}])
    BY <1>2 DEF PassBounded, Pass
  <2> QED BY <1>3, <1>4, <2>1, <2>2 DEF FolderRows!SyncAllFolders, Kept, FolderRows!history, FolderRows!queue
<1>5. CASE FolderRows!SyncNonInboxFolders(s)
  <2>1. PassBounded(FolderRows!Listing(me, Mailbox \ {Inbox}))
    BY <1>1, ListingBounded
  <2> QED BY <1>3, <1>5, <2>1 DEF FolderRows!SyncNonInboxFolders, Kept, FolderRows!history, FolderRows!queue
<1>6. CASE FolderRows!EndPass(s)
  BY <1>2, <1>3, <1>6 DEF FolderRows!EndPass, Kept, FolderRows!history, FolderRows!queue
<1>7. CASE FolderRows!SyncFolder(s)
  <2>0. PICK p \in me.todo : \E rest :
           /\ rest = [me EXCEPT !.todo = @ \ {p}, !.listed[p] = FolderRows!Unlisted[p]]
           /\ \/ FolderRows!Becomes(s, rest) /\ UNCHANGED <<folders, nextFolder>>
              \/ /\ IF me.listed[p].last = 0 THEN FolderRows!Ensure(p) ELSE UNCHANGED <<folders, nextFolder>>
                 /\ FolderRows!Becomes(s, [[rest EXCEPT !.at = p, !.id = me.listed[p].id,
                                                !.last = me.listed[p].last, !.end = mail[p]]
                                            EXCEPT !.pc = "read"])
    BY <1>7 DEF FolderRows!SyncFolder
  <2>1. PICK rest :
           /\ rest = [me EXCEPT !.todo = @ \ {p}, !.listed[p] = FolderRows!Unlisted[p]]
           /\ \/ FolderRows!Becomes(s, rest) /\ UNCHANGED <<folders, nextFolder>>
              \/ /\ IF me.listed[p].last = 0 THEN FolderRows!Ensure(p) ELSE UNCHANGED <<folders, nextFolder>>
                 /\ FolderRows!Becomes(s, [[rest EXCEPT !.at = p, !.id = me.listed[p].id,
                                                !.last = me.listed[p].last, !.end = mail[p]]
                                            EXCEPT !.pc = "read"])
    BY <2>0
  <2>2. p \in Mailbox /\ p \in Path /\ mail[p] <= MaxMail /\ me.listed[p].last <= MaxMail
    BY <1>1, PassFields, FolderBounds DEF FoldersBounded, PassBounded
  <2>3. Kept
    BY <1>7 DEF FolderRows!SyncFolder, Kept, FolderRows!history, FolderRows!queue
  <2>4. /\ rest.last = me.last /\ rest.end = me.end /\ rest.top = me.top /\ rest.pc = me.pc
        /\ rest.listed = [me.listed EXCEPT ![p] = FolderRows!Unlisted[p]]
        /\ me.listed \in [Path -> [id : Nat, last : Nat]] /\ FolderRows!Unlisted[p].last = 0
    BY <1>1, <2>1, <2>2 DEF Pass, FolderRows!Unlisted
  <2>5. ASSUME NEW q \in Path PROVE rest.listed[q].last <= MaxMail
    <3>1. me.listed[q].last <= MaxMail
      BY <1>1 DEF PassBounded
    <3>2. rest.listed[q] = IF q = p THEN FolderRows!Unlisted[p] ELSE me.listed[q]
      BY <2>4
    <3>3. FolderRows!Unlisted[p].last <= MaxMail
      <4>1. FolderRows!Unlisted[p].last = 0
        BY <2>4
      <4>2. 0 <= MaxMail
        BY MailBound
      <4> HIDE DEF me
      <4> QED BY <4>1, <4>2
    <3>4. CASE q = p
      BY <3>2, <3>3, <3>4
    <3>5. CASE q # p
      BY <3>1, <3>2, <3>5
    <3> QED BY <3>4, <3>5
  <2>6. CASE FolderRows!Becomes(s, rest) /\ UNCHANGED <<folders, nextFolder>>
    <3>1. me.pc = "folder"
      BY <1>7 DEF FolderRows!SyncFolder
    <3>2. PassBounded(rest)
      BY <1>1, <2>4, <2>5, <3>1 DEF PassBounded
    <3> QED BY <1>3, <2>3, <2>6, <3>2
  <2>7. ASSUME IF me.listed[p].last = 0 THEN FolderRows!Ensure(p) ELSE UNCHANGED <<folders, nextFolder>>,
               FolderRows!Becomes(s, [[rest EXCEPT !.at = p, !.id = me.listed[p].id,
                                              !.last = me.listed[p].last, !.end = mail[p]]
                                          EXCEPT !.pc = "read"])
        PROVE  FoldersBounded'
    <3> DEFINE n == [[rest EXCEPT !.at = p, !.id = me.listed[p].id,
                                !.last = me.listed[p].last, !.end = mail[p]] EXCEPT !.pc = "read"]
    <3>0. DOMAIN rest = DOMAIN me
      BY <2>1
    <3>1. /\ n.last = me.listed[p].last /\ n.end = mail[p] /\ n.listed = rest.listed /\ n.pc = "read"
          /\ n.top = rest.top
      BY <1>1, <2>1, <3>0 DEF Pass
    <3>2. PassBounded(n)
      BY <1>1, <2>2, <2>4, <2>5, <3>1 DEF PassBounded
    <3>3. FolderRows!Becomes(s, n) /\ (FolderRows!Create(p) \/ UNCHANGED <<folders, nextFolder>>)
      BY <2>7 DEF FolderRows!Ensure
    <3> HIDE DEF n
    <3> QED BY <2>2, <2>3, <3>2, <3>3, EnsureBounded, PassKeepsBounds DEF Kept, FoldersBounded
  <2> QED BY <2>1, <2>6, <2>7
<1>8. CASE FolderRows!FindFolder(s)
  <2> DEFINE id == IF me.id # 0 THEN me.id ELSE FolderRows!FolderOf(me.at)
             last_ == IF me.id # 0 \/ id = 0 THEN me.last ELSE folders[id].last
  <2>1. /\ me.at \in Path /\ Kept
        /\ FolderRows!Create(me.at) \/ UNCHANGED <<folders, nextFolder>>
        /\ \E k, pc : /\ pc \in {"fetch", "enqueue"}
                      /\ FolderRows!Becomes(s, [[me EXCEPT !.last = last_, !.pos = last_ + 1]
                                                   EXCEPT !.id = k, !.pc = pc])
    BY <1>8, PassOf DEF FolderRows!FindFolder, Kept, FolderRows!history, FolderRows!queue
  <2>2. last_ <= MaxMail
    <3>1. CASE me.id # 0 \/ id = 0
      BY <1>1, <3>1 DEF PassBounded
    <3>2. CASE me.id = 0 /\ id # 0
      <4>1. id \in FolderRows!Id
        BY <2>1, <3>2, RowOf
      <4> QED BY <3>2, <4>1 DEF FoldersBounded
    <3> QED BY <3>1, <3>2
  <2>3. PICK k, pc : /\ pc \in {"fetch", "enqueue"}
                     /\ FolderRows!Becomes(s, [[me EXCEPT !.last = last_, !.pos = last_ + 1]
                                                  EXCEPT !.id = k, !.pc = pc])
    BY <2>1
  <2> HIDE DEF last_
  <2> DEFINE n == [[me EXCEPT !.last = last_, !.pos = last_ + 1] EXCEPT !.id = k, !.pc = pc]
  <2>4. n.last = last_ /\ n.end = me.end /\ n.listed = me.listed /\ n.pc = pc /\ n.top = me.top
    BY <1>1 DEF Pass
  <2>5. PassBounded(n)
    BY <1>1, <2>2, <2>3, <2>4 DEF PassBounded
  <2> HIDE DEF n
  <2>6. FolderRows!Becomes(s, n)
    BY <2>3 DEF n
  <2> QED BY <2>1, <2>5, <2>6, EnsureBounded, PassKeepsBounds DEF Kept, FoldersBounded
<1> QED BY <1>4, <1>5, <1>6, <1>7, <1>8

LEMMA MessagesBounded ==
    ASSUME FoldersInv, FoldersBounded, NEW s \in Syncer,
           \/ FolderRows!EnqueueUIDs(s) \/ FolderRows!Fetch(s) \/ FolderRows!FullSave(s)
           \/ FolderRows!TakeCheckpoint(s) \/ FolderRows!EndFetch(s)
           \/ FolderRows!ProcessTask(s) \/ FolderRows!TaskSave(s)
    PROVE  FoldersBounded'
<1> DEFINE me == syncer[s]
<1>1. me \in Pass /\ PassBounded(me)
  BY PassOf
<1>2. /\ me.pc \in {"enqueue", "fetch", "checkpoint", "save"} => me.at \in Path
      /\ me.pc # "idle" => Knows(me) /\ IsThrough(me)
  BY PassOf
<1>3. me.id \in Nat /\ me.end \in Nat /\ me.pos \in Nat /\ me.last \in Nat /\ MaxMail \in Nat
      /\ me.top \in Nat
  BY <1>1, PassFields, MailBound
<1>5. PassBounded(FolderRows!Passed(me))
  <2>1. PICK n : n = FolderRows!Passed(me)
    OBVIOUS
  <2>2. n.last = 0 /\ n.end = 0 /\ n.top = 0 /\ n.listed = me.listed /\ n.pc = "folder"
    BY <1>1, <2>1, PassedOn
  <2> QED BY <1>1, <2>1, <2>2, MailBound DEF PassBounded
<1>6. CASE FolderRows!EnqueueUIDs(s)
  <2> DEFINE new == me.last + 1 .. me.end
  <2>1. /\ FolderRows!Becomes(s, FolderRows!Passed(me)) /\ me.pc = "enqueue"
        /\ tasks' \subseteq tasks \cup {<<me.at, u>> : u \in new}
        /\ folders' = folders \/ FolderRows!SetCursor(me.id, me.end)
        /\ UNCHANGED <<mail, nextFolder, emails, done, deleting, started, gone, missed, outlived,
                       renamed, stale>>
    BY <1>6 DEF FolderRows!EnqueueUIDs, FolderRows!history
  <2>2. \A u \in new : u \in 1 .. MaxMail
    BY <1>1, <1>3 DEF PassBounded
  <2>3. tasks' \subseteq FolderRows!Message
    BY <1>2, <2>1, <2>2 DEF FoldersBounded, FolderRows!Message
  <2>4. /\ \A i \in FolderRows!Id : folders'[i].last <= MaxMail
        /\ \A i \in deleting : folders'[i].path # NoPath
    BY <1>1, <1>3, <2>1, CursorBounded DEF FoldersBounded, PassBounded
  <2> QED BY <1>5, <2>1, <2>3, <2>4, PassKeepsBounds DEF FoldersBounded
<1>7. CASE FolderRows!EndFetch(s)
  <2>1. /\ FolderRows!Becomes(s, FolderRows!Passed(me))
        /\ folders' = folders \/ FolderRows!SetCursor(me.id, me.top)
        /\ nextFolder' = nextFolder /\ Kept
    BY <1>7 DEF FolderRows!EndFetch, FolderRows!NextFolder, FolderRows!history, FolderRows!queue, Kept
  <2>2. /\ \A i \in FolderRows!Id : folders'[i].last <= MaxMail
        /\ \A i \in deleting : folders'[i].path # NoPath
    BY <1>1, <1>3, <2>1, CursorBounded DEF FoldersBounded, PassBounded
  <2> QED BY <1>5, <2>1, <2>2, PassKeepsBounds DEF FoldersBounded, Kept
<1>11. CASE FolderRows!TakeCheckpoint(s)
  <2>1. /\ FolderRows!Becomes(s, [me EXCEPT !.pc = "fetch", !.batch = 0])
        /\ FolderRows!SetCursor(me.id, me.top)
        /\ nextFolder' = nextFolder /\ Kept
    BY <1>11 DEF FolderRows!TakeCheckpoint, FolderRows!history, FolderRows!queue, Kept
  <2>2. /\ \A i \in FolderRows!Id : folders'[i].last <= MaxMail
        /\ \A i \in deleting : folders'[i].path # NoPath
    BY <1>1, <1>3, <2>1, CursorBounded DEF FoldersBounded, PassBounded
  <2>3. PassBounded([me EXCEPT !.pc = "fetch", !.batch = 0])
    BY <1>1 DEF PassBounded, Pass
  <2> QED BY <2>1, <2>2, <2>3, PassKeepsBounds DEF FoldersBounded, Kept
<1>8. CASE FolderRows!Fetch(s)
  <2>1. me.pc = "fetch" /\ me.pos <= me.end /\ FolderRows!GetOrCreateFolder(s, me) /\ Kept
    BY <1>8 DEF FolderRows!Fetch, FolderRows!history, FolderRows!queue, Kept
  <2>2. 0 < me.pos /\ me.pos <= MaxMail
    BY <1>1, <1>2, <1>3, <2>1 DEF Knows, IsThrough, PassBounded
  <2> QED BY <1>1, <1>2, <2>1, <2>2, GetBounded
<1>9. CASE FolderRows!ProcessTask(s)
  <2>1. PICK t \in tasks :
           FolderRows!GetOrCreateFolder(s, [me EXCEPT !.at = t[1], !.pos = t[2], !.end = 0])
    BY <1>9 DEF FolderRows!ProcessTask
  <2> DEFINE n == [me EXCEPT !.at = t[1], !.pos = t[2], !.end = 0]
  <2>2. t[1] \in Path /\ t[2] \in 1 .. MaxMail /\ t[2] \in Nat
    BY MailBound DEF FoldersBounded, FolderRows!Message
  <2>3. /\ n \in Pass /\ n.at = t[1] /\ n.pos = t[2] /\ n.end = 0 /\ n.last = me.last
        /\ n.listed = me.listed /\ n.pc = me.pc /\ n.top = me.top
    BY <1>1, <2>2 DEF Pass
  <2>4. me.pc = "folder" /\ Kept
    BY <1>9 DEF FolderRows!ProcessTask, FolderRows!history, FolderRows!queue, Kept
  <2>5. PassBounded(n)
    BY <1>1, <1>3, <2>3, <2>4 DEF PassBounded
  <2>6. FolderRows!GetOrCreateFolder(s, n)
    BY <2>1
  <2> HIDE DEF n
  <2> QED BY <2>2, <2>3, <2>4, <2>5, <2>6, GetBounded
<1>10. CASE FolderRows!FullSave(s) \/ FolderRows!TaskSave(s)
  <2> DEFINE e == [path |-> me.at, uid |-> me.pos, folder |-> me.folder]
             t == <<me.at, me.pos>>
  <2>1. /\ me.pc = "save"
        /\ emails' \subseteq emails \cup {e} /\ tasks' \subseteq tasks
        /\ done' \subseteq done \cup tasks /\ missed' \subseteq missed \cup {t}
        /\ UNCHANGED <<mail, folders, nextFolder, deleting, started, gone, outlived, renamed, stale>>
    BY <1>10 DEF FolderRows!FullSave, FolderRows!TaskSave, FolderRows!Ingest, FolderRows!GiveUp,
                 FolderRows!queue
  <2>2. me.at \in Path /\ me.pos \in 1 .. MaxMail /\ me.folder \in FolderRows!Id
    BY <1>1, <1>2, <1>3, <2>1 DEF Knows, Names, PassBounded
  <2>3. \A x \in emails' : x \in [path : Path, uid : 1 .. MaxMail, folder : FolderRows!Id]
    BY <2>1, <2>2 DEF FoldersBounded
  <2>4. /\ tasks' \subseteq FolderRows!Message /\ done' \subseteq FolderRows!Message
        /\ missed' \subseteq FolderRows!Message
    <3>1. t \in FolderRows!Message
      BY <2>2 DEF FolderRows!Message
    <3> HIDE DEF t
    <3> QED BY <2>1, <3>1 DEF FoldersBounded
  <2>5. PICK n : FolderRows!Becomes(s, n) /\ PassBounded(n)
    <3>1. CASE FolderRows!TaskSave(s)
      BY <1>5, <3>1 DEF FolderRows!TaskSave
    <3>2. CASE FolderRows!FullSave(s)
      <4>1. PICK pc \in {"checkpoint", "fetch"}, top \in {me.pos, me.top}, batch \in Nat :
               FolderRows!Becomes(s, [me EXCEPT !.pc = pc, !.pos = @ + 1, !.top = top, !.batch = batch])
        <5>1. PICK reported \in BOOLEAN :
                 LET top == IF reported THEN me.pos ELSE me.top
                     batch == me.batch + 1
                     due_ == batch >= Checkpoint /\ top > me.last
                 IN  FolderRows!Becomes(s, [me EXCEPT !.pc = IF due_ THEN "checkpoint" ELSE "fetch",
                                                     !.pos = @ + 1, !.top = top, !.batch = batch])
          BY <3>2 DEF FolderRows!FullSave
        <5>2. me.batch + 1 \in Nat
          BY <1>1, PassFields
        <5> QED BY <5>1, <5>2
      <4> DEFINE n == [me EXCEPT !.pc = pc, !.pos = @ + 1, !.top = top, !.batch = batch]
      <4>2. n.last = me.last /\ n.end = me.end /\ n.listed = me.listed /\ n.pc = pc /\ n.top = top
        BY <1>1 DEF Pass
      <4>3. top <= MaxMail
        BY <1>1, <2>2 DEF PassBounded
      <4>4. PassBounded(n)
        BY <1>1, <4>1, <4>2, <4>3 DEF PassBounded
      <4> QED BY <4>1, <4>4
    <3> QED BY <1>10, <3>1, <3>2
  <2> HIDE DEF e, t
  <2> QED BY <2>1, <2>3, <2>4, <2>5, PassKeepsBounds DEF FoldersBounded
<1> QED BY <1>6, <1>7, <1>8, <1>9, <1>10, <1>11

LEMMA FoldersBoundedNext ==
    ASSUME FoldersInv, FoldersBounded, FolderRows!Next
    PROVE  FoldersBounded'
<1>0. \A t : PassBounded(syncer[t])' <=> PassBounded(syncer'[t])
  BY DEF PassBounded
<1>1. CASE \E s \in Syncer : FolderRows!PassStep(s)
  <2>1. PICK s \in Syncer : FolderRows!PassStep(s)
    BY <1>1
  <2>2. CASE FolderRows!Panic(s)
    <3>1. CASE FolderRows!Restart
      BY <3>1, RestartBounded
    <3>2. CASE /\ FolderRows!Becomes(s, FolderRows!AtRest) /\ Kept
               /\ UNCHANGED <<folders, nextFolder>>
      BY <3>2, RestBounded, PassKeepsBounds DEF Kept, FoldersBounded
    <3> QED BY <2>2, <3>1, <3>2 DEF FolderRows!Panic, FolderRows!history, FolderRows!queue, Kept
  <2> QED BY <2>1, <2>2, SyncBounded, MessagesBounded DEF FolderRows!PassStep
<1>2. CASE \E p \in Mailbox : FolderRows!Arrive(p)
  <2>1. PICK p \in Mailbox : FolderRows!Arrive(p)
    BY <1>2
  <2>2. /\ mail \in [Mailbox -> Nat] /\ mail[p] < MaxMail /\ mail' = [mail EXCEPT ![p] = @ + 1]
        /\ UNCHANGED <<folders, nextFolder, emails, tasks, done, syncer, deleting, started, gone, missed, outlived,
                       renamed, stale>>
    BY <2>1 DEF FolderRows!Arrive, FolderRows!history, FolderRows!queue, FoldersInv, FoldersShape
  <2>3. \A q \in Mailbox : mail'[q] <= MaxMail
    BY <2>2, MailBound DEF FoldersBounded
  <2> QED BY <1>0, <2>2, <2>3 DEF FoldersBounded, FolderRows!Message
<1>3. CASE \E p \in Path : FolderRows!CreateFolder(p)
  <2>1. PICK p \in Path : FolderRows!CreateFolder(p)
    BY <1>3
  <2>2. FolderRows!Create(p) /\ Kept /\ syncer' = syncer
    BY <2>1 DEF FolderRows!CreateFolder, FolderRows!history, FolderRows!queue, Kept
  <2> QED BY <1>0, <2>2, EnsureBounded DEF FoldersBounded, Kept, FolderRows!Message
<1>4. CASE \E i \in FolderRows!Id, p \in Path : FolderRows!RenameFolder(i, p)
  <2>1. PICK i \in FolderRows!Id, p \in Path : FolderRows!RenameFolder(i, p)
    BY <1>4
  <2>2. /\ folders \in [FolderRows!Id -> FolderRow] /\ FolderRows!Live(i)
        /\ folders' = [folders EXCEPT ![i].path = p] /\ renamed' = renamed \cup {folders[i].path, p}
        /\ UNCHANGED <<mail, nextFolder, emails, tasks, done, syncer, deleting, started, gone, missed, outlived, stale>>
    BY <2>1 DEF FolderRows!RenameFolder, FolderRows!queue, FoldersInv, FoldersShape
  <2>3. \A j \in FolderRows!Id : /\ folders'[j].last = folders[j].last
                                 /\ folders'[j].path = IF j = i THEN p ELSE folders[j].path
    BY <2>2 DEF FolderRow
  <2>4. folders[i].path \in Path /\ p # NoPath
    BY <2>2, FolderBounds DEF FolderRow, FolderRows!Live, FoldersInv, RowsApart
  <2> QED BY <1>0, <2>2, <2>3, <2>4 DEF FoldersBounded, FolderRows!Message
<1>5. CASE \E i \in FolderRows!Id : FolderRows!DeleteEmails(i)
  <2>1. PICK i \in FolderRows!Id : FolderRows!DeleteEmails(i)
    BY <1>5
  <2>2. /\ emails' \subseteq emails /\ deleting' = deleting \cup {i} /\ FolderRows!Live(i)
        /\ UNCHANGED <<mail, folders, nextFolder, tasks, done, syncer, started, gone, missed, outlived, renamed, stale>>
    BY <2>1 DEF FolderRows!DeleteEmails, FolderRows!history, FolderRows!queue
  <2>3. folders[i].path # NoPath
    BY <2>2 DEF FolderRows!Live, FoldersInv, RowsApart
  <2> QED BY <1>0, <2>2, <2>3 DEF FoldersBounded, FolderRows!Message
<1>6. CASE \E i \in FolderRows!Id : FolderRows!DeleteFolder(i)
  <2>1. PICK i \in FolderRows!Id : FolderRows!DeleteFolder(i)
    BY <1>6
  <2>2. /\ folders \in [FolderRows!Id -> FolderRow] /\ i \in deleting
        /\ folders' = [folders EXCEPT ![i] = FolderRows!NoRow] /\ deleting' = deleting \ {i}
        /\ stale' \subseteq stale \cup {folders[i].path}
        /\ UNCHANGED <<mail, nextFolder, emails, tasks, done, syncer, started, gone, missed, renamed>>
        /\ outlived' \subseteq outlived \cup done
    BY <2>1 DEF FolderRows!DeleteFolder, FolderRows!queue, FoldersInv, FoldersShape
  <2>3. \A j \in FolderRows!Id : folders'[j] = IF j = i THEN FolderRows!NoRow ELSE folders[j]
    BY <2>2
  <2>4. folders[i].path \in Path
    BY <2>2 DEF FoldersBounded, FolderRow
  <2>5. \A j \in FolderRows!Id : folders'[j].last <= MaxMail
    BY <2>3, RestOf, MailBound DEF FoldersBounded
  <2> QED BY <1>0, <2>2, <2>3, <2>4, <2>5 DEF FoldersBounded, FolderRows!Message
<1>7. CASE \E e \in emails : FolderRows!DeleteEmail(e)
  <2>1. PICK e \in emails : FolderRows!DeleteEmail(e)
    BY <1>7
  <2>2. /\ emails' \subseteq emails /\ gone' = gone \cup {<<e.path, e.uid>>}
        /\ FolderRows!Create(Trash) \/ UNCHANGED <<folders, nextFolder>>
        /\ UNCHANGED <<mail, tasks, done, syncer, deleting, started, missed, outlived, renamed, stale>>
    BY <2>1 DEF FolderRows!DeleteEmail, FolderRows!queue
  <2>3. <<e.path, e.uid>> \in FolderRows!Message
    BY DEF FoldersBounded, FolderRows!Message
  <2> QED BY <1>0, <2>2, <2>3, EnsureBounded, FolderBounds DEF FoldersBounded, FolderRows!Message
<1>8. CASE FolderRows!Restart
  BY <1>8, RestartBounded
<1>9. CASE \E t \in tasks \cup done : FolderRows!CleanQueueGarbage(t)
  <2>1. /\ tasks' \subseteq tasks /\ done' \subseteq done
        /\ UNCHANGED <<mail, folders, nextFolder, emails, syncer, deleting, started, gone, missed,
                       outlived, renamed, stale>>
    BY <1>9 DEF FolderRows!CleanQueueGarbage, FolderRows!history
  <2> QED BY <1>0, <2>1 DEF FoldersBounded, FolderRows!Message
<1> QED BY <1>1, <1>2, <1>3, <1>4, <1>5, <1>6, <1>7, <1>8, <1>9 DEF FolderRows!Next

LEMMA FoldersTypes == FoldersInv /\ FoldersBounded => FolderRows!TypeOK
<1> SUFFICES ASSUME FoldersInv, FoldersBounded PROVE FolderRows!TypeOK
  OBVIOUS
<1>1. mail \in [Mailbox -> 0 .. MaxMail]
  BY MailBound DEF FoldersBounded, FoldersInv, FoldersShape
<1>2. folders \in [FolderRows!Id -> [path : Path \cup {NoPath}, lower : Path \cup {NoPath},
                                     last : 0 .. MaxMail]]
  <2>1. folders \in [FolderRows!Id -> FolderRow]
    BY DEF FoldersInv, FoldersShape
  <2>2. ASSUME NEW i \in FolderRows!Id
        PROVE  folders[i] \in [path : Path \cup {NoPath}, lower : Path \cup {NoPath},
                               last : 0 .. MaxMail]
    BY <2>1, MailBound DEF FoldersBounded, FolderRow
  <2> QED BY <2>1, <2>2
<1>3. nextFolder \in 1 .. MaxId + 1 /\ started \in 1 .. nextFolder
  BY FolderBounds DEF FoldersBounded, FoldersInv, FoldersShape
<1>4. \A i, j \in FolderRows!Id : FolderRows!Live(i) /\ folders[i].path = folders[j].path => i = j
  BY DEF FoldersInv, RowsApart, FolderRows!Live
<1>5. ASSUME NEW s \in Syncer
      PROVE  /\ syncer[s].pc \in {"idle", "folder", "read", "fetch", "enqueue", "save", "checkpoint",
                               "panic"}
             /\ syncer[s].pc = "save" => syncer[s].folder # 0
  <2>1. syncer[s].pc \in PassSteps
    BY PassOf, PassFields
  <2>2. syncer[s].pc = "save" => syncer[s].folder \in FolderRows!Id
    BY PassOf DEF Knows, Names
  <2> QED BY <2>1, <2>2, FolderBounds DEF PassSteps, FolderRows!Id
<1> QED BY <1>1, <1>2, <1>3, <1>4, <1>5 DEF FoldersBounded, FolderRows!TypeOK

TypesInv ==
    /\ Inv /\ StoreInv /\ SecretsInv /\ ListInv /\ LabelsInv /\ LabelsBounded /\ TeamInv
    /\ FoldersInv /\ FoldersBounded

(* What moves in the states of all components, for every value of the      *)
(* constants, keeps the declared shapes.                                   *)
THEOREM RequestTypes == MCSpec => []TypesOK
<1>1. MCInit => TypesInv
  BY InvInit, StoreInit, SecretsInit, ListsInit, LabelsInit, LabelsBoundedInit, TeamInit,
     FoldersInit, FoldersBoundedInit DEF MCInit, TypesInv
<1>2. TypesInv /\ [MCNext]_requests => TypesInv'
  <2> SUFFICES ASSUME TypesInv, [MCNext]_requests PROVE TypesInv'
    OBVIOUS
  <2>1. Inv'
    BY NextInv DEF TypesInv, MCNext, requests
  <2>2. StoreInv'
    BY StoreNext, StoreStutters DEF TypesInv, MCNext, requests
  <2>3. SecretsInv'
    BY SecretsNext, SecretsStutters DEF TypesInv, MCNext, requests
  <2>4. ListInv'
    BY ListsNext, ListsStutter DEF TypesInv, MCNext, requests
  <2>5. LabelsInv'
    BY LabelsNext, LabelsStutters DEF TypesInv, MCNext, requests
  <2>6. LabelsBounded'
    <3>1. CASE UNCHANGED mailboxes
      BY <3>1 DEF TypesInv, LabelsBounded, mailboxes
    <3>2. CASE Gmail!Next
      BY <3>2, LabelsBoundedNext DEF TypesInv
    <3> QED BY <3>1, <3>2 DEF MCNext, requests
  <2>7. TeamInv'
    BY TeamNext, TeamStutters DEF TypesInv, MCNext, requests
  <2>8. FoldersInv'
    BY FoldersNext, FoldersStutter DEF TypesInv, MCNext, Passes, requests
  <2>9. FoldersBounded'
    <3>1. CASE UNCHANGED names
      <4>1. \A s : PassBounded(syncer[s])' <=> PassBounded(syncer[s])
        BY <3>1 DEF PassBounded, names
      <4> QED BY <3>1, <4>1 DEF TypesInv, FoldersBounded, names, FolderRows!Message
    <3>2. CASE FolderRows!Next
      BY <3>2, FoldersBoundedNext DEF TypesInv
    <3> QED BY <3>1, <3>2 DEF MCNext, Passes, requests
  <2> QED BY <2>1, <2>2, <2>3, <2>4, <2>5, <2>6, <2>7, <2>8, <2>9 DEF TypesInv
<1>3. TypesInv => TypesOK
  <2>1. Inv => TypeOK
    BY DEF Inv, Shape
  <2> QED BY <2>1, StoreTypes, SecretsTypes, ListsTypes, LabelsTypes, TeamTypes, FoldersTypes
          DEF TypesInv, TypesOK
<1> QED BY <1>1, <1>2, <1>3, PTL DEF MCSpec

=============================================================================
