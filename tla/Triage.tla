------------------------------- MODULE Triage -------------------------------
(***************************************************************************)
(* Emails handled by a team: an email is assigned to a user, goes through  *)
(* the statuses of a ticket, and carries the times of its first response   *)
(* and of its resolution.  A status request reads the email, stamps what   *)
(* the read had found missing and writes the status last, each in a        *)
(* statement of its own; several requests interleave.                      *)
(***************************************************************************)
EXTENDS Naturals, FiniteSets

CONSTANTS
    Email,
    Client,      \* requests being served at once
    User,
    Nobody,      \* assigned_to is empty
    MaxFailures  \* bound: statements that fail

TriageAssumption ==
    /\ IsFiniteSet(Email) /\ IsFiniteSet(User)
    /\ Nobody \notin User
    /\ MaxFailures \in Nat

Status == {"open", "in_progress", "resolved"}
NoRequest == [pc |-> "idle", email |-> Nobody, status |-> "open", user |-> Nobody,
              responded |-> TRUE, resolved |-> TRUE]

VARIABLES
    tickets,    \* emails: status, whether the times are set, assigned_to, is_read
    stored,     \* the emails that have a row
    users,      \* the table users
    handling,   \* the request of a client
    unstamped,  \* history: emails of which a stamp failed
    mishaps

triage == <<tickets, stored, users, handling, unstamped, mishaps>>

------------------------------------------------------------------------------
Init ==
    /\ tickets = [e \in Email |-> [status |-> "open", responded |-> FALSE, resolved |-> FALSE,
                                   assigned |-> Nobody, read |-> FALSE]]
    /\ stored = Email
    /\ users = {}
    /\ handling = [c \in Client |-> NoRequest]
    /\ unstamped = {} /\ mishaps = 0

Go(c, r) == handling' = [handling EXCEPT ![c] = r]

(* A handler ends: it has answered, it failed, or the caller went away and *)
(* its context cancelled the statement; the email may not be there.        *)
End(c) ==
    /\ handling[c] # NoRequest /\ Go(c, NoRequest)
    /\ UNCHANGED <<tickets, stored, users, unstamped, mishaps>>

(* SetEmailStatus reads the email for two of the statuses.                 *)
SetEmailStatus(c, e, s) ==
    /\ handling[c] = NoRequest
    /\ s # "open" => e \in stored
    /\ Go(c, [NoRequest EXCEPT !.pc = "stamp", !.email = e, !.status = s,
                               !.responded = s = "open" \/ tickets[e].responded,
                               !.resolved = s # "resolved" \/ tickets[e].resolved])
    /\ UNCHANGED <<tickets, stored, users, unstamped, mishaps>>

(* A statement on an email without a row changes nothing.                  *)
With(e, t) == IF e \in stored THEN [tickets EXCEPT ![e] = t] ELSE tickets

(* UpdateEmailFirstResponseAt, UpdateEmailResolvedAt: a failure is         *)
(* ignored.                                                                *)
StampResponse(c) ==
    LET r == handling[c]
    IN /\ r.pc = "stamp" /\ ~r.responded
       /\ Go(c, [r EXCEPT !.responded = TRUE])
       /\ \/ /\ tickets' = With(r.email, [tickets[r.email] EXCEPT !.responded = TRUE])
             /\ UNCHANGED <<unstamped, mishaps>>
          \/ /\ mishaps < MaxFailures /\ mishaps' = mishaps + 1
             /\ unstamped' = unstamped \cup {r.email}
             /\ UNCHANGED tickets
       /\ UNCHANGED <<stored, users>>

StampResolution(c) ==
    LET r == handling[c]
    IN /\ r.pc = "stamp" /\ r.responded /\ ~r.resolved
       /\ Go(c, [r EXCEPT !.resolved = TRUE])
       /\ \/ /\ tickets' = With(r.email, [tickets[r.email] EXCEPT !.resolved = TRUE])
             /\ UNCHANGED <<unstamped, mishaps>>
          \/ /\ mishaps < MaxFailures /\ mishaps' = mishaps + 1
             /\ unstamped' = unstamped \cup {r.email}
             /\ UNCHANGED tickets
       /\ UNCHANGED <<stored, users>>

(* Mutant: the status may be written at any time.                          *)
ReadyAnyTime(r) == r.pc = "stamp"

(* UpdateEmailStatus comes last.                                           *)
Ready(r) == r.pc = "stamp" /\ r.responded /\ r.resolved

WriteStatus(c) ==
    LET r == handling[c]
    IN /\ Ready(r)
       /\ tickets' = With(r.email, [tickets[r.email] EXCEPT !.status = r.status])
       /\ Go(c, [r EXCEPT !.pc = "answer"])
       /\ UNCHANGED <<stored, users, unstamped, mishaps>>

(* AssignEmail, UnassignEmail: the email is read and its account checked;  *)
(* the user is not looked up.                                              *)
AssignEmail(c, e, u) ==
    /\ handling[c] = NoRequest /\ e \in stored
    /\ Go(c, [NoRequest EXCEPT !.pc = "assign", !.email = e, !.user = u])
    /\ UNCHANGED <<tickets, stored, users, unstamped, mishaps>>

WriteAssigned(c) ==
    LET r == handling[c]
    IN /\ r.pc = "assign"
       /\ tickets' = With(r.email, [tickets[r.email] EXCEPT !.assigned = r.user])
       /\ Go(c, [r EXCEPT !.pc = "answer"])
       /\ UNCHANGED <<stored, users, unstamped, mishaps>>

(* CreateUser, UpsertUser; DeleteUser leaves the emails assigned.          *)
CreateUser(u) ==
    /\ users' = users \cup {u}
    /\ UNCHANGED <<tickets, stored, handling, unstamped, mishaps>>

DeleteUser(u) ==
    /\ users' = users \ {u}
    /\ UNCHANGED <<tickets, stored, handling, unstamped, mishaps>>

(* Somebody reads the email; it is deleted.                                *)
ReadEmail(e) ==
    /\ tickets' = With(e, [tickets[e] EXCEPT !.read = TRUE])
    /\ UNCHANGED <<stored, users, handling, unstamped, mishaps>>

DeleteEmail(e) ==
    /\ stored' = stored \ {e}
    /\ UNCHANGED <<tickets, users, handling, unstamped, mishaps>>

------------------------------------------------------------------------------
(* GetSharedDashboard.                                                     *)

Unassigned == {e \in stored : tickets[e].assigned = Nobody /\ ~tickets[e].read}

(* Mutant: the names are joined, and a user without one is left out.       *)
AgentsNamed == users \cap {tickets[e].assigned : e \in stored}

(* GetStatsByAgent groups the emails by assigned_to; a user who has been   *)
(* deleted, or never was there, counts as Unknown.                         *)
Agents == {tickets[e].assigned : e \in stored} \ {Nobody}

UnreadOf(u) == {e \in stored : tickets[e].assigned = u /\ ~tickets[e].read}

(* GetSLABreaches looks at the first response only; all emails are old.    *)
Breached == {e \in stored : ~tickets[e].responded}

Next ==
    \/ \E c \in Client : End(c) \/ StampResponse(c) \/ StampResolution(c) \/ WriteStatus(c) \/ WriteAssigned(c)
    \/ \E c \in Client, e \in Email, s \in Status : SetEmailStatus(c, e, s)
    \/ \E c \in Client, e \in Email, u \in User \cup {Nobody} : AssignEmail(c, e, u)
    \/ \E u \in User : CreateUser(u) \/ DeleteUser(u)
    \/ \E e \in Email : ReadEmail(e) \/ DeleteEmail(e)

Spec == Init /\ [][Next]_triage

------------------------------------------------------------------------------
(* The state has the declared shape.                                       *)
TypeOK ==
    /\ \A e \in Email : /\ tickets[e].status \in Status
                        /\ tickets[e].assigned \in User \cup {Nobody}
    /\ stored \subseteq Email /\ users \subseteq User /\ unstamped \subseteq Email
    /\ \A c \in Client : handling[c].pc \in {"idle", "stamp", "assign", "answer"}
    /\ mishaps \in 0..MaxFailures

(* An email that shows as in progress or resolved is not counted as a      *)
(* breach, and a resolved one has the time of its resolution, wherever     *)
(* requests about it interleaved or were cut off, unless a stamp failed.   *)
StatusHasTimes ==
    \A e \in stored \ unstamped :
        /\ tickets[e].status # "open" => e \notin Breached
        /\ tickets[e].status = "resolved" => tickets[e].resolved

(* The dashboard counts every unread email, as unassigned or with an       *)
(* agent, also while users come and go.                                    *)
DashboardCountsAll ==
    Unassigned \cup UNION {UnreadOf(u) : u \in Agents} = {e \in stored : ~tickets[e].read}

(* What the team sees of its tickets is complete.                          *)
TicketsCounted == StatusHasTimes /\ DashboardCountsAll

=============================================================================
