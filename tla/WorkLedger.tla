----------------------------- MODULE WorkLedger -----------------------------
(***************************************************************************)
(* What the sync queue of a folder promises, without rows, workers, claims *)
(* or retries: a ledger of messages that are owed to the local store.  An  *)
(* entry leaves the ledger when its message is stored or is gone from the  *)
(* server, or after MaxAttempts tries; a local copy is deleted only when   *)
(* its message is gone from the server.                                    *)
(***************************************************************************)
EXTENDS Naturals

CONSTANTS UID, MaxAttempts

VARIABLES
    owed,    \* messages that are to be stored
    tries,   \* UID -> how often a message was tried since it was first owed
    server,  \* messages on the server
    stored   \* messages with a local copy

vars == <<owed, tries, server, stored>>

Init ==
    /\ owed = {}
    /\ tries = [u \in UID |-> 0]
    /\ server = UID
    /\ stored = {}

Owe(S) ==
    /\ owed' = owed \cup S
    /\ UNCHANGED <<tries, server, stored>>

Try(S) ==
    /\ S \subseteq owed
    /\ tries' = [u \in UID |-> IF u \in S THEN tries[u] + 1 ELSE tries[u]]
    /\ UNCHANGED <<owed, server, stored>>

Store(u) ==
    /\ u \in server
    /\ stored' = stored \cup {u}
    /\ UNCHANGED <<owed, tries, server>>

Settle(S) ==
    /\ S \cap server \subseteq stored
    /\ owed' = owed \ S
    /\ UNCHANGED <<tries, server, stored>>

(* Give up on A and forget the settled messages of F.                      *)
CloseAccount(A, F) ==
    /\ \A u \in A : tries[u] >= MaxAttempts
    /\ F \cap owed = {}
    /\ owed' = owed \ A
    /\ tries' = [u \in UID |-> IF u \in A \cup F THEN 0 ELSE tries[u]]
    /\ UNCHANGED <<server, stored>>

Purge(P) ==
    /\ P \cap server = {}
    /\ stored' = stored \ P
    /\ UNCHANGED <<owed, tries, server>>

(* The UIDs lost their meaning.                                            *)
Reset ==
    /\ owed' = {}
    /\ tries' = [u \in UID |-> 0]
    /\ UNCHANGED <<server, stored>>

Expunge(u) ==
    /\ server' = server \ {u}
    /\ UNCHANGED <<owed, tries, stored>>

Next ==
    \/ \E S \in SUBSET UID : Owe(S) \/ Try(S) \/ Settle(S) \/ Purge(S)
    \/ \E A, F \in SUBSET UID : CloseAccount(A, F)
    \/ \E u \in UID : Store(u) \/ Expunge(u)
    \/ Reset

Spec == Init /\ [][Next]_vars
=============================================================================
