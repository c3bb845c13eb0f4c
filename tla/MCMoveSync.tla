----------------------------- MODULE MCMoveSync -----------------------------
(* Small instances of MoveSync for TLC.                                    *)
EXTENDS MoveSync

(* One message has UID 1: the other initial states differ from these in    *)
(* the names of the messages or in a gap before the first UID.             *)
MCInit == Init /\ rows[<<CHOOSE m \in Msg : TRUE, 1>>].uid = 1

(* A folder may have more messages than the limit of a bulk action, or not. *)
Within == INSTANCE MoveSync WITH FilterLimit <- Cardinality(Msg)

MCNext == Next \/ \E f, t \in Folder : Within!BulkActionByFilter(f, t)

MCSpec == MCInit /\ [][MCNext]_vars /\ Fairness
=============================================================================
