---------------------------- MODULE MCFolderSync ----------------------------
(* Small instances of FolderSync for TLC.  FolderSyncOverlap explores two  *)
(* of them in one run: scenario never changes and selects the instance.    *)
EXTENDS FolderSync, TLC

CONSTANTS OverlapHazards, OverlapUID

VARIABLE scenario

Overlap == INSTANCE FolderSync WITH Hazards <- OverlapHazards

MCInit == Init /\ scenario \in {"worker", "overlap"}

(* Either the sync worker alone, under every hazard, or beside the check   *)
(* worker in a folder that has few messages and keeps its UIDs.            *)
MCNext ==
    /\ UNCHANGED scenario
    /\ \/ scenario = "worker" /\ Next /\ \A c \in Checker : syncer'[c] = syncer[c]
       \/ /\ scenario = "overlap" /\ Overlap!Next
          /\ server'.next <= OverlapUID + 1 /\ server'.validity = 1

MCSpec == MCInit /\ [][MCNext]_<<vars, scenario>>

(* The sync worker alone, with fairness.                                   *)
MirrorInit == Init /\ scenario = "worker"

MirrorSpec ==
    /\ MirrorInit
    /\ [][MCNext]_<<vars, scenario>>
    /\ Fairness

Symmetry == Permutations(Msg)
=============================================================================
