--------------------------- MODULE CheckpointStore ---------------------------
(***************************************************************************)
(* What the directory of a run promises of its checkpoint: it holds one,   *)
(* the last that was saved, and a save replaces it in one step. For a      *)
(* while after that step readers do not find it, for good if the process   *)
(* dies then; an operator who renames the file finds it, until the next    *)
(* save begins. How the files are written, and by which command, is left   *)
(* to RunFiles.                                                            *)
(***************************************************************************)
CONSTANTS Checkpoints, None

VARIABLES
  stored,   \* the checkpoint, or None: what readers find, or else a rename by hand brings back
  visible,  \* readers find it
  pending   \* the one that is being saved, or None

vars == <<stored, visible, pending>>

Init == stored = None /\ visible = FALSE /\ pending = None

Request ==
  /\ pending = None
  /\ pending' \in Checkpoints
  /\ UNCHANGED <<stored, visible>>

(* A save gives up what no reader finds.                                   *)
Discard ==
  /\ pending # None /\ ~visible
  /\ stored' = None
  /\ UNCHANGED <<visible, pending>>

(* The new checkpoint takes the place of the old one.                      *)
Commit ==
  /\ pending # None
  /\ stored' = pending /\ visible' = FALSE
  /\ UNCHANGED pending

(* A save returns with its checkpoint in place.                            *)
Show ==
  /\ pending # None /\ stored = pending
  /\ visible' = TRUE /\ pending' = None
  /\ UNCHANGED stored

Die ==
  /\ pending # None
  /\ pending' = None
  /\ UNCHANGED <<stored, visible>>

Next == Request \/ Discard \/ Commit \/ Show \/ Die

Spec == Init /\ [][Next]_vars
=============================================================================
