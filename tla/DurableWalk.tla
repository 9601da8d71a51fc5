----------------------------- MODULE DurableWalk -----------------------------
(***************************************************************************)
(* What a run promises to whoever resumes it: a walk over nodes of which   *)
(* the directory of the run always names at least those the engine knows   *)
(* to be complete. Which node comes next, what its handler returns and     *)
(* what a failure leads to are left to the engine.                         *)
(***************************************************************************)
CONSTANTS Nodes, Exit

VARIABLES
  status,   \* of the run: idle, running, crashed, ok or failed
  known,    \* the nodes the running engine counts as complete
  durable   \* the nodes the files of the run name as complete

vars == <<status, known, durable>>

Init == status = "idle" /\ known = {} /\ durable = {}

Begin ==
  /\ status = "idle"
  /\ status' = "running"
  /\ UNCHANGED <<known, durable>>

(* A node completes, durably before anything follows from it. A restart of *)
(* the loop then forgets, in memory only; a dead end fails the run.        *)
Complete(n) ==
  /\ status = "running"
  /\ durable' = known \union {n}
  /\ known' \in {durable', {}}
  /\ status' \in {"running", "failed"}

(* A node fails: what is known is saved, and the run goes on or fails.     *)
Fail ==
  /\ status = "running"
  /\ durable' = known /\ known' = known
  /\ status' \in {"running", "failed"}

Stop ==
  /\ status = "running"
  /\ status' = "failed"
  /\ UNCHANGED <<known, durable>>

(* A run ends well only at its exit.                                       *)
Succeed ==
  /\ status = "running" /\ Exit \in known
  /\ status' = "ok"
  /\ UNCHANGED <<known, durable>>

Crash ==
  /\ status = "running"
  /\ status' = "crashed" /\ known' = {}
  /\ UNCHANGED durable

Resume ==
  /\ status \in {"crashed", "ok", "failed"}
  /\ status' = "running" /\ known' = durable
  /\ UNCHANGED durable

Next ==
  \/ Begin \/ Fail \/ Stop \/ Succeed \/ Crash \/ Resume
  \/ \E n \in Nodes : Complete(n)

Spec == Init /\ [][Next]_vars
=============================================================================
