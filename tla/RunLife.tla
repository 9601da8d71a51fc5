------------------------------- MODULE RunLife -------------------------------
(***************************************************************************)
(* What the server promises of each run it has: one life and a status that *)
(* follows it. A run is created, begins to execute once and ends once, and *)
(* only its end and a cancel change what is shown of it. What executed     *)
(* when the server went away is over when the server is back. Ids, the     *)
(* map, the registry, requests and their threads are left to the server.   *)
(***************************************************************************)
CONSTANTS Runs, Final

VARIABLES
  up,     \* there is a server
  life,   \* of each run: unknown, created, executing or over
  shown   \* its status: absent, running or final

vars == <<up, life, shown>>

Init ==
  /\ up = FALSE
  /\ life = [r \in Runs |-> "unknown"] /\ shown = [r \in Runs |-> "absent"]

(* The server starts with some runs of its predecessors, all of them over. *)
Start(restored, ends) ==
  /\ ~up /\ up' = TRUE
  /\ life' = [r \in Runs |-> IF r \in restored THEN "over" ELSE "unknown"]
  /\ shown' = [r \in Runs |-> IF r \in restored THEN ends[r] ELSE "absent"]

GoDown ==
  /\ up /\ up' = FALSE
  /\ life' = [r \in Runs |-> "unknown"] /\ shown' = [r \in Runs |-> "absent"]

Create(r) ==
  /\ up /\ life[r] = "unknown"
  /\ life' = [life EXCEPT ![r] = "created"]
  /\ shown' = [shown EXCEPT ![r] = "running"]
  /\ UNCHANGED up

Begin(r) ==
  /\ up /\ life[r] = "created"
  /\ life' = [life EXCEPT ![r] = "executing"]
  /\ UNCHANGED <<up, shown>>

(* The verdict takes the place of whatever was shown.                      *)
End(r, verdict) ==
  /\ up /\ life[r] = "executing"
  /\ life' = [life EXCEPT ![r] = "over"]
  /\ shown' = [shown EXCEPT ![r] = verdict]
  /\ UNCHANGED up

(* A cancel is shown at once, also of a run that is over.                  *)
Cancel(r) ==
  /\ up /\ life[r] # "unknown"
  /\ shown' = [shown EXCEPT ![r] = "cancelled"]
  /\ UNCHANGED <<up, life>>

Next ==
  \/ GoDown
  \/ \E restored \in SUBSET Runs : \E ends \in [restored -> Final] : Start(restored, ends)
  \/ \E r \in Runs : Create(r) \/ Begin(r) \/ Cancel(r) \/ \E v \in Final : End(r, v)

Spec == Init /\ [][Next]_vars
=============================================================================
