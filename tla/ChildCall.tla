------------------------------ MODULE ChildCall ------------------------------
(***************************************************************************)
(* What run() promises its callers, each of whom has a child of its own: a *)
(* call starts one child or fails, and returns once the child has ended,   *)
(* with all that it wrote. A call that ran out of time returns only when   *)
(* nothing is left of the child's group, and nobody kills the child of a   *)
(* call that is not under way. Pipes, polling, pids and the mutex are left *)
(* to ProcessRunner.                                                       *)
(***************************************************************************)
EXTENDS Naturals

CONSTANTS Calls, Deadlined

VARIABLES
  phase,    \* of each call: idle, started, returned or failed
  leader,   \* its child: none, alive or gone
  strays,   \* the calls whose child left a background process in its group
  wrote,    \* blocks the child wrote
  result,   \* blocks the call returned
  timedOut  \* the calls that ran out of time

vars == <<phase, leader, strays, wrote, result, timedOut>>
family == <<leader, strays>>
returns == <<result, timedOut>>

Init ==
  /\ phase = [c \in Calls |-> "idle"] /\ leader = [c \in Calls |-> "none"]
  /\ strays = {} /\ timedOut = {}
  /\ wrote = [c \in Calls |-> 0] /\ result = [c \in Calls |-> 0]

Start(c) ==
  /\ phase[c] = "idle"
  /\ phase' = [phase EXCEPT ![c] = "started"]
  /\ leader' = [leader EXCEPT ![c] = "alive"]
  /\ UNCHANGED <<strays, wrote, returns>>

Fail(c) ==
  /\ phase[c] = "idle"
  /\ phase' = [phase EXCEPT ![c] = "failed"]
  /\ UNCHANGED <<family, wrote, returns>>

Write(c) ==
  /\ leader[c] = "alive"
  /\ wrote' = [wrote EXCEPT ![c] = @ + 1]
  /\ UNCHANGED <<phase, family, returns>>

Spawn(c) ==
  /\ leader[c] = "alive"
  /\ strays' = strays \union {c}
  /\ UNCHANGED <<phase, leader, wrote, returns>>

End(c) ==
  /\ leader[c] = "alive"
  /\ leader' = [leader EXCEPT ![c] = "gone"]
  /\ UNCHANGED <<phase, strays, wrote, returns>>

StrayEnds(c) ==
  /\ strays' = strays \ {c}
  /\ UNCHANGED <<phase, leader, wrote, returns>>

Expire(c) ==
  /\ phase[c] = "started" /\ c \in Deadlined
  /\ timedOut' = timedOut \union {c}
  /\ UNCHANGED <<phase, family, wrote, result>>

(* By the call itself, at its deadline, or by a cancel, of all at once.    *)
KillGroups(cs) ==
  /\ \A c \in cs : phase[c] = "started"
  /\ leader' = [c \in Calls |-> IF c \in cs THEN "gone" ELSE leader[c]]
  /\ strays' = strays \ cs
  /\ UNCHANGED <<phase, wrote, returns>>

Return(c) ==
  /\ phase[c] = "started" /\ leader[c] = "gone"
  /\ c \in timedOut => c \notin strays
  /\ phase' = [phase EXCEPT ![c] = "returned"]
  /\ result' = [result EXCEPT ![c] = wrote[c]]
  /\ UNCHANGED <<family, wrote, timedOut>>

Next ==
  \/ \E cs \in SUBSET Calls : KillGroups(cs)
  \/ \E c \in Calls :
       \/ Start(c) \/ Fail(c) \/ Write(c) \/ Spawn(c) \/ End(c) \/ StrayEnds(c)
       \/ Expire(c) \/ Return(c)

Spec == Init /\ [][Next]_vars
=============================================================================
