----------------------------- MODULE RepairSlot -----------------------------
(***************************************************************************)
(* What the server promises of the sessions that repair one run. A session *)
(* that asks for the run is admitted when no other has it, or refused for  *)
(* good. While it has the run it starts one agent at most, and it neither  *)
(* judges nor leaves before that agent has ended. The loss of the server   *)
(* ends every session under way and leaves the agent an orphan, the only   *)
(* agent that another may find at work. Who asks, the checkout and the     *)
(* entry that a cancel goes by are left to Troubleshoot.                   *)
(***************************************************************************)
CONSTANTS
  Sessions, NoSession,
  Verdicts, Earned   \* all verdicts, and those that only the end of an agent can give

VARIABLES
  holder,   \* the session that has the run, or NoSession
  fate,     \* of each session: it waits, works or is over
  agent,    \* its agent: none, alive, dead, or an orphan
  verdict   \* what it is about to report, or "none"

vars == <<holder, fate, agent, verdict>>

Init ==
  /\ holder = NoSession
  /\ fate = [s \in Sessions |-> "waits"] /\ agent = [s \in Sessions |-> "none"]
  /\ verdict = [s \in Sessions |-> "none"]

Admit(s) ==
  /\ holder = NoSession /\ fate[s] = "waits"
  /\ holder' = s /\ fate' = [fate EXCEPT ![s] = "works"]
  /\ UNCHANGED <<agent, verdict>>

Refuse(s) ==
  /\ fate[s] = "waits"
  /\ fate' = [fate EXCEPT ![s] = "over"]
  /\ UNCHANGED <<holder, agent, verdict>>

StartAgent(s) ==
  /\ holder = s /\ agent[s] = "none"
  /\ agent' = [agent EXCEPT ![s] = "alive"]
  /\ UNCHANGED <<holder, fate, verdict>>

(* By itself, at its timeout, or killed by a cancel.                       *)
EndAgent(s) ==
  /\ agent[s] \in {"alive", "orphan"}
  /\ agent' = [agent EXCEPT ![s] = "dead"]
  /\ UNCHANGED <<holder, fate, verdict>>

Judge(s, v) ==
  /\ holder = s /\ agent[s] # "alive"
  /\ v \in Earned => agent[s] = "dead"
  /\ verdict' = [verdict EXCEPT ![s] = v]
  /\ UNCHANGED <<holder, fate, agent>>

(* The next is admitted before or after the verdict has been reported.     *)
Leave(s) ==
  /\ holder = s /\ agent[s] # "alive"
  /\ holder' = NoSession /\ fate' = [fate EXCEPT ![s] = "over"]
  /\ verdict' \in {verdict, [verdict EXCEPT ![s] = "none"]}
  /\ UNCHANGED agent

Report(s) ==
  /\ fate[s] = "over"
  /\ verdict' = [verdict EXCEPT ![s] = "none"]
  /\ UNCHANGED <<holder, fate, agent>>

(* Of the sessions that wait, those that had begun to ask are lost.        *)
Crash(begun) ==
  /\ \A s \in begun : fate[s] = "waits"
  /\ holder' = NoSession
  /\ fate' = [s \in Sessions |-> IF s \in begun \/ s = holder THEN "over" ELSE fate[s]]
  /\ agent' = [s \in Sessions |-> IF agent[s] = "alive" THEN "orphan" ELSE agent[s]]
  /\ verdict' = [s \in Sessions |-> "none"]

Next ==
  \/ \E begun \in SUBSET Sessions : Crash(begun)
  \/ \E s \in Sessions :
       \/ Admit(s) \/ Refuse(s) \/ StartAgent(s) \/ EndAgent(s) \/ Leave(s) \/ Report(s)
       \/ \E v \in Verdicts : Judge(s, v)

Spec == Init /\ [][Next]_vars
=============================================================================
