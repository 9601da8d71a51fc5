------------------------------ MODULE Troubleshoot ------------------------------
(***************************************************************************)
(* The troubleshooter of one run on the server: sessions its engine starts *)
(* when a stage fails, sessions asked for over HTTP once it has failed,    *)
(* the RunGuard and the in-flight entry they share, the endpoints that     *)
(* cancel and roll back, and the checkout the agents work on.              *)
(*                                                                         *)
(* A run that is resumed within a minute keeps its id, so a session of the *)
(* failed run and one of its successor meet in guard and entry. One stage  *)
(* fails; the engine's other work is left to PipelineEngine.               *)
(***************************************************************************)
EXTENDS TroubleshootBackup

CONSTANTS
  EngineSessions,  \* sessions AutoTroubleshoot::handle is called for by the engine
  Mutating,        \* sessions of mode tweak or full; the others diagnose
  MaxAttempts,     \* max_attempts_per_stage
  MaxReruns,       \* bound: resumes of the run
  MaxCrashes,      \* bound: crashes of the server
  MaxChanges,      \* bound: the operator's edits, commits and switches
  MaxMishaps,      \* bound: crashes and changes together
  NoSession

HttpSessions == Sessions \ EngineSessions

ASSUME TroubleshootAssumption ==
  /\ EngineSessions \subseteq Sessions /\ Mutating \subseteq Sessions
  /\ MaxAttempts \in Nat /\ MaxReruns \in Nat /\ MaxCrashes \in Nat /\ MaxChanges \in Nat
  /\ MaxMishaps \in Nat
  /\ NoSession \notin Sessions

VARIABLES
  run,         \* the status of the run
  settling,    \* its thread has set the status and has yet to clear the entry
  attempts,    \* troubleshoot.attempts of the stage, in the engine's context
  saved,       \* the same in checkpoint.json
  pc,          \* where each session is
  guard,       \* the session whose RunGuard slot this is
  entry,       \* troubleshoot_in_flight_ of the run
  agent,       \* the agent process of each session
  cancels,     \* per live session: "none", "killed" (no marker yet), "marked"
  verdict,     \* per live session: the action of its AutoTroubleshootResult
  reruns, crashes, changes,  \* used of the bounds
  work         \* history: when each file was last changed, as a session sees it

runVars == <<run, settling, attempts, saved>>
bounds == <<reruns, crashes, changes>>
vars == <<checkout, runVars, pc, guard, entry, agent, cancels, verdict, bounds, work>>

(* Between these the session holds the guard.                              *)
Guarded == {"reserved", "spawned", "ready", "armed", "agent", "judged", "cleared"}
Live == Guarded \union {"checked", "counted", "released"}
Over == {"done", "lost"}

NoEntry == [session |-> NoSession, active |-> FALSE, runner |-> FALSE]
EntryOf(s) == [session |-> s, active |-> TRUE, runner |-> TRUE]
Goto(s, label) == pc' = [pc EXCEPT ![s] = label]
Finish(s) ==
  /\ Goto(s, "done")
  /\ cancels' = [cancels EXCEPT ![s] = "none"] /\ verdict' = [verdict EXCEPT ![s] = "none"]
EngineFree == \A e \in EngineSessions : pc[e] \in {"idle"} \union Over

Init ==
  /\ BackupInit
  /\ run = "running" /\ settling = FALSE /\ attempts = 0 /\ saved = 0
  /\ pc = [s \in Sessions |-> "idle"] /\ guard = NoSession /\ entry = NoEntry
  /\ agent = [s \in Sessions |-> "none"]
  /\ cancels = [s \in Sessions |-> "none"] /\ verdict = [s \in Sessions |-> "none"]
  /\ reruns = 0 /\ crashes = 0 /\ changes = 0
  /\ work = [s \in Mutating |-> [f \in Files |-> "before"]]

-----------------------------------------------------------------------------
(* The run.                                                                *)

(* Mutant: the cap lets one more attempt through.                          *)
CapReachedLate(count) == count > MaxAttempts
CapReached(count) == count >= MaxAttempts

(* The stage fails and the engine calls handle(): at the cap it escalates  *)
(* without an agent, and otherwise counts the attempt at once.             *)
StageFails(s) ==
  /\ run = "running" /\ EngineFree /\ pc[s] = "idle"
  /\ IF CapReached(attempts)
     THEN Finish(s) /\ UNCHANGED attempts
     ELSE /\ Goto(s, "counted") /\ attempts' = attempts + 1
          /\ UNCHANGED <<cancels, verdict>>
  /\ UNCHANGED <<checkout, run, settling, saved, guard, entry, agent, bounds, work>>

RunFails ==
  /\ run = "running" /\ EngineFree /\ ~settling
  /\ run' = "failed" /\ settling' = TRUE
  /\ UNCHANGED <<checkout, attempts, saved, pc, guard, entry, agent, cancels, verdict,
                 bounds, work>>

(* The run's thread clears the entry after it has set the status.          *)
RunThreadEnds ==
  /\ settling
  /\ settling' = FALSE
  /\ entry' = [entry EXCEPT !.active = FALSE, !.runner = FALSE]
  /\ UNCHANGED <<checkout, run, attempts, saved, pc, guard, agent, cancels, verdict,
                 bounds, work>>

(* Resumed in place of the old run, whose thread is joined.                *)
Rerun ==
  /\ run = "failed" /\ ~settling /\ reruns < MaxReruns
  /\ run' = "running" /\ attempts' = saved /\ reruns' = reruns + 1
  /\ UNCHANGED <<checkout, settling, saved, pc, guard, entry, agent, cancels, verdict,
                 crashes, changes, work>>

-----------------------------------------------------------------------------
(* POST /troubleshoot, in the steps between which others run.              *)

PostChecks(s) ==
  /\ run = "failed" /\ pc[s] = "idle"
  /\ Goto(s, IF entry.active THEN "done" ELSE "checked")
  /\ UNCHANGED <<checkout, runVars, guard, entry, agent, cancels, verdict, bounds, work>>

(* Mutant: try_acquire does not look whether the slot is taken.            *)
MayReserveAlways == TRUE
MayReserve == guard = NoSession

PostReserves(s) ==
  /\ pc[s] = "checked"
  /\ IF MayReserve THEN Goto(s, "reserved") /\ guard' = s ELSE Goto(s, "done") /\ UNCHANGED guard
  /\ UNCHANGED <<checkout, runVars, entry, agent, cancels, verdict, bounds, work>>

(* Mutant: the answer 409 returns with the slot still taken.               *)
FreedOnceAccepted(s) == IF pc[s] = "reserved" THEN guard ELSE NoSession
(* The slot goes with the GuardReleaser, wherever that is destroyed.       *)
Freed(s) == IF guard = s THEN NoSession ELSE guard

(* The second look at the entry, then the entry and the worker.            *)
PostInserts(s) ==
  /\ pc[s] = "reserved"
  /\ IF entry.active
     THEN Goto(s, "done") /\ guard' = Freed(s) /\ UNCHANGED entry
     ELSE Goto(s, "spawned") /\ entry' = EntryOf(s) /\ UNCHANGED guard
  /\ UNCHANGED <<checkout, runVars, agent, cancels, verdict, bounds, work>>

(* The worker loads the checkpoint, with the attempts saved in it, and     *)
(* calls handle(); if there is none, or on an exception, it is done.       *)
WorkerStarts(s) ==
  /\ pc[s] = "spawned"
  /\ \/ Goto(s, "judged") /\ UNCHANGED verdict
     \/ IF CapReached(saved)
        THEN Goto(s, "judged") /\ verdict' = [verdict EXCEPT ![s] = "Escalated"]
        ELSE Goto(s, "ready") /\ UNCHANGED verdict
  /\ UNCHANGED <<checkout, runVars, guard, entry, agent, cancels, bounds, work>>

-----------------------------------------------------------------------------
(* AutoTroubleshoot::handle().                                             *)

EngineReserves(s) ==
  /\ pc[s] = "counted"
  /\ IF MayReserve
     THEN Goto(s, "ready") /\ guard' = s /\ UNCHANGED <<cancels, verdict, saved>>
     ELSE Finish(s) /\ saved' = attempts /\ UNCHANGED guard
  /\ UNCHANGED <<checkout, run, settling, attempts, entry, agent, bounds, work>>

(* register_troubleshoot_runner, for the engine's sessions; ignored while  *)
(* the entry is another session's.                                         *)
Registered(s) ==
  IF s \notin EngineSessions \/ (entry.active /\ entry.session # s) THEN entry
  ELSE EntryOf(s)

(* The backup, then the registration. What is dirty before the session is  *)
(* not the operator's later work.                                          *)
Prepare(s) ==
  /\ pc[s] = "ready"
  /\ IF s \in Mutating
     THEN /\ Capture(s)
          /\ work' = [work EXCEPT ![s] =
                       [f \in Files |-> IF f \in Dirty THEN "during" ELSE "before"]]
     ELSE UNCHANGED <<checkout, work>>
  /\ Goto(s, "armed") /\ entry' = Registered(s)
  /\ UNCHANGED <<runVars, guard, agent, cancels, verdict, bounds>>

CaptureFails(s) ==
  /\ pc[s] = "ready" /\ s \in Mutating
  /\ Goto(s, "judged") /\ verdict' = [verdict EXCEPT ![s] = "Skipped"]
  /\ UNCHANGED <<checkout, runVars, guard, entry, agent, cancels, bounds, work>>

StartAgent(s) ==
  /\ pc[s] = "armed"
  /\ Goto(s, "agent") /\ agent' = [agent EXCEPT ![s] = "alive"]
  /\ UNCHANGED <<checkout, runVars, guard, entry, cancels, verdict, bounds, work>>

(* How the agent ended, and what it left: a readable escalate.json, a      *)
(* write outside the allowed directories, the failed stage's artifact. One *)
(* that is killed may have done all of it before.                          *)
AgentResults ==
  [success : BOOLEAN, escalated : BOOLEAN, violated : BOOLEAN, authored : BOOLEAN]

(* The markers decide first, then how the agent ended; an audit that finds *)
(* a violation overrides both, and an artifact the agent wrote overrides   *)
(* what is not an explicit end.                                            *)
Ended(s, r) ==
  IF r.escalated THEN "Escalated"
  ELSE IF cancels[s] = "marked" THEN "Cancelled"
  ELSE IF ~r.success THEN "Skipped"
  ELSE IF s \in Mutating THEN "Resumed" ELSE "Reported"
Verdict(s, r) ==
  IF r.violated THEN "Skipped"
  ELSE IF r.authored /\ Ended(s, r) \notin {"Escalated", "Cancelled"} THEN "Promoted"
  ELSE Ended(s, r)

(* The runner has returned: what the agent touched is recorded, and what   *)
(* it left is judged.                                                      *)
Judge(s) ==
  /\ pc[s] = "agent" /\ agent[s] = "dead"
  /\ IF s \in Mutating THEN RecordAgentTouch(s) ELSE UNCHANGED checkout
  /\ \E r \in AgentResults :
       /\ r.authored => s \in Mutating
       /\ verdict' = [verdict EXCEPT ![s] = Verdict(s, r)]
  /\ Goto(s, "judged")
  /\ UNCHANGED <<runVars, guard, entry, agent, cancels, bounds, work>>

-----------------------------------------------------------------------------
(* The end of a session. handle() gives up the guard and then the entry,   *)
(* and the engine saves its context; a worker does both the other way.     *)

(* Mutant: a worker that has failed leaves its entry.                      *)
DeactivatedIfJudged(s) ==
  IF entry.session = s /\ verdict[s] # "none" THEN [entry EXCEPT !.active = FALSE] ELSE entry
Deactivated(s) == IF entry.session = s THEN [entry EXCEPT !.active = FALSE] ELSE entry

EngineReleases(s) ==
  /\ s \in EngineSessions /\ pc[s] = "judged"
  /\ Goto(s, "released") /\ guard' = Freed(s)
  /\ UNCHANGED <<checkout, runVars, entry, agent, cancels, verdict, bounds, work>>

EngineUnregisters(s) ==
  /\ pc[s] = "released"
  /\ Finish(s)
  /\ entry' = IF entry.session = s THEN [Deactivated(s) EXCEPT !.runner = FALSE] ELSE entry
  /\ saved' = attempts
  /\ UNCHANGED <<checkout, run, settling, attempts, guard, agent, bounds, work>>

WorkerClears(s) ==
  /\ s \in HttpSessions /\ pc[s] = "judged"
  /\ Goto(s, "cleared") /\ entry' = Deactivated(s)
  /\ UNCHANGED <<checkout, runVars, guard, agent, cancels, verdict, bounds, work>>

WorkerEnds(s) ==
  /\ pc[s] = "cleared"
  /\ Finish(s) /\ guard' = Freed(s)
  /\ UNCHANGED <<checkout, runVars, entry, agent, bounds, work>>

-----------------------------------------------------------------------------
(* POST /troubleshoot/cancel: kills under the mutex, marks after it. It may *)
(* come again; a marker stays.                                             *)

Killable(s) == entry.session = s /\ entry.active /\ entry.runner /\ agent[s] = "alive"

CancelKills(s) ==
  /\ pc[s] \in Live \ {"checked", "reserved"}
  /\ cancels' = [cancels EXCEPT ![s] = IF @ = "none" THEN "killed" ELSE @]
  /\ agent' = [agent EXCEPT ![s] = IF Killable(s) THEN "dead" ELSE @]
  /\ entry' = Deactivated(s)
  /\ UNCHANGED <<checkout, runVars, pc, guard, verdict, bounds, work>>

CancelMarks(s) ==
  /\ cancels[s] = "killed"
  /\ cancels' = [cancels EXCEPT ![s] = "marked"]
  /\ UNCHANGED <<checkout, runVars, pc, guard, entry, agent, verdict, bounds, work>>

(* The server dies. Its agents live on, a capture may be cut short, and at *)
(* the next start the run is failed.                                       *)
Crash ==
  /\ crashes < MaxCrashes /\ crashes + changes < MaxMishaps
  /\ crashes' = crashes + 1
  /\ pc' = [s \in Sessions |-> IF pc[s] \in Live THEN "lost" ELSE pc[s]]
  /\ cancels' = [s \in Sessions |-> "none"] /\ verdict' = [s \in Sessions |-> "none"]
  /\ guard' = NoSession /\ entry' = NoEntry
  /\ run' = "failed" /\ settling' = FALSE
  /\ \/ UNCHANGED checkout
     \/ \E s \in Mutating : pc[s] = "ready" /\ CaptureInterrupted(s)
  /\ UNCHANGED <<attempts, saved, agent, reruns, changes, work>>

-----------------------------------------------------------------------------
(* The agents.                                                             *)

(* A file changes: during a session, if it has yet to record what its      *)
(* agent touched, and after it otherwise.                                  *)
SeenBy(s, f) ==
  IF tree'[f] = tree[f] THEN work[s][f]
  ELSE IF pc[s] \in {"armed", "agent"} THEN "during"
  ELSE IF pc[s] \in {"judged", "released", "cleared"} \union Over /\ work[s][f] = "before"
       THEN "after" ELSE work[s][f]
Seen == [s \in Mutating |-> [f \in Files |-> SeenBy(s, f)]]

AgentEdits(s) ==
  /\ agent[s] = "alive" /\ s \in Mutating
  /\ (\E f \in Files : Write(s, f)) /\ work' = Seen
  /\ UNCHANGED <<runVars, pc, guard, entry, agent, cancels, verdict, bounds>>

AgentCommits(s) ==
  /\ agent[s] = "alive" /\ s \in Mutating
  /\ Commit
  /\ UNCHANGED <<runVars, pc, guard, entry, agent, cancels, verdict, bounds, work>>

(* By itself, or killed by the runner when its time is up.                 *)
AgentExits(s) ==
  /\ agent[s] = "alive"
  /\ agent' = [agent EXCEPT ![s] = "dead"]
  /\ UNCHANGED <<checkout, runVars, pc, guard, entry, cancels, verdict, bounds, work>>

(* The operator, who also rolls back any session at any time.              *)
OperatorChanges ==
  /\ changes < MaxChanges /\ crashes + changes < MaxMishaps
  /\ changes' = changes + 1
  /\ \/ \E f \in Files : Write("operator", f)
     \/ Commit
     \/ \E b \in Branches : Switch(b)
  /\ work' = Seen
  /\ UNCHANGED <<runVars, pc, guard, entry, agent, cancels, verdict, reruns, crashes>>

PostRollback(s) ==
  /\ Rollback(s)
  /\ work' = Seen
  /\ UNCHANGED <<runVars, pc, guard, entry, agent, cancels, verdict, bounds>>

-----------------------------------------------------------------------------
SessionStep(s) ==
  \/ PostReserves(s) \/ PostInserts(s) \/ WorkerStarts(s) \/ EngineReserves(s) \/ Prepare(s)
  \/ CaptureFails(s) \/ StartAgent(s) \/ Judge(s)
  \/ EngineReleases(s) \/ EngineUnregisters(s) \/ WorkerClears(s) \/ WorkerEnds(s)
Next ==
  \/ RunFails \/ RunThreadEnds \/ Rerun \/ Crash \/ OperatorChanges
  \/ \E s \in EngineSessions : StageFails(s)
  \/ \E s \in HttpSessions : PostChecks(s)
  \/ \E s \in Sessions :
       \/ SessionStep(s) \/ CancelKills(s) \/ CancelMarks(s)
       \/ PostRollback(s) \/ AgentEdits(s) \/ AgentCommits(s) \/ AgentExits(s)

(* Threads are scheduled, and an agent whose runner waits for it exits or  *)
(* is killed by it at its timeout.                                         *)
Fairness ==
  \A s \in Sessions : WF_vars(SessionStep(s)) /\ WF_vars(pc[s] = "agent" /\ AgentExits(s))
Spec == Init /\ [][Next]_vars /\ Fairness
-----------------------------------------------------------------------------
(* Types; and the guard is the session's exactly while it may use it.      *)
TypeOK ==
  /\ BackupTypeOK
  /\ run \in {"running", "failed"} /\ settling \in BOOLEAN
  /\ attempts \in 0..MaxAttempts /\ saved \in 0..MaxAttempts
  /\ pc \in [Sessions -> {"idle"} \union Live \union Over]
  /\ \A s \in Sessions : guard = s <=> pc[s] \in Guarded
  /\ entry \in [session : Sessions \union {NoSession}, active : BOOLEAN, runner : BOOLEAN]
  /\ agent \in [Sessions -> {"none", "alive", "dead"}]
  /\ cancels \in [Sessions -> {"none", "killed", "marked"}]
  /\ verdict \in [Sessions -> {"none", "Escalated", "Cancelled", "Skipped", "Resumed",
                                "Reported", "Promoted"}]
  /\ reruns \in 0..MaxReruns /\ crashes \in 0..MaxCrashes /\ changes \in 0..MaxChanges
  /\ work \in [Mutating -> [Files -> {"before", "during", "after"}]]

(* Two agents of this server never work on the run's checkout at once,     *)
(* whoever asked for them and whichever run of that id they belong to.     *)
OneAgentPerRun ==
  \A s, t \in Sessions :
    agent[s] = "alive" /\ agent[t] = "alive" /\ pc[s] # "lost" /\ pc[t] # "lost" => s = t

(* An active entry is that of a session under way: one that outlived its   *)
(* session would have every later request for the run refused.             *)
InFlightIsLive == entry.active => pc[entry.session] \in Live

(* Over all resumes of the run, the engine starts no more agents for the   *)
(* stage than the cap allows, and one more per crash, which loses a count. *)
AttemptsBounded ==
  Cardinality({s \in EngineSessions : agent[s] # "none"}) <= MaxAttempts + crashes

(* A rollback leaves the operator's uncommitted work alone: of a file that *)
(* was clean when the session began and unchanged until its agent's        *)
(* changes were recorded, no later edit is lost.                           *)
UncommittedWorkSurvives ==
  [][\A s \in Mutating : Rollback(s) =>
       \A f \in Dirty : work[s][f] = "after" => tree'[f] = tree[f]]_vars

(* No way out of a session or a refused request keeps the guard, which     *)
(* would end troubleshooting of the run for good.                          *)
GuardIsReleased == \A s \in Sessions : guard = s ~> guard # s

-----------------------------------------------------------------------------
(* Guard, sessions and agents implement RepairSlot, over all cancels,      *)
(* resumes of the run and crashes of the server: the guard is the run, and *)
(* an agent whose session was lost is an orphan.                           *)
Verdicts == {"Escalated", "Cancelled", "Skipped", "Resumed", "Reported", "Promoted"}
FateAt(label) ==
  IF label \in {"idle", "checked", "counted"} THEN "waits"
  ELSE IF label \in Guarded THEN "works" ELSE "over"
Fates == [s \in Sessions |-> FateAt(pc[s])]
Agents ==
  [s \in Sessions |-> IF agent[s] = "alive" /\ pc[s] = "lost" THEN "orphan" ELSE agent[s]]
Slot == INSTANCE RepairSlot WITH holder <- guard, fate <- Fates, agent <- Agents,
                                 Earned <- Verdicts \ {"Escalated", "Skipped"}
ImplementsSlot == Slot!Spec
=============================================================================
