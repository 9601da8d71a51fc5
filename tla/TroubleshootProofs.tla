------------------------- MODULE TroubleshootProofs -------------------------
(***************************************************************************)
(* What holds of the troubleshooter for any sessions, files and branches,  *)
(* any cap and any number of resumes, crashes and changes.                 *)
(***************************************************************************)
EXTENDS Troubleshoot, FiniteSetTheorems, TLAPS

-----------------------------------------------------------------------------
(* The checkout: each operation keeps its types.                           *)

LEMMA DirtyFiles == Dirty \in SUBSET Files
BY DEF Dirty, Differing

LEMMA CapturedType ==
  ASSUME BackupTypeOK, NEW s \in Sessions, NEW a \in Artifacts
  PROVE  Captured(s, a) \in [Sessions -> Backups]
<1> DEFINE new == [artifacts |-> a, base |-> heads[branch], branch |-> branch,
                   preModified |-> IF a = "complete" THEN Dirty ELSE {},
                   agentModified |-> {}]
<1>1. new \in Backups
  BY DirtyFiles DEF BackupTypeOK, Backups
<1>2. backup \in [Sessions -> Backups]
  BY DEF BackupTypeOK
<1>3. Captured(s, a) = [backup EXCEPT ![s] = new]
  BY DEF Captured
<1> HIDE DEF new
<1> QED BY <1>1, <1>2, <1>3

LEMMA TouchedType ==
  ASSUME BackupTypeOK, NEW s \in Sessions, NEW touched \in SUBSET Files
  PROVE  [backup EXCEPT ![s].agentModified = touched] \in [Sessions -> Backups]
BY DEF BackupTypeOK, Backups

LEMMA CheckoutKept ==
  ASSUME BackupTypeOK, UNCHANGED checkout
  PROVE  BackupTypeOK'
BY DEF checkout, BackupTypeOK

LEMMA CheckoutTypes ==
  ASSUME BackupTypeOK,
         \/ \E s \in Sessions : \/ Capture(s) \/ CaptureInterrupted(s)
                                \/ RecordAgentTouch(s) \/ Rollback(s)
         \/ \E v \in Versions, f \in Files : Write(v, f)
         \/ Commit
         \/ \E b \in Branches : Switch(b)
  PROVE  BackupTypeOK'
<1>1. ASSUME NEW s \in Sessions, Capture(s) PROVE BackupTypeOK'
  BY <1>1, CapturedType DEF Capture, Artifacts, BackupTypeOK
<1>2. ASSUME NEW s \in Sessions, CaptureInterrupted(s) PROVE BackupTypeOK'
  BY <1>2, CapturedType DEF CaptureInterrupted, BackupTypeOK
<1>3. ASSUME NEW s \in Sessions, RecordAgentTouch(s) PROVE BackupTypeOK'
  <2>1. backup[s].agentModified \in SUBSET Files /\ Touched(s) \in SUBSET Files
    BY DEF BackupTypeOK, Backups, Touched, Differing
  <2> QED BY <1>3, <2>1, TouchedType DEF RecordAgentTouch, BackupTypeOK
<1>4. ASSUME NEW s \in Sessions, Rollback(s) PROVE BackupTypeOK'
  <2>1. backup[s].base \in Trees
    BY DEF BackupTypeOK, Backups
  <2> QED BY <1>4, <2>1 DEF Rollback, BackupTypeOK
<1>5. CASE \E v \in Versions, f \in Files : Write(v, f)
  BY <1>5 DEF Write, BackupTypeOK, Trees
<1>6. CASE Commit
  BY <1>6 DEF Commit, BackupTypeOK
<1>7. CASE \E b \in Branches : Switch(b)
  <2> PICK b \in Branches : Switch(b)
    BY <1>7
  <2>1. [f \in Files |-> IF f \in Dirty THEN tree[f] ELSE heads[b][f]] \in Trees
    BY DEF BackupTypeOK, Trees
  <2> QED BY <2>1 DEF Switch, BackupTypeOK
<1> QED BY <1>1, <1>2, <1>3, <1>4, <1>5, <1>6, <1>7

-----------------------------------------------------------------------------
(* Types. A session's step moves its own label, and the guard with it.     *)

LEMMA SeenType ==
  ASSUME TypeOK
  PROVE  Seen \in [Mutating -> [Files -> {"before", "during", "after"}]]
<1> SUFFICES ASSUME NEW s \in Mutating, NEW f \in Files
             PROVE  SeenBy(s, f) \in {"before", "during", "after"}
  BY DEF Seen
<1>1. work[s][f] \in {"before", "during", "after"}
  BY DEF TypeOK
<1> QED BY <1>1 DEF SeenBy

LEMMA VerdictType ==
  ASSUME NEW s \in Sessions, NEW r \in AgentResults
  PROVE  Verdict(s, r) \in {"Escalated", "Cancelled", "Skipped", "Resumed", "Reported",
                            "Promoted"}
BY DEF Verdict, Ended

LEMMA TypeInit == ASSUME Init PROVE TypeOK
<1>1. BackupTypeOK
  <2>1. Original \in Trees
    BY DEF Original, Trees, Versions
  <2>2. [artifacts |-> "none", base |-> Original, branch |-> Main,
         preModified |-> {}, agentModified |-> {}] \in Backups
    BY <2>1, CheckoutAssumption DEF Backups, Artifacts
  <2> QED BY <2>1, <2>2, CheckoutAssumption DEF Init, BackupInit, BackupTypeOK
<1>2. work \in [Mutating -> [Files -> {"before", "during", "after"}]]
  BY DEF Init
<1>3. \A s \in Sessions : guard = s <=> pc[s] \in Guarded
  BY TroubleshootAssumption DEF Init, Guarded
<1>4. entry \in [session : Sessions \union {NoSession}, active : BOOLEAN, runner : BOOLEAN]
  BY DEF Init, NoEntry
<1>5. /\ pc \in [Sessions -> {"idle"} \union Live \union Over]
      /\ agent \in [Sessions -> {"none", "alive", "dead"}]
      /\ cancels \in [Sessions -> {"none", "killed", "marked"}]
      /\ verdict \in [Sessions -> {"none", "Escalated", "Cancelled", "Skipped", "Resumed",
                                   "Reported", "Promoted"}]
  BY DEF Init
<1>6. /\ attempts \in 0..MaxAttempts /\ saved \in 0..MaxAttempts
      /\ reruns \in 0..MaxReruns /\ crashes \in 0..MaxCrashes /\ changes \in 0..MaxChanges
  BY TroubleshootAssumption DEF Init
<1>7. run \in {"running", "failed"} /\ settling \in BOOLEAN
  BY DEF Init
<1> QED BY <1>1, <1>2, <1>3, <1>4, <1>5, <1>6, <1>7 DEF TypeOK

LEMMA TypeStep == ASSUME TypeOK, [Next]_vars PROVE TypeOK'
<1>0. BackupTypeOK
  BY DEF TypeOK
<1>1. ASSUME NEW s \in EngineSessions, StageFails(s) PROVE TypeOK'
  <2>1. BackupTypeOK'
    BY <1>0, <1>1, CheckoutKept DEF StageFails
  <2> QED BY <1>1, <2>1, TroubleshootAssumption
          DEF TypeOK, Guarded, Live, Over, Goto, StageFails, Finish, CapReached, bounds
<1>2. CASE RunFails
  <2>1. BackupTypeOK'
    BY <1>0, <1>2, CheckoutKept DEF RunFails
  <2> QED BY <1>2, <2>1, TroubleshootAssumption
          DEF TypeOK, Guarded, Live, Over, Goto, RunFails, bounds
<1>3. CASE RunThreadEnds
  <2>1. BackupTypeOK'
    BY <1>0, <1>3, CheckoutKept DEF RunThreadEnds
  <2> QED BY <1>3, <2>1, TroubleshootAssumption
          DEF TypeOK, Guarded, Live, Over, Goto, RunThreadEnds, bounds
<1>4. CASE Rerun
  <2>1. BackupTypeOK'
    BY <1>0, <1>4, CheckoutKept DEF Rerun
  <2> QED BY <1>4, <2>1, TroubleshootAssumption DEF TypeOK, Guarded, Live, Over, Goto, Rerun
<1>5. ASSUME NEW s \in HttpSessions, PostChecks(s) PROVE TypeOK'
  <2>1. BackupTypeOK'
    BY <1>0, <1>5, CheckoutKept DEF PostChecks
  <2> QED BY <1>5, <2>1, TroubleshootAssumption
          DEF TypeOK, Guarded, Live, Over, Goto, PostChecks, runVars, bounds, HttpSessions
<1>6. ASSUME NEW s \in Sessions, PostReserves(s) PROVE TypeOK'
  <2>1. BackupTypeOK'
    BY <1>0, <1>6, CheckoutKept DEF PostReserves
  <2> QED BY <1>6, <2>1, TroubleshootAssumption
          DEF TypeOK, Guarded, Live, Over, Goto, PostReserves, MayReserve, runVars, bounds
<1>7. ASSUME NEW s \in Sessions, PostInserts(s) PROVE TypeOK'
  <2>1. BackupTypeOK'
    BY <1>0, <1>7, CheckoutKept DEF PostInserts
  <2>2. pc[s] = "reserved" /\ guard = s
    BY <1>7 DEF PostInserts, TypeOK, Guarded
  <2>3. CASE entry.active
    BY <1>7, <2>1, <2>2, <2>3, TroubleshootAssumption
    DEF PostInserts, Goto, Freed, TypeOK, Guarded, Over, runVars, bounds
  <2>4. CASE ~entry.active
    <3>1. EntryOf(s) \in
            [session : Sessions \union {NoSession}, active : BOOLEAN, runner : BOOLEAN]
      BY DEF EntryOf
    <3> QED BY <1>7, <2>1, <2>2, <2>4, <3>1
            DEF PostInserts, Goto, TypeOK, Guarded, Live, runVars, bounds
  <2> QED BY <2>3, <2>4
<1>8. ASSUME NEW s \in Sessions, WorkerStarts(s) PROVE TypeOK'
  <2>1. BackupTypeOK'
    BY <1>0, <1>8, CheckoutKept DEF WorkerStarts
  <2>2. CASE Goto(s, "judged")
    BY <1>8, <2>1, <2>2, TroubleshootAssumption
       DEF TypeOK, Guarded, Live, Goto, WorkerStarts, runVars, bounds
  <2>3. CASE Goto(s, "ready") /\ UNCHANGED verdict
    BY <1>8, <2>1, <2>3, TroubleshootAssumption
       DEF TypeOK, Guarded, Live, Goto, WorkerStarts, runVars, bounds
  <2> QED BY <1>8, <2>2, <2>3 DEF WorkerStarts
<1>9. ASSUME NEW s \in Sessions, EngineReserves(s) PROVE TypeOK'
  <2>1. BackupTypeOK'
    BY <1>0, <1>9, CheckoutKept DEF EngineReserves
  <2>2. pc[s] = "counted"
    BY <1>9 DEF EngineReserves
  <2>3. CASE MayReserve
    BY <1>9, <2>1, <2>2, <2>3, TroubleshootAssumption
    DEF EngineReserves, MayReserve, Goto, TypeOK, Guarded, Live, bounds
  <2>4. CASE ~MayReserve
    BY <1>9, <2>1, <2>2, <2>4
    DEF EngineReserves, Finish, Goto, TypeOK, Guarded, Over, bounds
  <2> QED BY <2>3, <2>4
<1>10. ASSUME NEW s \in Sessions, Prepare(s) PROVE TypeOK'
  <2>1. BackupTypeOK'
    BY <1>0, <1>10, CheckoutTypes, CheckoutKept DEF Prepare, checkout
  <2>2. work' \in [Mutating -> [Files -> {"before", "during", "after"}]]
    <3>1. [f \in Files |-> IF f \in Dirty THEN "during" ELSE "before"]
            \in [Files -> {"before", "during", "after"}]
      OBVIOUS
    <3>2. work \in [Mutating -> [Files -> {"before", "during", "after"}]]
      BY DEF TypeOK
    <3> QED BY <1>10, <3>1, <3>2 DEF Prepare
  <2>3. entry' \in [session : Sessions \union {NoSession}, active : BOOLEAN, runner : BOOLEAN]
    BY <1>10 DEF Prepare, Registered, EntryOf, TypeOK
  <2>4. pc[s] = "ready" /\ pc' = [pc EXCEPT ![s] = "armed"]
    BY <1>10 DEF Prepare, Goto
  <2>5. UNCHANGED <<runVars, guard, agent, cancels, verdict, bounds>>
    BY <1>10 DEF Prepare
  <2> QED BY <2>1, <2>2, <2>3, <2>4, <2>5 DEF TypeOK, Guarded, Live, runVars, bounds
<1>11. ASSUME NEW s \in Sessions, CaptureFails(s) PROVE TypeOK'
  <2>1. BackupTypeOK'
    BY <1>0, <1>11, CheckoutKept DEF CaptureFails
  <2> QED BY <1>11, <2>1, TroubleshootAssumption
          DEF TypeOK, Guarded, Live, Over, Goto, CaptureFails, runVars, bounds
<1>12. ASSUME NEW s \in Sessions, StartAgent(s) PROVE TypeOK'
  <2>1. BackupTypeOK'
    BY <1>0, <1>12, CheckoutKept DEF StartAgent
  <2> QED BY <1>12, <2>1, TroubleshootAssumption
          DEF TypeOK, Guarded, Live, Over, Goto, StartAgent, runVars, bounds
<1>13. ASSUME NEW s \in Sessions, Judge(s) PROVE TypeOK'
  <2>1. BackupTypeOK'
    BY <1>0, <1>13, CheckoutTypes, CheckoutKept DEF Judge
  <2>2. verdict' \in [Sessions -> {"none", "Escalated", "Cancelled", "Skipped", "Resumed",
                                  "Reported", "Promoted"}]
    BY <1>13, VerdictType DEF Judge, TypeOK
  <2>3. pc[s] = "agent" /\ pc' = [pc EXCEPT ![s] = "judged"]
    BY <1>13 DEF Judge, Goto
  <2>4. UNCHANGED <<runVars, guard, entry, agent, cancels, bounds, work>>
    BY <1>13 DEF Judge
  <2> QED BY <2>1, <2>2, <2>3, <2>4 DEF TypeOK, Guarded, Live, runVars, bounds
<1>14. ASSUME NEW s \in Sessions, EngineReleases(s) PROVE TypeOK'
  <2>1. BackupTypeOK'
    BY <1>0, <1>14, CheckoutKept DEF EngineReleases
  <2> QED BY <1>14, <2>1, TroubleshootAssumption
          DEF TypeOK, Guarded, Live, Over, Goto, EngineReleases, Freed, runVars, bounds
<1>15. ASSUME NEW s \in Sessions, EngineUnregisters(s) PROVE TypeOK'
  <2>1. BackupTypeOK'
    BY <1>0, <1>15, CheckoutKept DEF EngineUnregisters
  <2> QED BY <1>15, <2>1, TroubleshootAssumption
          DEF TypeOK, Guarded, Live, Over, Goto, EngineUnregisters, Finish, Deactivated,
              bounds
<1>16. ASSUME NEW s \in Sessions, WorkerClears(s) PROVE TypeOK'
  <2>1. BackupTypeOK'
    BY <1>0, <1>16, CheckoutKept DEF WorkerClears
  <2> QED BY <1>16, <2>1, TroubleshootAssumption
          DEF TypeOK, Guarded, Live, Over, Goto, WorkerClears, Deactivated, runVars, bounds
<1>17. ASSUME NEW s \in Sessions, WorkerEnds(s) PROVE TypeOK'
  <2>1. BackupTypeOK'
    BY <1>0, <1>17, CheckoutKept DEF WorkerEnds
  <2> QED BY <1>17, <2>1, TroubleshootAssumption
          DEF TypeOK, Guarded, Live, Over, Goto, WorkerEnds, Finish, Freed, runVars, bounds
<1>18. ASSUME NEW s \in Sessions, CancelKills(s) PROVE TypeOK'
  <2>1. BackupTypeOK'
    BY <1>0, <1>18, CheckoutKept DEF CancelKills
  <2> QED BY <1>18, <2>1, TroubleshootAssumption
          DEF TypeOK, Guarded, Live, Over, Goto, CancelKills, Deactivated, runVars, bounds
<1>19. ASSUME NEW s \in Sessions, CancelMarks(s) PROVE TypeOK'
  <2>1. BackupTypeOK'
    BY <1>0, <1>19, CheckoutKept DEF CancelMarks
  <2> QED BY <1>19, <2>1, TroubleshootAssumption
          DEF TypeOK, Guarded, Live, Over, Goto, CancelMarks, runVars, bounds
<1>20. CASE Crash
  <2>1. BackupTypeOK'
    BY <1>0, <1>20, CheckoutTypes, CheckoutKept, TroubleshootAssumption DEF Crash
  <2>2. pc' \in [Sessions -> {"idle"} \union Over] /\ guard' = NoSession
    BY <1>20 DEF Crash, TypeOK, Over
  <2>3. \A s \in Sessions : guard' = s <=> pc'[s] \in Guarded
    BY <2>2, TroubleshootAssumption DEF Guarded, Over
  <2>4. entry' \in [session : Sessions \union {NoSession}, active : BOOLEAN, runner : BOOLEAN]
    BY <1>20 DEF Crash, NoEntry
  <2>5. pc' \in [Sessions -> {"idle"} \union Live \union Over]
    BY <2>2
  <2>6. crashes' \in 0..MaxCrashes
    BY <1>20, TroubleshootAssumption DEF Crash, TypeOK
  <2>7. /\ cancels' \in [Sessions -> {"none", "killed", "marked"}]
        /\ verdict' \in [Sessions -> {"none", "Escalated", "Cancelled", "Skipped", "Resumed",
                                      "Reported", "Promoted"}]
    BY <1>20 DEF Crash
  <2> QED BY <1>20, <2>1, <2>3, <2>4, <2>5, <2>6, <2>7 DEF Crash, TypeOK
<1>21. ASSUME NEW s \in Sessions, AgentEdits(s) PROVE TypeOK'
  <2>1. BackupTypeOK'
    BY <1>0, <1>21, CheckoutTypes DEF AgentEdits, Versions
  <2> QED BY <1>21, <2>1, TroubleshootAssumption, SeenType
          DEF TypeOK, Guarded, Live, Over, Goto, AgentEdits, runVars, bounds
<1>22. ASSUME NEW s \in Sessions, AgentCommits(s) PROVE TypeOK'
  <2>1. BackupTypeOK'
    BY <1>0, <1>22, CheckoutTypes DEF AgentCommits
  <2> QED BY <1>22, <2>1, TroubleshootAssumption
          DEF TypeOK, Guarded, Live, Over, Goto, AgentCommits, runVars, bounds
<1>23. ASSUME NEW s \in Sessions, AgentExits(s) PROVE TypeOK'
  <2>1. BackupTypeOK'
    BY <1>0, <1>23, CheckoutKept DEF AgentExits
  <2> QED BY <1>23, <2>1, TroubleshootAssumption
          DEF TypeOK, Guarded, Live, Over, Goto, AgentExits, runVars, bounds
<1>24. CASE OperatorChanges
  <2>1. BackupTypeOK'
    BY <1>0, <1>24, CheckoutTypes DEF OperatorChanges, Versions
  <2> QED BY <1>24, <2>1, TroubleshootAssumption, SeenType
          DEF TypeOK, Guarded, Live, Over, Goto, OperatorChanges, runVars
<1>25. ASSUME NEW s \in Sessions, PostRollback(s) PROVE TypeOK'
  <2>1. BackupTypeOK'
    BY <1>0, <1>25, CheckoutTypes DEF PostRollback
  <2> QED BY <1>25, <2>1, TroubleshootAssumption, SeenType
          DEF TypeOK, Guarded, Live, Over, Goto, PostRollback, runVars, bounds
<1>26. CASE UNCHANGED vars
  <2>1. BackupTypeOK'
    BY <1>0, <1>26, CheckoutKept DEF vars
  <2> QED BY <1>26, <2>1 DEF vars, TypeOK, runVars, bounds
<1> QED
  BY <1>1, <1>2, <1>3, <1>4, <1>5, <1>6, <1>7, <1>8, <1>9, <1>10, <1>11, <1>12,
     <1>13, <1>14, <1>15, <1>16, <1>17, <1>18, <1>19, <1>20, <1>21, <1>22, <1>23,
     <1>24, <1>25, <1>26
  DEF Next, SessionStep

(* Every variable keeps its type, and the slot of the RunGuard is held by  *)
(* a session exactly while it may use it.                                  *)
THEOREM TypeCorrect == Spec => []TypeOK
<1>1. Init => TypeOK
  BY TypeInit
<1>2. TypeOK /\ [Next]_vars => TypeOK'
  BY TypeStep
<1> QED BY <1>1, <1>2, PTL DEF Spec

-----------------------------------------------------------------------------
(* The agents. One that is alive is that of a session which waits for it,  *)
(* or an orphan; an active entry is that of a session between its          *)
(* registration and its end.                                               *)
Awaited ==
  \A s \in Sessions : agent[s] = "alive" /\ pc[s] # "lost" => pc[s] = "agent"
Registration == {"spawned", "ready", "armed", "agent", "judged", "released"}
EntryFits == entry.active => entry.session \in Sessions /\ pc[entry.session] \in Registration

LEMMA SessionInit == ASSUME Init PROVE Awaited /\ EntryFits
BY DEF Init, Awaited, EntryFits, NoEntry

LEMMA AwaitedStep == ASSUME TypeOK, Awaited, [Next]_vars PROVE Awaited'
<1>1. ASSUME NEW s \in EngineSessions, StageFails(s) PROVE Awaited'
  BY <1>1 DEF TypeOK, Awaited, Goto, StageFails, Finish
<1>2. CASE RunFails
  BY <1>2 DEF TypeOK, Awaited, Goto, RunFails
<1>3. CASE RunThreadEnds
  BY <1>3 DEF TypeOK, Awaited, Goto, RunThreadEnds
<1>4. CASE Rerun
  BY <1>4 DEF TypeOK, Awaited, Goto, Rerun
<1>5. ASSUME NEW s \in HttpSessions, PostChecks(s) PROVE Awaited'
  BY <1>5 DEF TypeOK, Awaited, Goto, PostChecks
<1>6. ASSUME NEW s \in Sessions, PostReserves(s) PROVE Awaited'
  BY <1>6 DEF TypeOK, Awaited, Goto, PostReserves, MayReserve
<1>7. ASSUME NEW s \in Sessions, PostInserts(s) PROVE Awaited'
  BY <1>7 DEF TypeOK, Awaited, Goto, PostInserts, EntryOf, Freed
<1>8. ASSUME NEW s \in Sessions, WorkerStarts(s) PROVE Awaited'
  BY <1>8 DEF TypeOK, Awaited, Goto, WorkerStarts
<1>9. ASSUME NEW s \in Sessions, EngineReserves(s) PROVE Awaited'
  BY <1>9 DEF TypeOK, Awaited, Goto, EngineReserves, MayReserve, Finish
<1>10. ASSUME NEW s \in Sessions, Prepare(s) PROVE Awaited'
  BY <1>10 DEF TypeOK, Awaited, Goto, Prepare, Registered, EntryOf
<1>11. ASSUME NEW s \in Sessions, CaptureFails(s) PROVE Awaited'
  BY <1>11 DEF TypeOK, Awaited, Goto, CaptureFails
<1>12. ASSUME NEW s \in Sessions, StartAgent(s) PROVE Awaited'
  BY <1>12 DEF TypeOK, Awaited, Goto, StartAgent
<1>13. ASSUME NEW s \in Sessions, Judge(s) PROVE Awaited'
  BY <1>13 DEF TypeOK, Awaited, Goto, Judge
<1>14. ASSUME NEW s \in Sessions, EngineReleases(s) PROVE Awaited'
  BY <1>14 DEF TypeOK, Awaited, Goto, EngineReleases, Freed
<1>15. ASSUME NEW s \in Sessions, EngineUnregisters(s) PROVE Awaited'
  BY <1>15 DEF TypeOK, Awaited, Goto, EngineUnregisters, Finish, Deactivated
<1>16. ASSUME NEW s \in Sessions, WorkerClears(s) PROVE Awaited'
  BY <1>16 DEF TypeOK, Awaited, Goto, WorkerClears, Deactivated
<1>17. ASSUME NEW s \in Sessions, WorkerEnds(s) PROVE Awaited'
  BY <1>17 DEF TypeOK, Awaited, Goto, WorkerEnds, Finish, Freed
<1>18. ASSUME NEW s \in Sessions, CancelKills(s) PROVE Awaited'
  BY <1>18 DEF TypeOK, Awaited, Goto, CancelKills, Deactivated
<1>19. ASSUME NEW s \in Sessions, CancelMarks(s) PROVE Awaited'
  BY <1>19 DEF TypeOK, Awaited, Goto, CancelMarks
<1>20. CASE Crash
  BY <1>20 DEF TypeOK, Awaited, Goto, Crash, NoEntry
<1>21. ASSUME NEW s \in Sessions, AgentEdits(s) PROVE Awaited'
  BY <1>21 DEF TypeOK, Awaited, Goto, AgentEdits
<1>22. ASSUME NEW s \in Sessions, AgentCommits(s) PROVE Awaited'
  BY <1>22 DEF TypeOK, Awaited, Goto, AgentCommits
<1>23. ASSUME NEW s \in Sessions, AgentExits(s) PROVE Awaited'
  BY <1>23 DEF TypeOK, Awaited, Goto, AgentExits
<1>24. CASE OperatorChanges
  BY <1>24 DEF TypeOK, Awaited, Goto, OperatorChanges
<1>25. ASSUME NEW s \in Sessions, PostRollback(s) PROVE Awaited'
  BY <1>25 DEF TypeOK, Awaited, Goto, PostRollback
<1>26. CASE UNCHANGED vars
  BY <1>26 DEF vars, Awaited
<1> QED
  BY <1>1, <1>2, <1>3, <1>4, <1>5, <1>6, <1>7, <1>8, <1>9, <1>10, <1>11, <1>12,
     <1>13, <1>14, <1>15, <1>16, <1>17, <1>18, <1>19, <1>20, <1>21, <1>22, <1>23,
     <1>24, <1>25, <1>26
  DEF Next, SessionStep

LEMMA EntryStep == ASSUME TypeOK, EntryFits, [Next]_vars PROVE EntryFits'
<1>1. ASSUME NEW s \in EngineSessions, StageFails(s) PROVE EntryFits'
  BY <1>1 DEF TypeOK, EntryFits, Registration, Goto, StageFails, Finish
<1>2. CASE RunFails
  BY <1>2 DEF TypeOK, EntryFits, Registration, Goto, RunFails
<1>3. CASE RunThreadEnds
  BY <1>3 DEF TypeOK, EntryFits, Registration, Goto, RunThreadEnds
<1>4. CASE Rerun
  BY <1>4 DEF TypeOK, EntryFits, Registration, Goto, Rerun
<1>5. ASSUME NEW s \in HttpSessions, PostChecks(s) PROVE EntryFits'
  BY <1>5 DEF TypeOK, EntryFits, Registration, Goto, PostChecks, HttpSessions
<1>6. ASSUME NEW s \in Sessions, PostReserves(s) PROVE EntryFits'
  BY <1>6 DEF TypeOK, EntryFits, Registration, Goto, PostReserves, MayReserve
<1>7. ASSUME NEW s \in Sessions, PostInserts(s) PROVE EntryFits'
  BY <1>7 DEF TypeOK, EntryFits, Registration, Goto, PostInserts, EntryOf, Freed
<1>8. ASSUME NEW s \in Sessions, WorkerStarts(s) PROVE EntryFits'
  BY <1>8 DEF TypeOK, EntryFits, Registration, Goto, WorkerStarts
<1>9. ASSUME NEW s \in Sessions, EngineReserves(s) PROVE EntryFits'
  BY <1>9 DEF TypeOK, EntryFits, Registration, Goto, EngineReserves, MayReserve, Finish
<1>10. ASSUME NEW s \in Sessions, Prepare(s) PROVE EntryFits'
  BY <1>10 DEF TypeOK, EntryFits, Registration, Goto, Prepare, Registered, EntryOf
<1>11. ASSUME NEW s \in Sessions, CaptureFails(s) PROVE EntryFits'
  BY <1>11 DEF TypeOK, EntryFits, Registration, Goto, CaptureFails
<1>12. ASSUME NEW s \in Sessions, StartAgent(s) PROVE EntryFits'
  BY <1>12 DEF TypeOK, EntryFits, Registration, Goto, StartAgent
<1>13. ASSUME NEW s \in Sessions, Judge(s) PROVE EntryFits'
  BY <1>13 DEF TypeOK, EntryFits, Registration, Goto, Judge
<1>14. ASSUME NEW s \in Sessions, EngineReleases(s) PROVE EntryFits'
  BY <1>14 DEF TypeOK, EntryFits, Registration, Goto, EngineReleases, Freed
<1>15. ASSUME NEW s \in Sessions, EngineUnregisters(s) PROVE EntryFits'
  BY <1>15 DEF TypeOK, EntryFits, Registration, Goto, EngineUnregisters, Finish, Deactivated
<1>16. ASSUME NEW s \in Sessions, WorkerClears(s) PROVE EntryFits'
  BY <1>16 DEF TypeOK, EntryFits, Registration, Goto, WorkerClears, Deactivated
<1>17. ASSUME NEW s \in Sessions, WorkerEnds(s) PROVE EntryFits'
  BY <1>17 DEF TypeOK, EntryFits, Registration, Goto, WorkerEnds, Finish, Freed
<1>18. ASSUME NEW s \in Sessions, CancelKills(s) PROVE EntryFits'
  BY <1>18 DEF TypeOK, EntryFits, Registration, Goto, CancelKills, Deactivated
<1>19. ASSUME NEW s \in Sessions, CancelMarks(s) PROVE EntryFits'
  BY <1>19 DEF TypeOK, EntryFits, Registration, Goto, CancelMarks
<1>20. CASE Crash
  BY <1>20 DEF TypeOK, EntryFits, Registration, Goto, Crash, NoEntry
<1>21. ASSUME NEW s \in Sessions, AgentEdits(s) PROVE EntryFits'
  BY <1>21 DEF TypeOK, EntryFits, Registration, Goto, AgentEdits
<1>22. ASSUME NEW s \in Sessions, AgentCommits(s) PROVE EntryFits'
  BY <1>22 DEF TypeOK, EntryFits, Registration, Goto, AgentCommits
<1>23. ASSUME NEW s \in Sessions, AgentExits(s) PROVE EntryFits'
  BY <1>23 DEF TypeOK, EntryFits, Registration, Goto, AgentExits
<1>24. CASE OperatorChanges
  BY <1>24 DEF TypeOK, EntryFits, Registration, Goto, OperatorChanges
<1>25. ASSUME NEW s \in Sessions, PostRollback(s) PROVE EntryFits'
  BY <1>25 DEF TypeOK, EntryFits, Registration, Goto, PostRollback
<1>26. CASE UNCHANGED vars
  BY <1>26 DEF vars, EntryFits
<1> QED
  BY <1>1, <1>2, <1>3, <1>4, <1>5, <1>6, <1>7, <1>8, <1>9, <1>10, <1>11, <1>12,
     <1>13, <1>14, <1>15, <1>16, <1>17, <1>18, <1>19, <1>20, <1>21, <1>22, <1>23,
     <1>24, <1>25, <1>26
  DEF Next, SessionStep

LEMMA SessionsFit == Spec => [](TypeOK /\ Awaited /\ EntryFits)
<1>1. Init => TypeOK /\ Awaited /\ EntryFits
  BY TypeInit, SessionInit
<1>2. TypeOK /\ Awaited /\ EntryFits /\ [Next]_vars => (TypeOK /\ Awaited /\ EntryFits)'
  BY TypeStep, AwaitedStep, EntryStep
<1> QED BY <1>1, <1>2, PTL DEF Spec

(* For any number of sessions, resumes and crashes no two agents of this   *)
(* server are at work on the run's checkout: each is one whose session     *)
(* holds the run's only slot.                                              *)
THEOREM AgentsAreAlone == Spec => []OneAgentPerRun
<1>1. TypeOK /\ Awaited => OneAgentPerRun
  BY DEF TypeOK, Awaited, OneAgentPerRun, Guarded
<1> QED BY <1>1, SessionsFit, PTL

(* An active in-flight entry is that of a session under way, whatever      *)
(* cancels, crashes and the end of the run's thread do to it.              *)
THEOREM EntriesAreLive == Spec => []InFlightIsLive
<1>1. EntryFits => InFlightIsLive
  BY DEF EntryFits, InFlightIsLive, Registration, Live, Guarded
<1> QED BY <1>1, SessionsFit, PTL

-----------------------------------------------------------------------------
(* The checkout and the history of its files. What a session has on record *)
(* as dirty before it or as its agent's has changed by the time the agent  *)
(* was judged, and until then the same holds of all that differs from the  *)
(* base.                                                                   *)
OnRecord(s) == backup[s].preModified \union backup[s].agentModified
LedgerOf(s) ==
  /\ \A f \in OnRecord(s) : work[s][f] = "during"
  /\ pc[s] \in {"armed", "agent"} => \A f \in Touched(s) : work[s][f] = "during"
Ledger == \A s \in Mutating : LedgerOf(s)

LEMMA LedgerInit == ASSUME Init PROVE Ledger
BY TroubleshootAssumption DEF Init, BackupInit, Ledger, LedgerOf, OnRecord

(* A step that changes no backup and writes what it changes into the       *)
(* history: a file changed once during a session stays so, and one changed *)
(* while the agent is awaited becomes so.                                  *)
LEMMA SeenKeepsLedger ==
  ASSUME TypeOK, Ledger, work' = Seen, UNCHANGED <<backup, pc>>
  PROVE  Ledger'
<1> SUFFICES ASSUME NEW s \in Mutating PROVE LedgerOf(s)'
  BY DEF Ledger
<1>1. LedgerOf(s) /\ s \in Sessions
  BY TroubleshootAssumption DEF Ledger
<1>2. OnRecord(s) \in SUBSET Files
  BY <1>1 DEF OnRecord, TypeOK, BackupTypeOK, Backups
<1>3. \A f \in Files : work'[s][f] = SeenBy(s, f)
  BY DEF Seen
<1>4. \A f \in Files : work[s][f] = "during" => work'[s][f] = "during"
  BY <1>3 DEF SeenBy
<1>5. ASSUME pc[s] \in {"armed", "agent"}, NEW f \in Files, tree'[f] # backup[s].base[f]
      PROVE  work'[s][f] = "during"
  <2>1. CASE tree'[f] = tree[f]
    BY <1>1, <1>4, <1>5, <2>1 DEF LedgerOf, Touched, Differing
  <2>2. CASE tree'[f] # tree[f]
    BY <1>3, <1>5, <2>2 DEF SeenBy
  <2> QED BY <2>1, <2>2
<1>6. OnRecord(s)' = OnRecord(s)
  BY DEF OnRecord
<1> QED BY <1>1, <1>2, <1>4, <1>5, <1>6 DEF LedgerOf, Touched, Differing

(* A step that touches neither backups nor files.                          *)
LEMMA KeptLedger ==
  ASSUME TypeOK, Ledger, UNCHANGED <<tree, backup, work>>,
         \A s \in Mutating : pc'[s] \in {"armed", "agent"} => pc[s] \in {"armed", "agent"}
  PROVE  Ledger'
BY DEF Ledger, LedgerOf, OnRecord, Touched, Differing

LEMMA PrepareKeepsLedger ==
  ASSUME TypeOK, Ledger, NEW s \in Sessions, Prepare(s)
  PROVE  Ledger'
<1>1. CASE s \notin Mutating
  BY <1>1, KeptLedger, TroubleshootAssumption DEF Prepare, Goto, checkout, TypeOK
<1>2. CASE s \in Mutating
  <2>1. /\ backup' = Captured(s, "complete") /\ UNCHANGED tree
        /\ work' = [work EXCEPT ![s] =
                     [f \in Files |-> IF f \in Dirty THEN "during" ELSE "before"]]
        /\ pc' = [pc EXCEPT ![s] = "armed"]
    BY <1>2 DEF Prepare, Capture, Goto
  <2>2. ASSUME NEW t \in Mutating, t # s PROVE LedgerOf(t)'
    BY <2>1, <2>2, TroubleshootAssumption
    DEF Ledger, LedgerOf, OnRecord, Touched, Differing, Captured, TypeOK, BackupTypeOK
  <2>3. LedgerOf(s)'
    <3>1. work'[s] = [f \in Files |-> IF f \in Dirty THEN "during" ELSE "before"]
      BY <1>2, <2>1 DEF TypeOK
    <3>2. /\ backup'[s].preModified = Dirty /\ backup'[s].agentModified = {}
          /\ backup'[s].base = heads[branch]
      BY <2>1 DEF Captured, TypeOK, BackupTypeOK
    <3> QED BY <2>1, <3>1, <3>2, DirtyFiles
            DEF LedgerOf, OnRecord, Touched, Dirty, Differing
  <2> QED BY <2>2, <2>3 DEF Ledger
<1> QED BY <1>1, <1>2

LEMMA JudgeKeepsLedger ==
  ASSUME TypeOK, Ledger, NEW s \in Sessions, Judge(s)
  PROVE  Ledger'
<1>1. pc[s] = "agent" /\ pc' = [pc EXCEPT ![s] = "judged"] /\ UNCHANGED work
  BY DEF Judge, Goto
<1>2. CASE s \notin Mutating
  BY <1>1, <1>2, KeptLedger, TroubleshootAssumption DEF Judge, checkout, TypeOK
<1>3. CASE s \in Mutating
  <2>1. UNCHANGED tree
    BY <1>3 DEF Judge, RecordAgentTouch
  <2>2. PICK touched \in {backup[s].agentModified, Touched(s)} :
          backup' = [backup EXCEPT ![s].agentModified = touched]
    BY <1>3 DEF Judge, RecordAgentTouch
  <2>3. ASSUME NEW t \in Mutating, t # s PROVE LedgerOf(t)'
    BY <1>1, <2>1, <2>2, <2>3, TroubleshootAssumption
    DEF Ledger, LedgerOf, OnRecord, Touched, Differing, TypeOK, BackupTypeOK
  <2>4. /\ backup'[s].preModified = backup[s].preModified
        /\ backup'[s].agentModified = touched
    BY <2>2 DEF TypeOK, BackupTypeOK, Backups
  <2>5. LedgerOf(s)'
    BY <1>1, <1>3, <2>2, <2>4 DEF Ledger, LedgerOf, OnRecord, TypeOK
  <2> QED BY <2>3, <2>5 DEF Ledger
<1> QED BY <1>2, <1>3

(* A capture cut short by a crash has nothing on record.                   *)
LEMMA CrashKeepsLedger ==
  ASSUME TypeOK, Ledger, Crash
  PROVE  Ledger'
<1>1. UNCHANGED work /\ \A t \in Sessions : pc'[t] \notin {"armed", "agent"}
  BY DEF Crash, TypeOK, Live, Guarded, Over
<1>2. CASE UNCHANGED checkout
  BY <1>1, <1>2, KeptLedger, TroubleshootAssumption DEF checkout
<1>3. ASSUME NEW s \in Mutating, CaptureInterrupted(s) PROVE Ledger'
  <2>1. PICK a \in Artifacts \ {"complete"} : backup' = Captured(s, a)
    BY <1>3 DEF CaptureInterrupted
  <2>2. s \in Sessions /\ a # "complete"
    BY TroubleshootAssumption
  <2>3. OnRecord(s)' = {}
    BY <2>1, <2>2 DEF OnRecord, Captured, TypeOK, BackupTypeOK
  <2>4. \A t \in Mutating : t # s => OnRecord(t)' = OnRecord(t)
    BY <2>1, <2>2, TroubleshootAssumption DEF OnRecord, Captured, TypeOK, BackupTypeOK
  <2> QED BY <1>1, <2>3, <2>4, TroubleshootAssumption DEF Ledger, LedgerOf
<1> QED BY <1>2, <1>3 DEF Crash

LEMMA LedgerStep == ASSUME TypeOK, Ledger, [Next]_vars PROVE Ledger'
<1>1. ASSUME NEW s \in Sessions, Prepare(s) PROVE Ledger'
  BY <1>1, PrepareKeepsLedger
<1>2. ASSUME NEW s \in Sessions, Judge(s) PROVE Ledger'
  BY <1>2, JudgeKeepsLedger
<1>3. CASE Crash
  BY <1>3, CrashKeepsLedger
<1>4. ASSUME NEW s \in Sessions, AgentEdits(s) \/ PostRollback(s) PROVE Ledger'
  BY <1>4, SeenKeepsLedger DEF AgentEdits, Write, PostRollback, Rollback
<1>5. CASE OperatorChanges
  BY <1>5, SeenKeepsLedger DEF OperatorChanges, Write, Commit, Switch
<1>6. ASSUME NEW s \in Sessions, AgentCommits(s) PROVE Ledger'
  BY <1>6, KeptLedger DEF AgentCommits, Commit
<1>7. ASSUME RunFails \/ RunThreadEnds \/ Rerun PROVE Ledger'
  BY <1>7, KeptLedger DEF RunFails, RunThreadEnds, Rerun, checkout
<1>8. ASSUME NEW s \in Sessions, CancelKills(s) \/ CancelMarks(s) \/ AgentExits(s)
      PROVE  Ledger'
  BY <1>8, KeptLedger DEF CancelKills, CancelMarks, AgentExits, checkout
<1>9. ASSUME NEW s \in Sessions, StageFails(s) \/ PostChecks(s) \/ PostReserves(s)
                                \/ PostInserts(s) \/ WorkerStarts(s)
      PROVE  Ledger'
  BY <1>9, KeptLedger, TroubleshootAssumption
  DEF StageFails, PostChecks, PostReserves, PostInserts, WorkerStarts, Goto, Finish, checkout,
      TypeOK
<1>10. ASSUME NEW s \in Sessions, EngineReserves(s) \/ CaptureFails(s) \/ StartAgent(s)
       PROVE  Ledger'
  BY <1>10, KeptLedger, TroubleshootAssumption
  DEF EngineReserves, CaptureFails, StartAgent, Goto, Finish, checkout, TypeOK
<1>11. ASSUME NEW s \in Sessions, EngineReleases(s) \/ EngineUnregisters(s)
                                 \/ WorkerClears(s) \/ WorkerEnds(s)
       PROVE  Ledger'
  BY <1>11, KeptLedger, TroubleshootAssumption
  DEF EngineReleases, EngineUnregisters, WorkerClears, WorkerEnds, Goto, Finish, checkout,
      TypeOK
<1>12. CASE UNCHANGED vars
  BY <1>12, KeptLedger DEF vars, checkout
<1> QED
  BY <1>1, <1>2, <1>3, <1>4, <1>5, <1>6, <1>7, <1>8, <1>9, <1>10, <1>11, <1>12,
     TroubleshootAssumption DEF Next, SessionStep, HttpSessions

(* Whatever agents, orphans of crashes, other sessions, other rollbacks    *)
(* and the operator do to the checkout, on any branch: a rollback that its *)
(* preflight allows loses no uncommitted change made after the session.    *)
THEOREM RollbackSparesWork == Spec => UncommittedWorkSurvives
<1>1. TypeOK /\ Ledger =>
        [\A s \in Mutating : Rollback(s) =>
           \A f \in Dirty : work[s][f] = "after" => tree'[f] = tree[f]]_vars
  <2> SUFFICES ASSUME Ledger, NEW s \in Mutating, Rollback(s), NEW f \in Dirty
               PROVE  work[s][f] # "after"
    OBVIOUS
  <2>1. f \in OnRecord(s)
    BY DEF Rollback, RollbackAllowed, OnRecord
  <2> QED BY <2>1 DEF Ledger, LedgerOf
<1>2. Init => TypeOK /\ Ledger
  BY TypeInit, LedgerInit
<1>3. TypeOK /\ Ledger /\ [Next]_vars => (TypeOK /\ Ledger)'
  BY TypeStep, LedgerStep
<1> QED BY <1>1, <1>2, <1>3, PTL DEF Spec, UncommittedWorkSurvives

-----------------------------------------------------------------------------
(* The count of attempts. The engine has at most one session under way,    *)
(* whose attempt is counted in its context and not yet in the checkpoint;  *)
(* between sessions the two agree, unless a crash has lost the context.    *)
Started == {s \in EngineSessions : agent[s] # "none"}
BeforeAgent == {"counted", "ready", "armed"}
CountFits ==
  /\ IsFiniteSet(Started)
  /\ \A s \in EngineSessions : pc[s] \in {"idle"} \union BeforeAgent => agent[s] = "none"
  /\ \A s, t \in EngineSessions : pc[s] \in Live /\ pc[t] \in Live => s = t
  /\ IF EngineFree
     THEN /\ run = "running" => saved = attempts
          /\ Cardinality(Started) <= saved + crashes
     ELSE /\ run = "running" /\ attempts = saved + 1
          /\ Cardinality(Started) <= attempts + crashes
  /\ \A s \in EngineSessions :
       pc[s] \in BeforeAgent => Cardinality(Started) + 1 <= attempts + crashes

(* Some labels are those of the engine's sessions only, some of the others. *)
EngineLabels == {"counted", "released"}
HttpLabels == {"checked", "reserved", "spawned", "cleared"}
OwnLabels ==
  \A s \in Sessions : /\ pc[s] \in EngineLabels => s \in EngineSessions
                      /\ pc[s] \in HttpLabels => s \in HttpSessions

LEMMA OwnLabelsStep == ASSUME TypeOK, OwnLabels, [Next]_vars PROVE OwnLabels'
<1>1. ASSUME NEW s \in Sessions, NEW label, pc' = [pc EXCEPT ![s] = label],
             label \in EngineLabels => s \in EngineSessions,
             label \in HttpLabels => s \in HttpSessions
      PROVE  OwnLabels'
  BY <1>1 DEF OwnLabels, TypeOK
<1>2. ASSUME UNCHANGED pc PROVE OwnLabels'
  BY <1>2 DEF OwnLabels
<1>3. ASSUME NEW s \in EngineSessions, StageFails(s) PROVE OwnLabels'
  BY <1>1, <1>3, TroubleshootAssumption DEF StageFails, Finish, Goto, EngineLabels, HttpLabels
<1>4. ASSUME NEW s \in HttpSessions, PostChecks(s) PROVE OwnLabels'
  BY <1>1, <1>4 DEF PostChecks, Goto, EngineLabels, HttpLabels, HttpSessions
<1>5. ASSUME NEW s \in Sessions, PostReserves(s) \/ PostInserts(s) \/ WorkerClears(s)
      PROVE  OwnLabels'
  <2>1. s \in HttpSessions
    BY <1>5 DEF PostReserves, PostInserts, WorkerClears, OwnLabels, HttpLabels
  <2>2. PICK label \in {"done", "reserved", "spawned", "cleared"} :
          pc' = [pc EXCEPT ![s] = label] \/ UNCHANGED pc
    BY <1>5 DEF PostReserves, PostInserts, WorkerClears, Goto
  <2> QED BY <1>1, <1>2, <2>1, <2>2 DEF EngineLabels, HttpLabels
<1>6. ASSUME NEW s \in Sessions, SessionStep(s) PROVE OwnLabels'
  <2>1. CASE EngineReleases(s)
    BY <1>1, <2>1 DEF EngineReleases, Goto, EngineLabels, HttpLabels
  <2>2. CASE WorkerStarts(s) \/ EngineReserves(s) \/ Prepare(s) \/ CaptureFails(s)
             \/ StartAgent(s) \/ Judge(s) \/ EngineUnregisters(s) \/ WorkerEnds(s)
    <3>1. PICK label \in {"ready", "armed", "agent", "judged", "done"} :
            pc' = [pc EXCEPT ![s] = label]
      BY <2>2
      DEF WorkerStarts, EngineReserves, Prepare, CaptureFails, StartAgent, Judge,
          EngineUnregisters, WorkerEnds, Finish, Goto
    <3> QED BY <1>1, <3>1 DEF EngineLabels, HttpLabels
  <2> QED BY <1>5, <1>6, <2>1, <2>2 DEF SessionStep
<1>7. CASE Crash
  BY <1>7 DEF Crash, OwnLabels, EngineLabels, HttpLabels
<1> QED
  BY <1>2, <1>3, <1>4, <1>6, <1>7
  DEF Next, RunFails, RunThreadEnds, Rerun, OperatorChanges, CancelKills, CancelMarks,
      PostRollback, AgentEdits, AgentCommits, AgentExits, vars

LEMMA CountInit == ASSUME Init PROVE CountFits
<1>1. Started = {}
  BY TroubleshootAssumption DEF Init, Started
<1> QED BY <1>1, FS_EmptySet, TroubleshootAssumption
        DEF Init, CountFits, BeforeAgent, Live, Guarded, EngineFree

(* Whatever leaves the engine's sessions and counts alone.                 *)
LEMMA CountKept ==
  ASSUME TypeOK, CountFits, UNCHANGED <<run, attempts, saved, crashes>>,
         \A s \in EngineSessions : /\ pc'[s] = pc[s]
                                   /\ agent'[s] = "none" <=> agent[s] = "none"
  PROVE  CountFits'
<1>1. Started' = Started /\ EngineFree' = EngineFree
  BY DEF Started, EngineFree
<1> QED BY <1>1 DEF CountFits

(* A session of the engine goes on, with or without its agent behind it.   *)
LEMMA CountMoves ==
  ASSUME TypeOK, CountFits, NEW s \in EngineSessions, NEW label \in Live,
         pc[s] \in Live, pc' = [pc EXCEPT ![s] = label],
         label \in BeforeAgent => pc[s] \in BeforeAgent,
         UNCHANGED <<run, attempts, saved, crashes, agent>>
  PROVE  CountFits'
<1>1. s \in Sessions
  BY TroubleshootAssumption
<1>2. Started' = Started
  BY DEF Started
<1>3. ~EngineFree /\ ~EngineFree'
  BY <1>1 DEF EngineFree, TypeOK, Live, Guarded, Over
<1>4. \A t \in EngineSessions : t # s => pc'[t] = pc[t]
  BY TroubleshootAssumption DEF TypeOK
<1>5. pc'[s] = label
  BY <1>1 DEF TypeOK
<1> QED BY <1>2, <1>3, <1>4, <1>5 DEF CountFits, BeforeAgent, Live, Guarded

(* It ends: its count is saved.                                            *)
LEMMA CountEnds ==
  ASSUME TypeOK, CountFits, NEW s \in EngineSessions, pc[s] \in Live,
         pc' = [pc EXCEPT ![s] = "done"], saved' = attempts,
         UNCHANGED <<run, attempts, crashes, agent>>
  PROVE  CountFits'
<1>1. s \in Sessions
  BY TroubleshootAssumption
<1>2. Started' = Started
  BY DEF Started
<1>3. ~EngineFree
  BY <1>1 DEF EngineFree, TypeOK, Live, Guarded, Over
<1>4. \A t \in EngineSessions : pc'[t] = IF t = s THEN "done" ELSE pc[t]
  BY TroubleshootAssumption DEF TypeOK
<1>5. \A t \in EngineSessions : t # s => pc[t] \notin Live
  BY DEF CountFits
<1>6. EngineFree'
  BY <1>4, <1>5, TroubleshootAssumption DEF EngineFree, TypeOK, Over
<1>7. \A t \in EngineSessions : pc'[t] \notin Live \union BeforeAgent
  BY <1>4, <1>5 DEF Live, Guarded, BeforeAgent
<1> QED BY <1>2, <1>3, <1>4, <1>6, <1>7 DEF CountFits, Live, Guarded

LEMMA CountStep == ASSUME TypeOK, OwnLabels, CountFits, [Next]_vars PROVE CountFits'
<1>0. EngineSessions \subseteq Sessions
  BY TroubleshootAssumption
<1>1. ASSUME NEW s \in EngineSessions, StageFails(s) PROVE CountFits'
  <2>1. pc[s] = "idle" /\ EngineFree /\ run = "running" /\ saved = attempts
    BY <1>1 DEF StageFails, CountFits
  <2>2. Started' = Started
    BY <1>1 DEF StageFails, Started
  <2>3. agent[s] = "none"
    BY <2>1 DEF CountFits
  <2>4. \A t \in EngineSessions : t # s => pc'[t] = pc[t]
    BY <1>0, <1>1 DEF StageFails, Finish, Goto, TypeOK
  <2>5. CASE CapReached(attempts)
    <3>1. pc'[s] = "done" /\ UNCHANGED <<attempts, run, saved, crashes, agent>>
      BY <1>0, <1>1, <2>5 DEF StageFails, Finish, Goto, TypeOK, bounds
    <3>2. EngineFree' /\ \A t \in EngineSessions : pc'[t] \notin Live \union BeforeAgent
      BY <2>1, <2>4, <3>1 DEF EngineFree, Over, Live, Guarded, BeforeAgent
    <3> QED BY <2>1, <2>2, <2>4, <3>1, <3>2 DEF CountFits, BeforeAgent
  <2>6. CASE ~CapReached(attempts)
    <3>1. /\ pc'[s] = "counted" /\ attempts' = attempts + 1
          /\ UNCHANGED <<run, saved, crashes, agent>>
      BY <1>0, <1>1, <2>6 DEF StageFails, Goto, TypeOK, bounds
    <3>2. ~EngineFree' /\ \A t \in EngineSessions : t # s => pc'[t] \notin Live \union BeforeAgent
      BY <2>1, <2>4, <3>1 DEF EngineFree, Over, Live, Guarded, BeforeAgent
    <3>3. Cardinality(Started) <= saved + crashes
      BY <2>1 DEF CountFits
    <3>4. Cardinality(Started) \in Nat
      BY FS_CardinalityType DEF CountFits
    <3> QED BY <2>1, <2>2, <2>3, <2>4, <3>1, <3>2, <3>3, <3>4 DEF CountFits, BeforeAgent, TypeOK
  <2> QED BY <2>5, <2>6
<1>2. CASE RunFails
  <2>1. EngineFree /\ UNCHANGED <<pc, agent, attempts, saved, crashes>>
    BY <1>2 DEF RunFails, bounds
  <2>2. Started' = Started /\ EngineFree' /\ run' = "failed"
    BY <1>2, <2>1 DEF RunFails, Started, EngineFree
  <2> QED BY <2>1, <2>2 DEF CountFits
<1>3. CASE Rerun
  <2>1. EngineFree
    BY <1>3 DEF Rerun, CountFits
  <2>2. UNCHANGED <<pc, agent, saved, crashes>> /\ attempts' = saved
    BY <1>3 DEF Rerun
  <2>3. Started' = Started /\ EngineFree'
    BY <2>1, <2>2 DEF Started, EngineFree
  <2>4. \A s \in EngineSessions : pc[s] \notin BeforeAgent
    BY <2>1 DEF EngineFree, Over, BeforeAgent
  <2> QED BY <2>1, <2>2, <2>3, <2>4 DEF CountFits
<1>4. ASSUME NEW s \in Sessions, StartAgent(s) PROVE CountFits'
  <2>1. /\ pc[s] = "armed" /\ pc' = [pc EXCEPT ![s] = "agent"]
        /\ agent' = [agent EXCEPT ![s] = "alive"]
        /\ UNCHANGED <<run, attempts, saved, crashes>>
    BY <1>4 DEF StartAgent, Goto, runVars, bounds
  <2>2. CASE s \notin EngineSessions
    BY <1>0, <2>1, <2>2, CountKept DEF TypeOK
  <2>3. CASE s \in EngineSessions
    <3>1. s \notin Started /\ Cardinality(Started) + 1 <= attempts + crashes
      BY <2>1, <2>3 DEF CountFits, BeforeAgent, Started
    <3>2. Started' = Started \union {s}
      BY <1>0, <2>1, <2>3 DEF Started, TypeOK
    <3>3. /\ IsFiniteSet(Started') /\ Cardinality(Started') = Cardinality(Started) + 1
      BY <3>1, <3>2, FS_AddElement DEF CountFits
    <3>4. ~EngineFree /\ ~EngineFree'
      BY <1>0, <2>1, <2>3 DEF EngineFree, TypeOK, Over
    <3>5. \A t \in EngineSessions : t # s => pc[t] \notin Live /\ pc'[t] = pc[t]
      BY <1>0, <2>1, <2>3 DEF CountFits, TypeOK, Live, Guarded
    <3>6. pc'[s] = "agent" /\ \A t \in EngineSessions : t # s => agent'[t] = agent[t]
      BY <1>0, <2>1, <2>3 DEF TypeOK
    <3> QED BY <2>1, <3>1, <3>3, <3>4, <3>5, <3>6 DEF CountFits, BeforeAgent, Live, Guarded
  <2> QED BY <2>2, <2>3
<1>5. CASE Crash
  <2>1. /\ pc' = [s \in Sessions |-> IF pc[s] \in Live THEN "lost" ELSE pc[s]]
        /\ run' = "failed" /\ crashes' = crashes + 1 /\ UNCHANGED <<attempts, saved, agent>>
    BY <1>5 DEF Crash
  <2>2. Started' = Started
    BY <2>1 DEF Started
  <2>3. EngineFree' /\ \A s \in EngineSessions : pc'[s] \notin Live \union BeforeAgent
    BY <1>0, <2>1 DEF EngineFree, TypeOK, Over, Live, Guarded, BeforeAgent
  <2>4. Cardinality(Started) <= saved + crashes + 1
    <3>1. Cardinality(Started) \in Nat
      BY FS_CardinalityType DEF CountFits
    <3> QED BY <3>1 DEF CountFits, TypeOK
  <2>5. \A s \in EngineSessions : pc'[s] = "idle" => agent[s] = "none"
    BY <1>0, <2>1 DEF CountFits
  <2>6. saved \in Nat /\ crashes \in Nat
    BY DEF TypeOK
  <2> QED BY <2>1, <2>2, <2>3, <2>4, <2>5, <2>6 DEF CountFits, BeforeAgent
<1>6. ASSUME NEW s \in Sessions, EngineReserves(s) PROVE CountFits'
  <2>1. pc[s] = "counted"
    BY <1>6 DEF EngineReserves
  <2>2. CASE MayReserve /\ s \in EngineSessions
    BY <1>6, <2>1, <2>2, CountMoves
    DEF EngineReserves, Goto, bounds, BeforeAgent, Live, Guarded
  <2>3. CASE ~MayReserve /\ s \in EngineSessions
    BY <1>6, <2>1, <2>3, CountEnds DEF EngineReserves, Finish, Goto, bounds, Live
  <2> QED BY <2>1, <2>2, <2>3 DEF OwnLabels, EngineLabels
<1>7. ASSUME NEW s \in Sessions, Prepare(s) \/ CaptureFails(s) \/ Judge(s) \/ EngineReleases(s)
      PROVE  CountFits'
  <2>1. CASE s \in EngineSessions
    BY <1>7, <2>1, CountMoves
    DEF Prepare, CaptureFails, Judge, EngineReleases, Goto, runVars, bounds, BeforeAgent, Live,
        Guarded
  <2>2. CASE s \notin EngineSessions
    BY <1>0, <1>7, <2>2, CountKept
    DEF Prepare, CaptureFails, Judge, EngineReleases, Goto, runVars, bounds, TypeOK
  <2> QED BY <2>1, <2>2
<1>8. ASSUME NEW s \in Sessions, EngineUnregisters(s) PROVE CountFits'
  BY <1>8, CountEnds DEF EngineUnregisters, OwnLabels, EngineLabels, Finish, Goto, bounds, Live
<1>9. ASSUME NEW s \in HttpSessions, PostChecks(s) PROVE CountFits'
  BY <1>0, <1>9, CountKept DEF PostChecks, Goto, HttpSessions, runVars, bounds, TypeOK
<1>10. ASSUME NEW s \in Sessions, PostReserves(s) \/ PostInserts(s) \/ WorkerStarts(s)
                                 \/ WorkerClears(s) \/ WorkerEnds(s)
       PROVE  CountFits'
  <2>1. s \notin EngineSessions
    BY <1>10
    DEF PostReserves, PostInserts, WorkerStarts, WorkerClears, WorkerEnds, OwnLabels, HttpLabels,
        HttpSessions
  <2> QED
    BY <1>0, <1>10, <2>1, CountKept
    DEF PostReserves, PostInserts, WorkerStarts, WorkerClears, WorkerEnds, Finish, Goto,
        runVars, bounds, TypeOK
<1>11. ASSUME NEW s \in Sessions, CancelKills(s) \/ CancelMarks(s) \/ AgentExits(s)
                                 \/ AgentEdits(s) \/ AgentCommits(s) \/ PostRollback(s)
       PROVE  CountFits'
  BY <1>0, <1>11, CountKept
  DEF CancelKills, Killable, CancelMarks, AgentExits, AgentEdits, AgentCommits, PostRollback,
      runVars, bounds, TypeOK
<1>12. CASE RunThreadEnds \/ OperatorChanges \/ UNCHANGED vars
  BY <1>12, CountKept DEF RunThreadEnds, OperatorChanges, vars, runVars, bounds
<1> QED
  BY <1>1, <1>2, <1>3, <1>4, <1>5, <1>6, <1>7, <1>8, <1>9, <1>10, <1>11, <1>12
  DEF Next, SessionStep, HttpSessions

(* Over any number of resumes the engine starts no more agents for a       *)
(* failing stage than max_attempts_per_stage, and one more for each crash  *)
(* of the server: a session's count is saved when it ends and not before.  *)
THEOREM AttemptsAreBounded == Spec => []AttemptsBounded
<1>1. TypeOK /\ CountFits => AttemptsBounded
  <2> SUFFICES ASSUME TypeOK, CountFits PROVE AttemptsBounded
    OBVIOUS
  <2>1. Cardinality(Started) \in Nat
    BY FS_CardinalityType DEF CountFits
  <2>2. Cardinality(Started) <= MaxAttempts + crashes
    BY <2>1, TroubleshootAssumption DEF CountFits, TypeOK
  <2> QED BY <2>2 DEF AttemptsBounded, Started
<1>2. Init => TypeOK /\ OwnLabels /\ CountFits
  BY TypeInit, CountInit DEF Init, OwnLabels, EngineLabels, HttpLabels
<1>3. TypeOK /\ OwnLabels /\ CountFits /\ [Next]_vars => (TypeOK /\ OwnLabels /\ CountFits)'
  BY TypeStep, OwnLabelsStep, CountStep
<1> QED BY <1>1, <1>2, <1>3, PTL DEF Spec

-----------------------------------------------------------------------------
(***************************************************************************)
(* Guard, sessions and agents implement RepairSlot. The mapping needs that *)
(* a session has no agent before it starts one, and no verdict before it   *)
(* judges.                                                                 *)
(***************************************************************************)
NoAgentYet == {"idle", "checked", "counted", "reserved", "spawned", "ready", "armed"}
Judged == {"judged", "released", "cleared"}
SlotInv ==
  \A s \in Sessions :
    /\ pc[s] \in NoAgentYet => agent[s] = "none"
    /\ verdict[s] # "none" => pc[s] \in Judged

LEMMA SlotInvStep == ASSUME TypeOK, SlotInv, [Next]_vars PROVE SlotInv'
<1> USE DEF TypeOK, SlotInv, NoAgentYet, Judged, Goto
<1>1. ASSUME NEW s \in EngineSessions, StageFails(s) PROVE SlotInv'
  BY <1>1, TroubleshootAssumption DEF StageFails, Finish
<1>2. CASE RunFails \/ RunThreadEnds \/ Rerun \/ OperatorChanges
  BY <1>2 DEF RunFails, RunThreadEnds, Rerun, OperatorChanges
<1>3. ASSUME NEW s \in HttpSessions, PostChecks(s) PROVE SlotInv'
  BY <1>3 DEF PostChecks, HttpSessions
<1>4. ASSUME NEW s \in Sessions, PostReserves(s) \/ PostInserts(s) \/ WorkerStarts(s)
      PROVE  SlotInv'
  BY <1>4 DEF PostReserves, PostInserts, WorkerStarts
<1>5. ASSUME NEW s \in Sessions, EngineReserves(s) PROVE SlotInv'
  BY <1>5 DEF EngineReserves, Finish
<1>6. ASSUME NEW s \in Sessions, Prepare(s) \/ CaptureFails(s) \/ StartAgent(s) PROVE SlotInv'
  BY <1>6 DEF Prepare, CaptureFails, StartAgent
<1>7. ASSUME NEW s \in Sessions, Judge(s) PROVE SlotInv'
  BY <1>7 DEF Judge
<1>8. ASSUME NEW s \in Sessions, EngineReleases(s) \/ WorkerClears(s) PROVE SlotInv'
  BY <1>8 DEF EngineReleases, WorkerClears
<1>9. ASSUME NEW s \in Sessions, EngineUnregisters(s) \/ WorkerEnds(s) PROVE SlotInv'
  BY <1>9 DEF EngineUnregisters, WorkerEnds, Finish
<1>10. ASSUME NEW s \in Sessions, CancelKills(s) PROVE SlotInv'
  BY <1>10 DEF CancelKills, Killable
<1>11. ASSUME NEW s \in Sessions, CancelMarks(s) \/ PostRollback(s) PROVE SlotInv'
  BY <1>11 DEF CancelMarks, PostRollback
<1>12. ASSUME NEW s \in Sessions, AgentEdits(s) \/ AgentCommits(s) \/ AgentExits(s)
       PROVE  SlotInv'
  BY <1>12 DEF AgentEdits, AgentCommits, AgentExits
<1>13. CASE Crash
  BY <1>13 DEF Crash, Live, Guarded
<1>14. CASE UNCHANGED vars
  BY <1>14 DEF vars
<1> QED
  BY <1>1, <1>2, <1>3, <1>4, <1>5, <1>6, <1>7, <1>8, <1>9, <1>10, <1>11, <1>12, <1>13, <1>14
  DEF Next, SessionStep

SlotStep == [Slot!Next]_(Slot!vars)
SlotFit == TypeOK /\ Awaited /\ SlotInv

LEMMA SlotInit == Init => Slot!Init
<1> SUFFICES ASSUME Init PROVE Slot!Init
  OBVIOUS
<1>1. Fates = [s \in Sessions |-> "waits"] /\ Agents = [s \in Sessions |-> "none"]
  BY DEF Init, Fates, FateAt, Agents
<1> QED BY <1>1 DEF Init, Slot!Init

(* A session goes on: its fate follows, and its agent is not lost.         *)
LEMMA Goes ==
  ASSUME TypeOK, NEW s \in Sessions, NEW label, label # "lost", pc[s] # "lost",
         Goto(s, label), agent' = agent
  PROVE  Agents' = Agents /\ Fates' = [Fates EXCEPT ![s] = FateAt(label)]
<1>1. pc'[s] = label /\ \A t \in Sessions : t # s => pc'[t] = pc[t]
  BY DEF TypeOK, Goto
<1>2. Agents' = Agents
  BY <1>1 DEF Agents
<1>3. Fates' = [Fates EXCEPT ![s] = FateAt(label)]
  BY <1>1 DEF Fates
<1> QED BY <1>2, <1>3

LEMMA Stays ==
  ASSUME TypeOK, NEW s \in Sessions, NEW label, label # "lost", pc[s] # "lost",
         Goto(s, label), FateAt(label) = FateAt(pc[s]), UNCHANGED <<guard, agent, verdict>>
  PROVE  SlotStep
<1>1. Fates[s] = FateAt(pc[s]) /\ Fates = [t \in Sessions |-> FateAt(pc[t])]
  BY DEF Fates
<1>2. Agents' = Agents /\ Fates' = Fates
  BY <1>1, Goes
<1> QED BY <1>2 DEF SlotStep, Slot!vars

LEMMA Idles ==
  ASSUME UNCHANGED <<pc, guard, agent, verdict>>
  PROVE  SlotStep
BY DEF SlotStep, Slot!vars, Fates, Agents

LEMMA Refused ==
  ASSUME TypeOK, NEW s \in Sessions, FateAt(pc[s]) = "waits", pc[s] # "lost",
         Goto(s, "done"), UNCHANGED <<guard, agent, verdict>>
  PROVE  SlotStep
<1>1. Fates[s] = "waits" /\ FateAt("done") = "over"
  BY DEF Fates, FateAt, Guarded
<1>2. Agents' = Agents /\ Fates' = [Fates EXCEPT ![s] = "over"]
  BY <1>1, Goes
<1>3. Slot!Refuse(s)
  BY <1>1, <1>2 DEF Slot!Refuse
<1> QED BY <1>3 DEF SlotStep, Slot!Next

LEMMA Admitted ==
  ASSUME TypeOK, NEW s \in Sessions, NEW label \in Guarded, FateAt(pc[s]) = "waits",
         pc[s] # "lost", Goto(s, label), guard = NoSession, guard' = s,
         UNCHANGED <<agent, verdict>>
  PROVE  SlotStep
<1>1. Fates[s] = "waits" /\ FateAt(label) = "works" /\ label # "lost"
  BY DEF Fates, FateAt, Guarded
<1>2. Agents' = Agents /\ Fates' = [Fates EXCEPT ![s] = "works"]
  BY <1>1, Goes
<1>3. Slot!Admit(s)
  BY <1>1, <1>2 DEF Slot!Admit
<1> QED BY <1>3 DEF SlotStep, Slot!Next

LEMMA Leaves ==
  ASSUME SlotFit, NEW s \in Sessions, pc[s] \in Guarded \ {"agent"}, NEW label,
         label \in {"done", "released"}, Goto(s, label), guard' = Freed(s), agent' = agent,
         verdict' \in {verdict, [verdict EXCEPT ![s] = "none"]}
  PROVE  SlotStep
<1>1. FateAt(label) = "over" /\ label # "lost" /\ pc[s] # "lost" /\ guard = s
  BY DEF FateAt, Guarded, SlotFit, TypeOK
<1>2. Agents[s] # "alive"
  BY <1>1 DEF Agents, SlotFit, Awaited
<1>3. Agents' = Agents /\ Fates' = [Fates EXCEPT ![s] = "over"]
  BY <1>1, Goes DEF SlotFit
<1>4. Slot!Leave(s)
  BY <1>1, <1>2, <1>3 DEF Slot!Leave, Freed
<1> QED BY <1>4 DEF SlotStep, Slot!Next

LEMMA Judges ==
  ASSUME SlotFit, NEW s \in Sessions, pc[s] \in Guarded, NEW v \in Verdicts,
         v \in {"Escalated", "Skipped"} \/ agent[s] = "dead", pc[s] # "agent" \/ agent[s] = "dead",
         Goto(s, "judged"), verdict' = [verdict EXCEPT ![s] = v], UNCHANGED <<guard, agent>>
  PROVE  SlotStep
<1>1. FateAt("judged") = FateAt(pc[s]) /\ pc[s] # "lost" /\ guard = s
  BY DEF FateAt, Guarded, SlotFit, TypeOK
<1>2. Agents[s] = agent[s] /\ agent[s] # "alive"
  BY <1>1 DEF Agents, SlotFit, Awaited
<1>3. Fates[s] = FateAt(pc[s]) /\ Fates = [t \in Sessions |-> FateAt(pc[t])]
  BY DEF Fates
<1>4. Agents' = Agents /\ Fates' = Fates
  BY <1>1, <1>3, Goes DEF SlotFit
<1>5. Slot!Judge(s, v)
  BY <1>1, <1>2, <1>4 DEF Slot!Judge
<1> QED BY <1>5 DEF SlotStep, Slot!Next

LEMMA AgentStarts ==
  ASSUME SlotFit, NEW s \in Sessions, StartAgent(s)
  PROVE  SlotStep
<1>1. /\ pc[s] = "armed" /\ agent[s] = "none" /\ guard = s
      /\ pc'[s] = "agent" /\ \A t \in Sessions : t # s => pc'[t] = pc[t]
  BY DEF StartAgent, Goto, SlotFit, SlotInv, NoAgentYet, TypeOK, Guarded
<1>2. Fates' = Fates
  BY <1>1 DEF Fates, FateAt, Guarded
<1>3. Agents[s] = "none"
  BY <1>1 DEF Agents
<1>4. agent'[s] = "alive" /\ \A t \in Sessions : t # s => agent'[t] = agent[t]
  BY DEF StartAgent, SlotFit, TypeOK
<1>5. Agents' = [Agents EXCEPT ![s] = "alive"]
  BY <1>1, <1>4 DEF Agents
<1>6. Slot!StartAgent(s)
  BY <1>1, <1>2, <1>3, <1>5 DEF Slot!StartAgent, StartAgent
<1> QED BY <1>6 DEF SlotStep, Slot!Next

LEMMA AgentEnds ==
  ASSUME SlotFit, NEW s \in Sessions, agent[s] = "alive", agent' = [agent EXCEPT ![s] = "dead"],
         UNCHANGED <<pc, guard, verdict>>
  PROVE  SlotStep
<1>1. agent'[s] = "dead" /\ \A t \in Sessions : t # s => agent'[t] = agent[t]
  BY DEF SlotFit, TypeOK
<1>2. Agents[s] \in {"alive", "orphan"}
  BY DEF Agents
<1>3. Fates' = Fates /\ Agents' = [Agents EXCEPT ![s] = "dead"]
  BY <1>1 DEF Fates, Agents
<1>4. Slot!EndAgent(s)
  BY <1>2, <1>3 DEF Slot!EndAgent
<1> QED BY <1>4 DEF SlotStep, Slot!Next

LEMMA ServerLost ==
  ASSUME SlotFit, Crash
  PROVE  SlotStep
<1> DEFINE begun == {s \in Sessions : pc[s] \in {"checked", "counted"}}
<1>1. \A s \in Sessions : pc'[s] = IF pc[s] \in Live THEN "lost" ELSE pc[s]
  BY DEF Crash
<1>2. \A s \in Sessions : s = guard <=> pc[s] \in Guarded
  BY DEF SlotFit, TypeOK
<1>3. \A s \in begun : Fates[s] = "waits"
  BY DEF Fates, FateAt
<1>4. \A s \in Sessions :
        FateAt(pc'[s]) = IF s \in begun \/ s = guard THEN "over" ELSE FateAt(pc[s])
  BY <1>1, <1>2 DEF FateAt, Live, Guarded
<1>5. Fates' = [s \in Sessions |-> IF s \in begun \/ s = guard THEN "over" ELSE Fates[s]]
  BY <1>4 DEF Fates
<1>6. \A s \in Sessions : agent[s] = "alive" => pc'[s] = "lost"
  BY <1>1 DEF SlotFit, Awaited, Live, Guarded
<1>7. Agents' = [s \in Sessions |-> IF Agents[s] = "alive" THEN "orphan" ELSE Agents[s]]
  <2>1. agent' = agent
    BY DEF Crash
  <2>2. \A s \in Sessions : Agents[s] = "alive" \/ Agents[s] = "orphan" <=> agent[s] = "alive"
    BY DEF Agents, SlotFit, TypeOK
  <2>3. \A s \in Sessions : Agents'[s] = IF Agents[s] = "alive" THEN "orphan" ELSE Agents[s]
    BY <1>6, <2>1, <2>2 DEF Agents
  <2> QED BY <2>3 DEF Agents
<1>8. Slot!Crash(begun)
  BY <1>3, <1>5, <1>7 DEF Slot!Crash, Crash
<1> QED BY <1>8 DEF SlotStep, Slot!Next

LEMMA RequestSteps ==
  ASSUME SlotFit, NEW s \in Sessions,
         \/ s \in EngineSessions /\ StageFails(s)
         \/ s \in HttpSessions /\ PostChecks(s)
         \/ PostReserves(s) \/ PostInserts(s) \/ WorkerStarts(s) \/ EngineReserves(s)
  PROVE  SlotStep
<1>1. TypeOK /\ (verdict = [verdict EXCEPT ![s] = "none"] \/ pc[s] \in Judged)
  BY DEF SlotFit, SlotInv, TypeOK
<1>2. CASE StageFails(s)
  <2>1. pc[s] = "idle" /\ UNCHANGED <<guard, agent>> /\ FateAt("idle") = "waits"
        /\ FateAt("counted") = "waits"
    BY <1>2 DEF StageFails, FateAt
  <2>2. \/ Goto(s, "counted") /\ UNCHANGED verdict
        \/ Goto(s, "done") /\ verdict' = [verdict EXCEPT ![s] = "none"]
    BY <1>2 DEF StageFails, Finish
  <2> QED BY <1>1, <2>1, <2>2, Stays, Refused DEF Judged, SlotFit
<1>3. CASE PostChecks(s)
  <2>1. pc[s] = "idle" /\ UNCHANGED <<guard, agent, verdict>> /\ FateAt("idle") = "waits"
        /\ FateAt("checked") = "waits" /\ (Goto(s, "checked") \/ Goto(s, "done"))
    BY <1>3 DEF PostChecks, FateAt
  <2> QED BY <2>1, Stays, Refused DEF SlotFit
<1>4. CASE PostReserves(s)
  <2>1. pc[s] = "checked" /\ UNCHANGED <<agent, verdict>> /\ FateAt("checked") = "waits"
        /\ \/ guard = NoSession /\ guard' = s /\ Goto(s, "reserved")
           \/ UNCHANGED guard /\ Goto(s, "done")
    BY <1>4 DEF PostReserves, MayReserve, FateAt
  <2> QED BY <2>1, Admitted, Refused DEF SlotFit, Guarded
<1>5. CASE PostInserts(s)
  <2>1. pc[s] = "reserved" /\ UNCHANGED <<agent, verdict>>
        /\ \/ guard' = Freed(s) /\ Goto(s, "done")
           \/ UNCHANGED guard /\ Goto(s, "spawned")
    BY <1>5 DEF PostInserts
  <2>2. FateAt("reserved") = "works" /\ FateAt("spawned") = "works"
    BY DEF FateAt, Guarded
  <2> QED BY <2>1, <2>2, Leaves, Stays DEF SlotFit, Guarded
<1>6. CASE WorkerStarts(s)
  <2>1. pc[s] = "spawned" /\ UNCHANGED <<guard, agent>>
        /\ \/ Goto(s, "judged") /\ UNCHANGED verdict
           \/ Goto(s, "judged") /\ verdict' = [verdict EXCEPT ![s] = "Escalated"]
           \/ Goto(s, "ready") /\ UNCHANGED verdict
    BY <1>6 DEF WorkerStarts
  <2>2. FateAt("spawned") = "works" /\ FateAt("judged") = "works" /\ FateAt("ready") = "works"
    BY DEF FateAt, Guarded
  <2>3. "Escalated" \in Verdicts
    BY DEF Verdicts
  <2> QED BY <2>1, <2>2, <2>3, Judges, Stays DEF SlotFit, Guarded
<1>7. CASE EngineReserves(s)
  <2>1. pc[s] = "counted" /\ UNCHANGED agent /\ FateAt("counted") = "waits"
        /\ \/ guard = NoSession /\ guard' = s /\ Goto(s, "ready") /\ UNCHANGED verdict
           \/ UNCHANGED guard /\ Goto(s, "done") /\ verdict' = [verdict EXCEPT ![s] = "none"]
    BY <1>7 DEF EngineReserves, MayReserve, Finish, FateAt
  <2> QED BY <1>1, <2>1, Admitted, Refused DEF SlotFit, Guarded, Judged
<1> QED BY <1>2, <1>3, <1>4, <1>5, <1>6, <1>7

LEMMA SessionSteps ==
  ASSUME SlotFit, NEW s \in Sessions,
         \/ Prepare(s) \/ CaptureFails(s) \/ Judge(s) \/ EngineReleases(s)
         \/ EngineUnregisters(s) \/ WorkerClears(s) \/ WorkerEnds(s)
  PROVE  SlotStep
<1>1. CASE Prepare(s)
  <2>1. pc[s] = "ready" /\ Goto(s, "armed") /\ UNCHANGED <<guard, agent, verdict>>
    BY <1>1 DEF Prepare
  <2>2. FateAt("ready") = "works" /\ FateAt("armed") = "works"
    BY DEF FateAt, Guarded
  <2> QED BY <2>1, <2>2, Stays DEF SlotFit
<1>2. CASE CaptureFails(s)
  <2>1. /\ pc[s] = "ready" /\ Goto(s, "judged") /\ UNCHANGED <<guard, agent>>
        /\ verdict' = [verdict EXCEPT ![s] = "Skipped"]
    BY <1>2 DEF CaptureFails
  <2>2. "ready" \in Guarded /\ "Skipped" \in Verdicts
    BY DEF Guarded, Verdicts
  <2> QED BY <2>1, <2>2, Judges
<1>3. CASE Judge(s)
  <2>1. PICK r \in AgentResults : verdict' = [verdict EXCEPT ![s] = Verdict(s, r)]
    BY <1>3 DEF Judge
  <2>2. Verdict(s, r) \in Verdicts
    BY DEF Verdict, Ended, Verdicts
  <2>3. /\ pc[s] = "agent" /\ agent[s] = "dead" /\ Goto(s, "judged")
        /\ UNCHANGED <<guard, agent>>
    BY <1>3 DEF Judge
  <2> HIDE DEF Verdict
  <2> QED BY <2>1, <2>2, <2>3, Judges DEF Guarded
<1>4. CASE EngineReleases(s)
  <2>1. /\ pc[s] = "judged" /\ Goto(s, "released") /\ guard' = Freed(s)
        /\ UNCHANGED <<agent, verdict>>
    BY <1>4 DEF EngineReleases
  <2> QED BY <2>1, Leaves DEF Guarded
<1>5. CASE EngineUnregisters(s)
  <2>1. /\ pc[s] = "released" /\ Goto(s, "done") /\ UNCHANGED <<guard, agent>>
        /\ verdict' = [verdict EXCEPT ![s] = "none"]
    BY <1>5 DEF EngineUnregisters, Finish
  <2>2. Fates[s] = "over" /\ FateAt("done") = "over" /\ Fates = [t \in Sessions |-> FateAt(pc[t])]
    BY <2>1 DEF Fates, FateAt, Guarded
  <2>3. Agents' = Agents /\ Fates' = Fates
    BY <2>1, <2>2, Goes DEF SlotFit
  <2>4. Slot!Report(s)
    BY <2>1, <2>2, <2>3 DEF Slot!Report
  <2> QED BY <2>4 DEF SlotStep, Slot!Next
<1>6. CASE WorkerClears(s)
  <2>1. pc[s] = "judged" /\ Goto(s, "cleared") /\ UNCHANGED <<guard, agent, verdict>>
    BY <1>6 DEF WorkerClears
  <2>2. FateAt("judged") = "works" /\ FateAt("cleared") = "works"
    BY DEF FateAt, Guarded
  <2> QED BY <2>1, <2>2, Stays DEF SlotFit
<1>7. CASE WorkerEnds(s)
  <2>1. /\ pc[s] = "cleared" /\ Goto(s, "done") /\ guard' = Freed(s) /\ UNCHANGED agent
        /\ verdict' = [verdict EXCEPT ![s] = "none"]
    BY <1>7 DEF WorkerEnds, Finish
  <2> QED BY <2>1, Leaves DEF Guarded
<1> QED BY <1>1, <1>2, <1>3, <1>4, <1>5, <1>6, <1>7

LEMMA SlotSteps == SlotFit /\ [Next]_vars => SlotStep
<1> SUFFICES ASSUME SlotFit, [Next]_vars PROVE SlotStep
  OBVIOUS
<1>1. CASE RunFails \/ RunThreadEnds \/ Rerun \/ OperatorChanges
  BY <1>1, Idles DEF RunFails, RunThreadEnds, Rerun, OperatorChanges
<1>2. ASSUME NEW s \in Sessions,
             CancelMarks(s) \/ PostRollback(s) \/ AgentEdits(s) \/ AgentCommits(s)
      PROVE  SlotStep
  BY <1>2, Idles DEF CancelMarks, PostRollback, AgentEdits, AgentCommits
<1>3. ASSUME NEW s \in Sessions, CancelKills(s) PROVE SlotStep
  <2>1. /\ UNCHANGED <<pc, guard, verdict>>
        /\ agent' = [agent EXCEPT ![s] = IF Killable(s) THEN "dead" ELSE @]
    BY <1>3 DEF CancelKills
  <2>2. CASE Killable(s)
    BY <2>1, <2>2, AgentEnds DEF Killable
  <2>3. CASE ~Killable(s)
    BY <2>1, <2>3, Idles DEF SlotFit, TypeOK
  <2> QED BY <2>2, <2>3
<1>4. ASSUME NEW s \in Sessions, AgentExits(s) PROVE SlotStep
  BY <1>4, AgentEnds DEF AgentExits
<1>5. CASE UNCHANGED vars
  BY <1>5, Idles DEF vars
<1> QED
  BY <1>1, <1>2, <1>3, <1>4, <1>5, AgentStarts, ServerLost, RequestSteps, SessionSteps,
     TroubleshootAssumption DEF Next, SessionStep, HttpSessions

(* The server implements RepairSlot: over any sessions, cancels, resumes   *)
(* and crashes one session at a time has the run, each starts one agent at *)
(* most, and none judges or leaves while its agent is alive.               *)
THEOREM ServerImplementsSlot == Spec => ImplementsSlot
<1>1. Init => SlotInv
  BY DEF Init, SlotInv, NoAgentYet
<1>2. TypeOK /\ SlotInv /\ [Next]_vars => SlotInv'
  BY SlotInvStep
<1>3. TypeOK /\ Awaited /\ SlotInv /\ [Next]_vars => SlotStep
  BY SlotSteps DEF SlotFit
<1> QED BY <1>1, <1>2, <1>3, SlotInit, SessionsFit, PTL
        DEF Spec, ImplementsSlot, Slot!Spec, SlotStep
-----------------------------------------------------------------------------
(* needle troubleshoot, for every stage that failed: Diagnosis.            *)
Stage == INSTANCE Diagnosis

(* What is read of a stage is what its facts say.                          *)
LEMMA SignalsRead ==
  ASSUME NEW facts, NEW prompt
  PROVE  LET s == Stage!Signals(facts, prompt) IN
         /\ s.status \subseteq facts /\ s.added = s.status \intersect {"commit", "earlier commit"}
         /\ s.own \subseteq s.added
         /\ s.words \subseteq Stage!Strip(prompt, TRUE)
BY DEF Stage!Signals

(* A kind is named only by what makes it so, a timeout of either sort by   *)
(* itself.                                                                 *)
LEMMA KindsHaveReasons ==
  ASSUME NEW s
  PROVE  LET k == Stage!Kind(s) IN
         /\ k = "role_prompt_conflict" =>
              s.words \intersect Stage!Roles # {} /\ s.words \intersect Stage!Tasks # {}
         /\ "wall_clock" \in s.status \/ "idle" \in s.status =>
              k \notin {"variable_corrupted", "unknown"}
         /\ "FAILURE" \in s.status => k # "unknown"
         /\ k = "idle_stall_with_committed_work" => s.added # {}
         /\ k = "idle_stall_with_uncommitted_work" => "uncommitted" \in s.status
         /\ "mark" \in Stage!Proposed(k) =>
              k \in {"idle_stall_with_committed_work", "idle_stall_with_uncommitted_work"}
         /\ Stage!Proposed(k) \intersect {"mark", "retry", "escalate"} # {}
<1>1. CASE Stage!Kind(s) = Stage!Idle(s)
  BY <1>1 DEF Stage!Kind, Stage!Idle, Stage!Proposed
<1>2. CASE Stage!Kind(s) # Stage!Idle(s)
  BY <1>2 DEF Stage!Kind, Stage!Idle, Stage!Proposed
<1> QED BY <1>1, <1>2

(* Diagnosis, for any facts and prompt: roles and tasks that clash are     *)
(* named only if the prompt says both, outside fences and quotes; what     *)
(* timed out is not blamed on a reference; a stage is proposed to be       *)
(* marked as done only if it left work, and some way on is proposed        *)
(* always (classify_primary and render_proposed_actions of diagnose.cpp).  *)
THEOREM DiagnosesFounded ==
  ASSUME NEW facts, NEW prompt
  PROVE  Stage!FactsDecide(facts, prompt)
<1> DEFINE s == Stage!Signals(facts, prompt)
<1>1. s.words \subseteq Stage!Strip(prompt, TRUE)
  BY SignalsRead
<1> HIDE DEF s
<1> QED BY <1>1, KindsHaveReasons DEF Stage!FactsDecide, s

(* Every branch of a fork that collect_report blames is given a reason.    *)
THEOREM BranchesBlamedForReasons ==
  ASSUME NEW completed, NEW branches, NEW stages
  PROVE  Stage!BlameHasReasons(completed, branches, stages)
BY KindsHaveReasons DEF Stage!BlameHasReasons, Stage!Blamed
=============================================================================
