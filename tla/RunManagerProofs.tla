---------------------------- MODULE RunManagerProofs ----------------------------
(***************************************************************************)
(* What holds of the server's runs for any number of runs, ids, worker     *)
(* threads and stages, and a crash, a stop or a start at any moment.       *)
(***************************************************************************)
EXTENDS RunManager, FiniteSetTheorems, TLAPS

Engaged == InEngine \union {"settled", "published"}
Making == {"persist", "launch"}
Bound == Making \union {"replace_join", "insert"}

(* An id is in the registry only for a run of it.                          *)
KnownIds == \A i \in Ids : registry[i] # "absent" => \E r \in Runs : IdOf[r] = i
TypeInv == TypeOK /\ KnownIds

(* What the place of a run's thread says of its object.                    *)
ThreadInv == \A r \in Runs :
  /\ thread[r] # "none" => status[r] # "absent"
  /\ thread[r] \in {"settled", "published"} => verdict[r] \in Final
  /\ thread[r] = "published" => status[r] # "running"
  /\ thread[r] = "paused" => stages[r] < MaxStages
  /\ thread[r] \in Engaged => r \in joinable

(* A handler that makes a run has an object to itself, with no thread yet. *)
HandlerInv == \A h \in Handlers :
  /\ handler[h].pc \in Bound => handler[h].run \in Runs /\ thread[handler[h].run] = "none"
  /\ handler[h].pc \in Making => status[handler[h].run] # "absent"
  /\ handler[h].pc \in {"cancel_persist", "cancel_wake"} => handler[h].old \in Runs
  /\ \A g \in Handlers : handler[g].run = handler[h].run /\ handler[g].run # NoRun => g = h

(* Nothing of a server that is down is left.                               *)
DownInv ==
  server = "down" =>
    /\ \A r \in Runs : thread[r] = "none"
    /\ \A h \in Handlers : handler[h] = Waiting
    /\ active = 0

(* active_runs_ counts the runs between their insertion and their end.     *)
Busy == {r \in Runs : BeingCreated(r) \/ Alive(r)}
CountInv == active = Cardinality(Busy)

Inv == TypeInv /\ ThreadInv /\ HandlerInv /\ DownInv /\ CountInv /\ RunningIsAlive

-----------------------------------------------------------------------------
(* Where a handler can be, and what it holds there.                        *)
LEMMA WaitingType ==
  /\ Waiting \in HandlerStates /\ Waiting.pc = "waiting" /\ Waiting.run = NoRun
  /\ \A p \in HandlerSteps, r \in Runs \union {NoRun} :
       LET w == [Waiting EXCEPT !.pc = p, !.run = r]
       IN w \in HandlerStates /\ w.pc = p /\ w.run = r
BY DEF Waiting, HandlerStates, HandlerSteps

LEMMA HandlerType ==
  ASSUME NEW w \in HandlerStates
  PROVE  /\ w.pc \in HandlerSteps /\ w.run \in Runs \union {NoRun}
         /\ w.old \in Runs \union {NoRun} /\ w.oldId \in Ids \union {NoRun}
         /\ \A p \in HandlerSteps :
              LET v == [w EXCEPT !.pc = p]
              IN v \in HandlerStates /\ v.pc = p /\ v.run = w.run
BY DEF HandlerStates

LEMMA HoldingType ==
  ASSUME NEW p \in HandlerSteps, NEW r \in Runs \union {NoRun},
    NEW o \in Runs \union {NoRun},
         NEW i \in Ids \union {NoRun}
  PROVE  LET w == [pc |-> p, run |-> r, old |-> o, oldId |-> i]
         IN w \in HandlerStates /\ w.pc = p /\ w.run = r
BY DEF HandlerStates

LEMMA BusyIsFinite == IsFiniteSet(Busy) /\ Cardinality(Busy) \in Nat
BY RunAssumption, FS_Subset, FS_CardinalityType DEF Busy

LEMMA MemoryLostTypes ==
  ASSUME TypeInv, MemoryLost, UNCHANGED <<registry, bounds>>
  PROVE  TypeInv'
<1>1. handler' \in [Handlers -> HandlerStates]
  BY WaitingType DEF MemoryLost
<1>2. /\ server' = "down" /\ paused' \in BOOLEAN /\ active' \in Nat
      /\ joinable' \subseteq Runs /\ woken' \subseteq Runs /\ asked' \subseteq Runs
      /\ registry' = registry /\ boots' = boots /\ requests' = requests
  BY DEF MemoryLost, bounds
<1>3. runs' \in [Ids -> Runs \union {NoRun}] /\ \A i \in Ids : runs'[i] = NoRun
  BY DEF MemoryLost, NoRuns
<1>4. /\ status' \in [Runs -> Final \union {"running", "absent"}]
      /\ verdict' \in [Runs -> Final \union {"absent"}]
      /\ flag' \in [Runs -> BOOLEAN] /\ thread' \in [Runs -> ThreadStates]
      /\ stages' \in [Runs -> 0..MaxStages]
  BY RunAssumption DEF MemoryLost, Absent, ThreadStates
<1> QED BY <1>1, <1>2, <1>3, <1>4 DEF TypeInv, TypeOK, KnownIds

LEMMA TypeStep == Inv /\ [Next]_vars => TypeInv'
<1> SUFFICES ASSUME Inv, [Next]_vars PROVE TypeInv'
  OBVIOUS
<1> USE RunAssumption DEF Inv, TypeInv, TypeOK, KnownIds, Final, ThreadStates, InEngine,
      StageKinds
<1>1. CASE Boot
  BY <1>1 DEF Boot, Reclassified, object, bounds, engine
<1>2. CASE Crash
  BY <1>2, MemoryLostTypes DEF Crash, bounds
<1>3. CASE StopBegin
  BY <1>3 DEF StopBegin, object, bounds, engine
<1>4. CASE StopCancelRuns
  BY <1>4 DEF StopCancelRuns, Notified, Asked, Listed, object, bounds, engine
<1>5. CASE StopHttp
  BY <1>5 DEF StopHttp, object, bounds, engine
<1>6. CASE StopJoin
  BY <1>6, MemoryLostTypes DEF StopJoin, bounds
<1>7. CASE Pause
  BY <1>7 DEF Pause, Accepting, Counted, object, bounds, engine
<1>8. CASE Unpause
  BY <1>8 DEF Unpause, Accepting, object, bounds, engine
<1>9. ASSUME NEW h \in Handlers, PersistNew(h) PROVE TypeInv'
  <2>1. handler[h].run \in Runs
    BY <1>9 DEF PersistNew, HandlerInv, Bound, Making
  <2>2. handler' \in [Handlers -> HandlerStates]
    BY <1>9, HandlerType DEF PersistNew, HandlerSteps
  <2>3. registry' \in [Ids -> Final \union {"running", "absent"}] /\ KnownIds'
    BY <1>9, <2>1 DEF PersistNew
  <2> QED
    BY <1>9, <2>2, <2>3 DEF PersistNew, object, bounds, engine
<1>10. ASSUME NEW h \in Handlers, Launch(h) PROVE TypeInv'
  <2>1. handler[h].run \in Runs
    BY <1>10 DEF Launch, HandlerInv, Bound, Making
  <2>2. handler' \in [Handlers -> HandlerStates]
    BY <1>10, WaitingType DEF Launch
  <2> QED
    BY <1>10, <2>1, <2>2 DEF Launch, object, bounds, engine
<1>11. ASSUME NEW h \in Handlers, Replaced(h) PROVE TypeInv'
  <2>1. handler[h].run \in Runs
    BY <1>11 DEF Replaced, HandlerInv, Bound, Making
  <2>2. handler' = [handler EXCEPT ![h] = [Waiting EXCEPT !.pc = "insert",
    !.run = handler[h].run]]
    BY <1>11 DEF Replaced, ForgetOld
  <2>3. handler' \in [Handlers -> HandlerStates]
    BY <1>11, <2>1, <2>2, WaitingType DEF HandlerSteps
  <2> QED
    BY <1>11, <2>3 DEF Replaced, ForgetOld, object, bounds, engine
<1>12. ASSUME NEW h \in Handlers, InsertReplacement(h) PROVE TypeInv'
  <2>1. handler[h].run \in Runs
    BY <1>12 DEF InsertReplacement, HandlerInv, Bound, Making
  <2>2. handler' \in [Handlers -> HandlerStates]
    BY <1>12, <2>1, WaitingType DEF InsertReplacement, Insert, HandlerSteps
  <2> QED
    BY <1>12, <2>1, <2>2 DEF InsertReplacement, Insert, object, bounds, engine
<1>13. ASSUME NEW h \in Handlers, Deleted(h) PROVE TypeInv'
  <2>1. handler' \in [Handlers -> HandlerStates]
    BY <1>13, WaitingType, HandlerType DEF Deleted, ForgetOld, HandlerSteps
  <2> QED
    BY <1>13, <2>1 DEF Deleted, ForgetOld, object, bounds, engine
<1>14. ASSUME NEW h \in Handlers, CancelPersist(h) PROVE TypeInv'
  <2>1. handler' \in [Handlers -> HandlerStates]
    BY <1>14, HandlerType DEF CancelPersist, HandlerSteps
  <2> QED
    BY <1>14, <2>1 DEF CancelPersist, object, bounds, engine
<1>15. ASSUME NEW h \in Handlers, CancelWake(h) PROVE TypeInv'
  <2>1. handler' \in [Handlers -> HandlerStates]
    BY <1>15, WaitingType DEF CancelWake
  <2>2. woken' \subseteq Runs
    BY <1>15 DEF CancelWake, Notified, HandlerInv
  <2> QED
    BY <1>15, <2>1, <2>2 DEF CancelWake, object, bounds, engine
<1>16. ASSUME NEW h \in Handlers, NEW r \in Runs, PostRun(h, r) PROVE TypeInv'
  <2>1. handler' \in [Handlers -> HandlerStates]
    BY <1>16, WaitingType DEF PostRun, Insert, HandlerSteps
  <2> QED
    BY <1>16, <2>1 DEF PostRun, Insert, Counted, object, bounds, engine
<1>17. ASSUME NEW h \in Handlers, NEW r \in Runs, NEW i \in Ids, PostReplace(h, r, i)
       PROVE  TypeInv'
  <2>1. handler' \in [Handlers -> HandlerStates]
    BY <1>17, HoldingType DEF PostReplace, HandlerSteps
  <2> QED
    BY <1>17, <2>1 DEF PostReplace, Counted, Notified, Asked, object, bounds, engine
<1>18. ASSUME NEW h \in Handlers, NEW i \in Ids, Delete(h, i) PROVE TypeInv'
  <2>1. handler' \in [Handlers -> HandlerStates]
    BY <1>18, HoldingType DEF Delete, HandlerSteps
  <2> QED
    BY <1>18, <2>1 DEF Delete, Counted, object, bounds, engine
<1>19. ASSUME NEW h \in Handlers, NEW i \in Ids, Cancel(h, i) PROVE TypeInv'
  <2>1. handler' \in [Handlers -> HandlerStates]
    BY <1>19, HoldingType DEF Cancel, HandlerSteps
  <2> QED
    BY <1>19, <2>1 DEF Cancel, Counted, Asked, Lookup, object, bounds, engine
<1>20. ASSUME NEW i \in Ids, CancelLegacy(i) PROVE TypeInv'
  BY <1>20 DEF CancelLegacy, Accepting, Counted, Lookup, object, bounds, engine
<1>21. ASSUME NEW i \in Ids, Answer(i) PROVE TypeInv'
  BY <1>21 DEF Answer, Accepting, Lookup, object, bounds, engine
<1>22. ASSUME NEW r \in Runs, EnterEngine(r) PROVE TypeInv'
  <2>1. verdict' \in [Runs -> Final \union {"absent"}]
    BY <1>22 DEF EnterEngine
  <2>2. flag' = flag \/ flag' = [flag EXCEPT ![r] = FALSE]
    BY <1>22 DEF EnterEngine
  <2>3. flag' \in [Runs -> BOOLEAN]
    BY <2>2
  <2>4. thread' \in [Runs -> ThreadStates]
    BY <1>22 DEF EnterEngine, Goes
  <2> QED
    BY <1>22, <2>1, <2>3, <2>4 DEF EnterEngine, Inside, bounds
<1>23. ASSUME NEW r \in Runs, NextStage(r) PROVE TypeInv'
  BY <1>23 DEF NextStage, Goes, Inside, object, bounds, engine
<1>24. ASSUME NEW r \in Runs, LeavePause(r) PROVE TypeInv'
  <2>1. stages[r] < MaxStages
    BY <1>24 DEF LeavePause, ThreadInv
  <2>2. thread' \in [Runs -> ThreadStates]
    BY <1>24 DEF LeavePause, Goes, EngineReturns
  <2>3. verdict' \in [Runs -> Final \union {"absent"}]
    BY <1>24 DEF LeavePause, EngineReturns, Verdict
  <2>4. stages' \in [Runs -> 0..MaxStages]
    BY <1>24, <2>1 DEF LeavePause
  <2> QED
    BY <1>24, <2>2, <2>3, <2>4 DEF LeavePause, Inside, bounds
<1>25. ASSUME NEW r \in Runs, ReturnFromLoop(r) PROVE TypeInv'
  BY <1>25 DEF ReturnFromLoop, Goes, Inside, EngineReturns, Verdict, object, bounds,
        engine
<1>26. ASSUME NEW r \in Runs, FinishWork(r) PROVE TypeInv'
  BY <1>26 DEF FinishWork, Goes, Inside, EngineReturns, Verdict, object, bounds, engine
<1>27. ASSUME NEW r \in Runs, LeaveSession(r) PROVE TypeInv'
  BY <1>27 DEF LeaveSession, Goes, Inside, object, bounds, engine
<1>28. ASSUME NEW r \in Runs, Publish(r) PROVE TypeInv'
  BY <1>28 DEF Publish, Goes, object, bounds, engine
<1>29. ASSUME NEW r \in Runs, Retire(r) PROVE TypeInv'
  <2>1. verdict[r] \in Final
    BY <1>29 DEF Retire, ThreadInv
  <2>2. r \in Busy
    BY <1>29 DEF Retire, Busy, Alive
  <2>3. Cardinality(Busy) # 0
    BY <2>2, FS_EmptySet, BusyIsFinite
  <2>4. active \in Nat \ {0}
    BY <2>3 DEF CountInv
  <2> QED
    BY <1>29, <2>1, <2>2, <2>3, <2>4 DEF Retire, Goes, object, bounds, engine
<1>30. ASSUME NEW r \in Runs, SpuriousWakeup(r) PROVE TypeInv'
  BY <1>30 DEF SpuriousWakeup, Goes, Inside, EngineReturns, Verdict, object, bounds,
        engine
<1>31. CASE UNCHANGED vars
  BY <1>31 DEF vars, object, bounds, engine
<1> QED BY <1>1, <1>2, <1>3, <1>4, <1>5, <1>6, <1>7, <1>8, <1>9, <1>10, <1>11, <1>12,
       <1>13, <1>14, <1>15, <1>16, <1>17, <1>18, <1>19, <1>20, <1>21, <1>22, <1>23,
       <1>24, <1>25, <1>26, <1>27, <1>28, <1>29, <1>30, <1>31
       DEF Next, HandlerStep, ThreadStep, StopStep

LEMMA ThreadInvStep == Inv /\ [Next]_vars => ThreadInv'
<1> SUFFICES ASSUME Inv, [Next]_vars PROVE ThreadInv'
  OBVIOUS
<1> USE RunAssumption DEF Inv, TypeInv, TypeOK, KnownIds, Final, ThreadStates, InEngine,
      StageKinds, ThreadInv, Engaged
<1>1. CASE Boot
  BY <1>1 DEF Boot, DownInv, engine
<1>2. CASE Crash
  BY <1>2 DEF Crash, MemoryLost, NoRuns, Absent, Waiting, object, bounds, engine
<1>3. CASE StopBegin
  BY <1>3 DEF StopBegin, object, bounds, engine
<1>4. CASE StopCancelRuns
  BY <1>4 DEF StopCancelRuns, Notified, Asked, Listed, object, bounds, engine
<1>5. CASE StopHttp
  BY <1>5 DEF StopHttp, object, bounds, engine
<1>6. CASE StopJoin
  BY <1>6 DEF StopJoin, MemoryLost, NoRuns, Absent, Waiting, object, bounds, engine
<1>7. CASE Pause
  BY <1>7 DEF Pause, Accepting, Counted, object, bounds, engine
<1>8. CASE Unpause
  BY <1>8 DEF Unpause, Accepting, object, bounds, engine
<1>9. ASSUME NEW h \in Handlers, PersistNew(h) PROVE ThreadInv'
  BY <1>9 DEF PersistNew, object, bounds, engine
<1>10. ASSUME NEW h \in Handlers, Launch(h) PROVE ThreadInv'
  <2>1. handler[h].run \in Runs /\ status[handler[h].run] # "absent"
    BY <1>10 DEF Launch, HandlerInv, Bound, Making
  <2> QED
    BY <1>10, <2>1 DEF Launch, object
<1>11. ASSUME NEW h \in Handlers, Replaced(h) PROVE ThreadInv'
  <2>1. \A r \in joinable : r \in joinable' \/ thread[r] = "ended"
    BY <1>11 DEF Replaced, ForgetOld, Joined
  <2> QED
    BY <1>11, <2>1 DEF Replaced, ForgetOld, object
<1>12. ASSUME NEW h \in Handlers, InsertReplacement(h) PROVE ThreadInv'
  <2>1. handler[h].run \in Runs /\ thread[handler[h].run] = "none"
    BY <1>12 DEF InsertReplacement, HandlerInv, Bound
  <2> QED
    BY <1>12, <2>1 DEF InsertReplacement, Insert, engine
<1>13. ASSUME NEW h \in Handlers, Deleted(h) PROVE ThreadInv'
  <2>1. \A r \in joinable : r \in joinable' \/ thread[r] = "ended"
    BY <1>13 DEF Deleted, ForgetOld, Joined
  <2> QED
    BY <1>13, <2>1 DEF Deleted, ForgetOld, object
<1>14. ASSUME NEW h \in Handlers, CancelPersist(h) PROVE ThreadInv'
  BY <1>14 DEF CancelPersist, object, bounds, engine
<1>15. ASSUME NEW h \in Handlers, CancelWake(h) PROVE ThreadInv'
  BY <1>15 DEF CancelWake, Notified, Waiting, object, bounds, engine
<1>16. ASSUME NEW h \in Handlers, NEW r \in Runs, PostRun(h, r) PROVE ThreadInv'
  BY <1>16 DEF PostRun, Insert, Waiting, Counted, Idle, Accepting, Fresh, object,
        bounds, engine
<1>17. ASSUME NEW h \in Handlers, NEW r \in Runs, NEW i \in Ids, PostReplace(h, r, i)
       PROVE  ThreadInv'
  BY <1>17 DEF PostReplace, Counted, Idle, Accepting, Fresh, Notified, Asked, object,
        bounds, engine
<1>18. ASSUME NEW h \in Handlers, NEW i \in Ids, Delete(h, i) PROVE ThreadInv'
  BY <1>18 DEF Delete, Counted, Idle, Accepting, Lookup, object, bounds, engine
<1>19. ASSUME NEW h \in Handlers, NEW i \in Ids, Cancel(h, i) PROVE ThreadInv'
  BY <1>19 DEF Cancel, Counted, Idle, Accepting, Lookup, Asked, object, bounds, engine
<1>20. ASSUME NEW i \in Ids, CancelLegacy(i) PROVE ThreadInv'
  BY <1>20 DEF CancelLegacy, Accepting, Counted, Lookup, object, bounds, engine
<1>21. ASSUME NEW i \in Ids, Answer(i) PROVE ThreadInv'
  BY <1>21 DEF Answer, Accepting, Lookup, object, bounds, engine
<1>22. ASSUME NEW r \in Runs, EnterEngine(r) PROVE ThreadInv'
  BY <1>22 DEF EnterEngine, Goes, Inside, object, bounds, engine
<1>23. ASSUME NEW r \in Runs, NextStage(r) PROVE ThreadInv'
  BY <1>23 DEF NextStage, Goes, Inside, object, bounds, engine
<1>24. ASSUME NEW r \in Runs, LeavePause(r) PROVE ThreadInv'
  BY <1>24 DEF LeavePause, Goes, Inside, EngineReturns, Verdict, object, bounds, engine
<1>25. ASSUME NEW r \in Runs, ReturnFromLoop(r) PROVE ThreadInv'
  BY <1>25 DEF ReturnFromLoop, Goes, Inside, EngineReturns, Verdict, object, bounds,
        engine
<1>26. ASSUME NEW r \in Runs, FinishWork(r) PROVE ThreadInv'
  BY <1>26 DEF FinishWork, Goes, Inside, EngineReturns, Verdict, object, bounds, engine
<1>27. ASSUME NEW r \in Runs, LeaveSession(r) PROVE ThreadInv'
  BY <1>27 DEF LeaveSession, Goes, Inside, object, bounds, engine
<1>28. ASSUME NEW r \in Runs, Publish(r) PROVE ThreadInv'
  BY <1>28 DEF Publish, Goes, object, bounds, engine
<1>29. ASSUME NEW r \in Runs, Retire(r) PROVE ThreadInv'
  BY <1>29 DEF Retire, Goes, object, bounds, engine
<1>30. ASSUME NEW r \in Runs, SpuriousWakeup(r) PROVE ThreadInv'
  BY <1>30 DEF SpuriousWakeup, Goes, Inside, EngineReturns, Verdict, object, bounds,
        engine
<1>31. CASE UNCHANGED vars
  BY <1>31 DEF vars, object, bounds, engine
<1> QED BY <1>1, <1>2, <1>3, <1>4, <1>5, <1>6, <1>7, <1>8, <1>9, <1>10, <1>11, <1>12,
       <1>13, <1>14, <1>15, <1>16, <1>17, <1>18, <1>19, <1>20, <1>21, <1>22, <1>23,
       <1>24, <1>25, <1>26, <1>27, <1>28, <1>29, <1>30, <1>31
       DEF Next, HandlerStep, ThreadStep, StopStep

LEMMA HandlerStepInv == Inv /\ [Next]_vars => HandlerInv'
<1> SUFFICES ASSUME Inv, [Next]_vars PROVE HandlerInv'
  OBVIOUS
<1> USE RunAssumption DEF Inv, TypeInv, TypeOK, KnownIds, Final, ThreadStates, InEngine,
      StageKinds, HandlerInv, Bound, Making, Waiting
<1>1. CASE Boot
  <2>1. \A h \in Handlers : handler[h].pc = "waiting" /\ handler[h].run = NoRun
    BY <1>1, WaitingType DEF Boot, DownInv
  <2> QED
    BY <1>1, <2>1 DEF Boot
<1>2. CASE Crash
  BY <1>2 DEF Crash, MemoryLost, NoRuns, Absent, Waiting, object, bounds, engine
<1>3. CASE StopBegin
  BY <1>3 DEF StopBegin, object, bounds, engine
<1>4. CASE StopCancelRuns
  BY <1>4 DEF StopCancelRuns, Notified, Asked, Listed, object, bounds, engine
<1>5. CASE StopHttp
  BY <1>5 DEF StopHttp, object, bounds, engine
<1>6. CASE StopJoin
  BY <1>6 DEF StopJoin, MemoryLost, NoRuns, Absent, Waiting, object, bounds, engine
<1>7. CASE Pause
  BY <1>7 DEF Pause, Accepting, Counted, object, bounds, engine
<1>8. CASE Unpause
  BY <1>8 DEF Unpause, Accepting, object, bounds, engine
<1>9. ASSUME NEW h \in Handlers, PersistNew(h) PROVE HandlerInv'
  BY <1>9 DEF PersistNew, object, bounds, engine
<1>10. ASSUME NEW h \in Handlers, Launch(h) PROVE HandlerInv'
  BY <1>10 DEF Launch, Waiting, object, bounds, engine
<1>11. ASSUME NEW h \in Handlers, Replaced(h) PROVE HandlerInv'
  BY <1>11 DEF Replaced, ForgetOld, Waiting, object, bounds, engine
<1>12. ASSUME NEW h \in Handlers, InsertReplacement(h) PROVE HandlerInv'
  BY <1>12 DEF InsertReplacement, Insert, Waiting, object, bounds, engine
<1>13. ASSUME NEW h \in Handlers, Deleted(h) PROVE HandlerInv'
  BY <1>13 DEF Deleted, ForgetOld, Waiting, object, bounds, engine
<1>14. ASSUME NEW h \in Handlers, CancelPersist(h) PROVE HandlerInv'
  BY <1>14 DEF CancelPersist, object, bounds, engine
<1>15. ASSUME NEW h \in Handlers, CancelWake(h) PROVE HandlerInv'
  BY <1>15 DEF CancelWake, Notified, Waiting, object, bounds, engine
<1>16. ASSUME NEW h \in Handlers, NEW r \in Runs, PostRun(h, r) PROVE HandlerInv'
  <2>1. LET w == handler'[h] IN w.pc = "persist" /\ w.run = r
    BY <1>16 DEF PostRun, Insert
  <2>2. \A g \in Handlers : g # h => handler'[g] = handler[g]
    BY <1>16 DEF PostRun, Insert
  <2>3. thread' = thread /\ thread[r] = "none"
    BY <1>16 DEF PostRun, Fresh, engine, ThreadInv
  <2>4. status'[r] = "running" /\ \A o \in Runs : o # r => status'[o] = status[o]
    BY <1>16 DEF PostRun, Insert
  <2>5. \A g \in Handlers : handler[g].run # r
    BY <1>16 DEF PostRun, Fresh
  <2> QED
    BY <2>1, <2>2, <2>3, <2>4, <2>5
<1>17. ASSUME NEW h \in Handlers, NEW r \in Runs, NEW i \in Ids, PostReplace(h, r, i)
       PROVE  HandlerInv'
  <2>1. LET w == handler'[h] IN w.pc = "replace_join" /\ w.run = r
    BY <1>17, HoldingType DEF PostReplace, HandlerSteps
  <2>2. \A g \in Handlers : g # h => handler'[g] = handler[g]
    BY <1>17 DEF PostReplace
  <2>3. UNCHANGED <<thread, status>> /\ thread[r] = "none"
    BY <1>17 DEF PostReplace, Fresh, engine, ThreadInv
  <2>4. \A g \in Handlers : handler[g].run # r
    BY <1>17 DEF PostReplace, Fresh
  <2> QED
    BY <2>1, <2>2, <2>3, <2>4
<1>18. ASSUME NEW h \in Handlers, NEW i \in Ids, Delete(h, i) PROVE HandlerInv'
  BY <1>18 DEF Delete, Counted, Idle, Accepting, Lookup, object, bounds, engine
<1>19. ASSUME NEW h \in Handlers, NEW i \in Ids, Cancel(h, i) PROVE HandlerInv'
  BY <1>19 DEF Cancel, Counted, Idle, Accepting, Lookup, Asked, object, bounds, engine
<1>20. ASSUME NEW i \in Ids, CancelLegacy(i) PROVE HandlerInv'
  BY <1>20 DEF CancelLegacy, Accepting, Counted, Lookup, object, bounds, engine
<1>21. ASSUME NEW i \in Ids, Answer(i) PROVE HandlerInv'
  BY <1>21 DEF Answer, Accepting, Lookup, object, bounds, engine
<1>22. ASSUME NEW r \in Runs, EnterEngine(r) PROVE HandlerInv'
  BY <1>22 DEF EnterEngine, Goes, Inside, object, bounds, engine
<1>23. ASSUME NEW r \in Runs, NextStage(r) PROVE HandlerInv'
  BY <1>23 DEF NextStage, Goes, Inside, object, bounds, engine
<1>24. ASSUME NEW r \in Runs, LeavePause(r) PROVE HandlerInv'
  BY <1>24 DEF LeavePause, Goes, Inside, EngineReturns, Verdict, object, bounds, engine
<1>25. ASSUME NEW r \in Runs, ReturnFromLoop(r) PROVE HandlerInv'
  BY <1>25 DEF ReturnFromLoop, Goes, Inside, EngineReturns, Verdict, object, bounds,
        engine
<1>26. ASSUME NEW r \in Runs, FinishWork(r) PROVE HandlerInv'
  BY <1>26 DEF FinishWork, Goes, Inside, EngineReturns, Verdict, object, bounds, engine
<1>27. ASSUME NEW r \in Runs, LeaveSession(r) PROVE HandlerInv'
  BY <1>27 DEF LeaveSession, Goes, Inside, object, bounds, engine
<1>28. ASSUME NEW r \in Runs, Publish(r) PROVE HandlerInv'
  BY <1>28 DEF Publish, Goes, object, bounds, engine
<1>29. ASSUME NEW r \in Runs, Retire(r) PROVE HandlerInv'
  BY <1>29 DEF Retire, Goes, object, bounds, engine
<1>30. ASSUME NEW r \in Runs, SpuriousWakeup(r) PROVE HandlerInv'
  BY <1>30 DEF SpuriousWakeup, Goes, Inside, EngineReturns, Verdict, object, bounds,
        engine
<1>31. CASE UNCHANGED vars
  BY <1>31 DEF vars, object, bounds, engine
<1> QED BY <1>1, <1>2, <1>3, <1>4, <1>5, <1>6, <1>7, <1>8, <1>9, <1>10, <1>11, <1>12,
       <1>13, <1>14, <1>15, <1>16, <1>17, <1>18, <1>19, <1>20, <1>21, <1>22, <1>23,
       <1>24, <1>25, <1>26, <1>27, <1>28, <1>29, <1>30, <1>31
       DEF Next, HandlerStep, ThreadStep, StopStep

LEMMA DownStep == Inv /\ [Next]_vars => DownInv'
<1> SUFFICES ASSUME Inv, [Next]_vars PROVE DownInv'
  OBVIOUS
<1> USE RunAssumption DEF Inv, TypeInv, TypeOK, KnownIds, Final, ThreadStates, InEngine,
      StageKinds, DownInv, HandlerInv
<1>1. CASE Boot
  BY <1>1 DEF Boot, Reclassified, object, bounds, engine
<1>2. CASE Crash
  BY <1>2 DEF Crash, MemoryLost, NoRuns, Absent, Waiting, object, bounds, engine
<1>3. CASE StopBegin
  BY <1>3 DEF StopBegin, object, bounds, engine
<1>4. CASE StopCancelRuns
  BY <1>4 DEF StopCancelRuns, Notified, Asked, Listed, object, bounds, engine
<1>5. CASE StopHttp
  BY <1>5 DEF StopHttp, object, bounds, engine
<1>6. CASE StopJoin
  BY <1>6 DEF StopJoin, MemoryLost, NoRuns, Absent, Waiting, object, bounds, engine
<1>7. CASE Pause
  BY <1>7 DEF Pause, Accepting, Counted, object, bounds, engine
<1>8. CASE Unpause
  BY <1>8 DEF Unpause, Accepting, object, bounds, engine
<1>9. ASSUME NEW h \in Handlers, PersistNew(h) PROVE DownInv'
  <2>1. server # "down"
    BY <1>9, WaitingType DEF PersistNew, DownInv
  <2>2. server' = server
    BY <1>9 DEF PersistNew
  <2> QED
    BY <2>1, <2>2 DEF DownInv
<1>10. ASSUME NEW h \in Handlers, Launch(h) PROVE DownInv'
  BY <1>10 DEF Launch, Waiting, object, bounds, engine
<1>11. ASSUME NEW h \in Handlers, Replaced(h) PROVE DownInv'
  BY <1>11 DEF Replaced, ForgetOld, Waiting, object, bounds, engine
<1>12. ASSUME NEW h \in Handlers, InsertReplacement(h) PROVE DownInv'
  BY <1>12 DEF InsertReplacement, Insert, Waiting, object, bounds, engine
<1>13. ASSUME NEW h \in Handlers, Deleted(h) PROVE DownInv'
  BY <1>13 DEF Deleted, ForgetOld, Waiting, object, bounds, engine
<1>14. ASSUME NEW h \in Handlers, CancelPersist(h) PROVE DownInv'
  <2>1. server # "down"
    BY <1>14, WaitingType DEF CancelPersist, DownInv
  <2>2. server' = server
    BY <1>14 DEF CancelPersist
  <2> QED
    BY <2>1, <2>2 DEF DownInv
<1>15. ASSUME NEW h \in Handlers, CancelWake(h) PROVE DownInv'
  BY <1>15 DEF CancelWake, Notified, Waiting, object, bounds, engine
<1>16. ASSUME NEW h \in Handlers, NEW r \in Runs, PostRun(h, r) PROVE DownInv'
  BY <1>16 DEF PostRun, Insert, Waiting, Counted, Idle, Accepting, Fresh, object,
        bounds, engine
<1>17. ASSUME NEW h \in Handlers, NEW r \in Runs, NEW i \in Ids, PostReplace(h, r, i)
       PROVE  DownInv'
  BY <1>17 DEF PostReplace, Counted, Idle, Accepting, Fresh, Notified, Asked, object,
        bounds, engine
<1>18. ASSUME NEW h \in Handlers, NEW i \in Ids, Delete(h, i) PROVE DownInv'
  BY <1>18 DEF Delete, Counted, Idle, Accepting, Lookup, object, bounds, engine
<1>19. ASSUME NEW h \in Handlers, NEW i \in Ids, Cancel(h, i) PROVE DownInv'
  BY <1>19 DEF Cancel, Counted, Idle, Accepting, Lookup, Asked, object, bounds, engine
<1>20. ASSUME NEW i \in Ids, CancelLegacy(i) PROVE DownInv'
  BY <1>20 DEF CancelLegacy, Accepting, Counted, Lookup, object, bounds, engine
<1>21. ASSUME NEW i \in Ids, Answer(i) PROVE DownInv'
  BY <1>21 DEF Answer, Accepting, Lookup, object, bounds, engine
<1>22. ASSUME NEW r \in Runs, EnterEngine(r) PROVE DownInv'
  BY <1>22 DEF EnterEngine, Goes, Inside, object, bounds, engine
<1>23. ASSUME NEW r \in Runs, NextStage(r) PROVE DownInv'
  BY <1>23 DEF NextStage, Goes, Inside, object, bounds, engine
<1>24. ASSUME NEW r \in Runs, LeavePause(r) PROVE DownInv'
  BY <1>24 DEF LeavePause, Goes, Inside, EngineReturns, Verdict, object, bounds, engine
<1>25. ASSUME NEW r \in Runs, ReturnFromLoop(r) PROVE DownInv'
  BY <1>25 DEF ReturnFromLoop, Goes, Inside, EngineReturns, Verdict, object, bounds,
        engine
<1>26. ASSUME NEW r \in Runs, FinishWork(r) PROVE DownInv'
  BY <1>26 DEF FinishWork, Goes, Inside, EngineReturns, Verdict, object, bounds, engine
<1>27. ASSUME NEW r \in Runs, LeaveSession(r) PROVE DownInv'
  BY <1>27 DEF LeaveSession, Goes, Inside, object, bounds, engine
<1>28. ASSUME NEW r \in Runs, Publish(r) PROVE DownInv'
  BY <1>28 DEF Publish, Goes, object, bounds, engine
<1>29. ASSUME NEW r \in Runs, Retire(r) PROVE DownInv'
  BY <1>29 DEF Retire, Goes, object, bounds, engine
<1>30. ASSUME NEW r \in Runs, SpuriousWakeup(r) PROVE DownInv'
  BY <1>30 DEF SpuriousWakeup, Goes, Inside, EngineReturns, Verdict, object, bounds,
        engine
<1>31. CASE UNCHANGED vars
  BY <1>31 DEF vars, object, bounds, engine
<1> QED BY <1>1, <1>2, <1>3, <1>4, <1>5, <1>6, <1>7, <1>8, <1>9, <1>10, <1>11, <1>12,
       <1>13, <1>14, <1>15, <1>16, <1>17, <1>18, <1>19, <1>20, <1>21, <1>22, <1>23,
       <1>24, <1>25, <1>26, <1>27, <1>28, <1>29, <1>30, <1>31
       DEF Next, HandlerStep, ThreadStep, StopStep

(* The steps that neither insert a run nor end one.                        *)
Quiet ==
  \/ Boot \/ StopBegin \/ StopCancelRuns \/ StopHttp \/ Pause \/ Unpause
  \/ \E h \in Handlers :
       PersistNew(h) \/ Launch(h) \/ Replaced(h) \/ Deleted(h) \/ CancelPersist(h)
        \/ CancelWake(h)
  \/ \E h \in Handlers, r \in Runs, i \in Ids :
       PostReplace(h, r, i)
  \/ \E h \in Handlers, i \in Ids :
       Delete(h, i) \/ Cancel(h, i)
  \/ \E i \in Ids :
       CancelLegacy(i) \/ Answer(i)
  \/ \E r \in Runs :
       EnterEngine(r) \/ NextStage(r) \/ LeavePause(r) \/ ReturnFromLoop(r)
        \/ FinishWork(r) \/ LeaveSession(r) \/ Publish(r) \/ SpuriousWakeup(r)
  \/ UNCHANGED vars

BusyKept == \A r \in Runs : (BeingCreated(r) \/ Alive(r))' <=> BeingCreated(r) \/ Alive(r)
StatusKept == \A r \in Runs : status'[r] = "running" => status[r] = "running"
RegistryKept == \A i \in Ids :
  registry'[i] = "running" => registry[i] = "running" \/ \E r \in Busy : IdOf[r] = i

LEMMA QuietBusy ==
  ASSUME Inv, Quiet
  PROVE  BusyKept
<1> USE RunAssumption DEF Inv, TypeInv, TypeOK, InEngine, StageKinds
<1>1. CASE Boot
  BY <1>1 DEF Boot, Reclassified, BusyKept, BeingCreated, Alive, object, bounds, engine
<1>2. CASE StopBegin
  BY <1>2 DEF StopBegin, BusyKept, BeingCreated, Alive, object, bounds, engine
<1>3. CASE StopCancelRuns
  BY <1>3 DEF StopCancelRuns, Notified, Asked, Listed, BusyKept, BeingCreated, Alive,
        object, bounds, engine
<1>4. CASE StopHttp
  BY <1>4 DEF StopHttp, BusyKept, BeingCreated, Alive, object, bounds, engine
<1>5. CASE Pause
  BY <1>5 DEF Pause, Accepting, Counted, BusyKept, BeingCreated, Alive, object, bounds,
        engine
<1>6. CASE Unpause
  BY <1>6 DEF Unpause, Accepting, BusyKept, BeingCreated, Alive, object, bounds, engine
<1>7. ASSUME NEW h \in Handlers, PersistNew(h) PROVE BusyKept
  BY <1>7 DEF PersistNew, BusyKept, BeingCreated, Alive, object, bounds, engine
<1>8. ASSUME NEW h \in Handlers, Launch(h) PROVE BusyKept
  BY <1>8 DEF Launch, Waiting, BusyKept, BeingCreated, Alive, object, bounds, engine
<1>9. ASSUME NEW h \in Handlers, Replaced(h) PROVE BusyKept
  BY <1>9 DEF Replaced, ForgetOld, Waiting, BusyKept, BeingCreated, Alive, object,
        bounds, engine
<1>10. ASSUME NEW h \in Handlers, Deleted(h) PROVE BusyKept
  BY <1>10 DEF Deleted, ForgetOld, Waiting, BusyKept, BeingCreated, Alive, object,
        bounds, engine
<1>11. ASSUME NEW h \in Handlers, CancelPersist(h) PROVE BusyKept
  BY <1>11 DEF CancelPersist, BusyKept, BeingCreated, Alive, object, bounds, engine
<1>12. ASSUME NEW h \in Handlers, CancelWake(h) PROVE BusyKept
  BY <1>12 DEF CancelWake, Notified, Waiting, BusyKept, BeingCreated, Alive, object,
        bounds, engine
<1>13. ASSUME NEW h \in Handlers, NEW r \in Runs, NEW i \in Ids, PostReplace(h, r, i)
       PROVE  BusyKept
  BY <1>13 DEF PostReplace, Counted, Idle, Accepting, Fresh, Notified, Asked, BusyKept,
        BeingCreated, Alive, object, bounds, engine
<1>14. ASSUME NEW h \in Handlers, NEW i \in Ids, Delete(h, i) PROVE BusyKept
  BY <1>14 DEF Delete, Counted, Idle, Accepting, Lookup, BusyKept, BeingCreated, Alive,
        object, bounds, engine
<1>15. ASSUME NEW h \in Handlers, NEW i \in Ids, Cancel(h, i) PROVE BusyKept
  BY <1>15 DEF Cancel, Counted, Idle, Accepting, Lookup, Asked, BusyKept, BeingCreated,
        Alive, object, bounds, engine
<1>16. ASSUME NEW i \in Ids, CancelLegacy(i) PROVE BusyKept
  BY <1>16 DEF CancelLegacy, Accepting, Counted, Lookup, BusyKept, BeingCreated, Alive,
        object, bounds, engine
<1>17. ASSUME NEW i \in Ids, Answer(i) PROVE BusyKept
  BY <1>17 DEF Answer, Accepting, Lookup, BusyKept, BeingCreated, Alive, object, bounds,
        engine
<1>18. ASSUME NEW r \in Runs, EnterEngine(r) PROVE BusyKept
  BY <1>18 DEF EnterEngine, Goes, Inside, BusyKept, BeingCreated, Alive, object, bounds,
        engine
<1>19. ASSUME NEW r \in Runs, NextStage(r) PROVE BusyKept
  BY <1>19 DEF NextStage, Goes, Inside, BusyKept, BeingCreated, Alive, object, bounds,
        engine
<1>20. ASSUME NEW r \in Runs, LeavePause(r) PROVE BusyKept
  BY <1>20 DEF LeavePause, Goes, Inside, EngineReturns, Verdict, BusyKept, BeingCreated,
        Alive, object, bounds, engine
<1>21. ASSUME NEW r \in Runs, ReturnFromLoop(r) PROVE BusyKept
  BY <1>21 DEF ReturnFromLoop, Goes, Inside, EngineReturns, Verdict, BusyKept,
        BeingCreated, Alive, object, bounds, engine
<1>22. ASSUME NEW r \in Runs, FinishWork(r) PROVE BusyKept
  BY <1>22 DEF FinishWork, Goes, Inside, EngineReturns, Verdict, BusyKept, BeingCreated,
        Alive, object, bounds, engine
<1>23. ASSUME NEW r \in Runs, LeaveSession(r) PROVE BusyKept
  BY <1>23 DEF LeaveSession, Goes, Inside, BusyKept, BeingCreated, Alive, object,
        bounds, engine
<1>24. ASSUME NEW r \in Runs, Publish(r) PROVE BusyKept
  BY <1>24 DEF Publish, Goes, BusyKept, BeingCreated, Alive, object, bounds, engine
<1>25. ASSUME NEW r \in Runs, SpuriousWakeup(r) PROVE BusyKept
  BY <1>25 DEF SpuriousWakeup, Goes, Inside, EngineReturns, Verdict, BusyKept,
        BeingCreated, Alive, object, bounds, engine
<1>26. CASE UNCHANGED vars
  BY <1>26 DEF vars, BusyKept, BeingCreated, Alive, object, bounds, engine
<1> QED BY <1>1, <1>2, <1>3, <1>4, <1>5, <1>6, <1>7, <1>8, <1>9, <1>10, <1>11, <1>12,
       <1>13, <1>14, <1>15, <1>16, <1>17, <1>18, <1>19, <1>20, <1>21, <1>22, <1>23,
       <1>24, <1>25, <1>26 DEF Quiet

LEMMA QuietActive ==
  ASSUME Inv, Quiet
  PROVE  active' = active
<1> USE RunAssumption DEF Inv, DownInv
<1>1. CASE Boot
  BY <1>1 DEF Boot, Reclassified, engine
<1>2. CASE StopBegin \/ StopCancelRuns \/ StopHttp \/ Pause \/ Unpause
  BY <1>2 DEF StopBegin, StopCancelRuns, StopHttp, Pause, Unpause, engine
<1>3. ASSUME NEW h \in Handlers,
             PersistNew(h) \/ Launch(h) \/ Replaced(h) \/ Deleted(h) \/ CancelPersist(h)
               \/ CancelWake(h)
      PROVE  active' = active
  BY <1>3 DEF PersistNew, Launch, Replaced, ForgetOld, Deleted, CancelPersist,
        CancelWake, engine
<1>4. ASSUME NEW h \in Handlers, NEW r \in Runs, NEW i \in Ids, PostReplace(h, r, i)
      PROVE  active' = active
  BY <1>4 DEF PostReplace, engine
<1>5. ASSUME NEW h \in Handlers, NEW i \in Ids, Delete(h, i) \/ Cancel(h, i)
      PROVE  active' = active
  BY <1>5 DEF Delete, Cancel, engine
<1>6. ASSUME NEW i \in Ids, CancelLegacy(i) \/ Answer(i) PROVE active' = active
  BY <1>6 DEF CancelLegacy, Answer, engine
<1>7. ASSUME NEW r \in Runs,
             EnterEngine(r) \/ NextStage(r) \/ LeavePause(r) \/ ReturnFromLoop(r)
               \/ FinishWork(r) \/ LeaveSession(r) \/ Publish(r) \/ SpuriousWakeup(r)
      PROVE  active' = active
  BY <1>7 DEF EnterEngine, Inside, NextStage, LeavePause, EngineReturns, ReturnFromLoop,
        FinishWork, LeaveSession, Publish, SpuriousWakeup, engine
<1>8. CASE UNCHANGED vars
  BY <1>8 DEF vars, engine
<1> QED BY <1>1, <1>2, <1>3, <1>4, <1>5, <1>6, <1>7, <1>8 DEF Quiet

LEMMA QuietStatus ==
  ASSUME Inv, Quiet
  PROVE  StatusKept
<1> USE RunAssumption DEF Inv, TypeInv, TypeOK, Final, ThreadInv
<1>1. CASE Boot
  BY <1>1 DEF Boot, Reclassified, StatusKept, object
<1>2. CASE StopBegin \/ StopCancelRuns \/ StopHttp \/ Pause \/ Unpause
  BY <1>2 DEF StopBegin, StopCancelRuns, StopHttp, Pause, Unpause, StatusKept, object
<1>3. ASSUME NEW h \in Handlers,
             PersistNew(h) \/ Launch(h) \/ Replaced(h) \/ Deleted(h) \/ CancelPersist(h)
               \/ CancelWake(h)
      PROVE  StatusKept
  BY <1>3 DEF PersistNew, Launch, Replaced, ForgetOld, Deleted, CancelPersist,
        CancelWake, StatusKept, object
<1>4. ASSUME NEW h \in Handlers, NEW r \in Runs, NEW i \in Ids, PostReplace(h, r, i)
      PROVE  StatusKept
  BY <1>4 DEF PostReplace, StatusKept, object
<1>5. ASSUME NEW h \in Handlers, NEW i \in Ids, Delete(h, i) \/ Cancel(h, i)
      PROVE  StatusKept
  BY <1>5 DEF Delete, Cancel, StatusKept, object
<1>6. ASSUME NEW i \in Ids, CancelLegacy(i) \/ Answer(i) PROVE StatusKept
  BY <1>6 DEF CancelLegacy, Answer, StatusKept, object
<1>7. ASSUME NEW r \in Runs,
             EnterEngine(r) \/ NextStage(r) \/ LeavePause(r) \/ ReturnFromLoop(r)
               \/ FinishWork(r) \/ LeaveSession(r) \/ Publish(r) \/ SpuriousWakeup(r)
      PROVE  StatusKept
  BY <1>7 DEF EnterEngine, Inside, NextStage, LeavePause, EngineReturns, ReturnFromLoop,
        FinishWork, LeaveSession, Publish, SpuriousWakeup, StatusKept, object
<1>8. CASE UNCHANGED vars
  BY <1>8 DEF vars, StatusKept, object
<1> QED BY <1>1, <1>2, <1>3, <1>4, <1>5, <1>6, <1>7, <1>8 DEF Quiet

LEMMA QuietRegistry ==
  ASSUME Inv, Quiet
  PROVE  RegistryKept
<1> USE RunAssumption DEF Inv, TypeInv, TypeOK, Final
<1>1. CASE Boot
  BY <1>1 DEF Boot, Reclassified, RegistryKept
<1>2. CASE StopBegin \/ StopCancelRuns \/ StopHttp \/ Pause \/ Unpause
  BY <1>2 DEF StopBegin, StopCancelRuns, StopHttp, Pause, Unpause, RegistryKept
<1>3. ASSUME NEW h \in Handlers,
             PersistNew(h) \/ Launch(h) \/ Replaced(h) \/ Deleted(h) \/ CancelPersist(h)
               \/ CancelWake(h)
      PROVE  RegistryKept
  <2>1. handler[h].pc = "persist" => handler[h].run \in Busy
    BY DEF HandlerInv, Bound, Making, Busy, BeingCreated
  <2> QED BY <1>3, <2>1 DEF PersistNew, Launch, Replaced, ForgetOld, Deleted,
        CancelPersist, CancelWake, RegistryKept
<1>4. ASSUME NEW h \in Handlers, NEW r \in Runs, NEW i \in Ids, PostReplace(h, r, i)
      PROVE  RegistryKept
  BY <1>4 DEF PostReplace, RegistryKept
<1>5. ASSUME NEW h \in Handlers, NEW i \in Ids, Delete(h, i) \/ Cancel(h, i)
      PROVE  RegistryKept
  BY <1>5 DEF Delete, Cancel, RegistryKept
<1>6. ASSUME NEW i \in Ids, CancelLegacy(i) \/ Answer(i) PROVE RegistryKept
  BY <1>6 DEF CancelLegacy, Answer, RegistryKept
<1>7. ASSUME NEW r \in Runs,
             EnterEngine(r) \/ NextStage(r) \/ LeavePause(r) \/ ReturnFromLoop(r)
               \/ FinishWork(r) \/ LeaveSession(r) \/ Publish(r) \/ SpuriousWakeup(r)
      PROVE  RegistryKept
  BY <1>7 DEF EnterEngine, Inside, NextStage, LeavePause, EngineReturns, ReturnFromLoop,
        FinishWork, LeaveSession, Publish, SpuriousWakeup, RegistryKept
<1>8. CASE UNCHANGED vars
  BY <1>8 DEF vars, RegistryKept
<1> QED BY <1>1, <1>2, <1>3, <1>4, <1>5, <1>6, <1>7, <1>8 DEF Quiet

LEMMA DownOrBoot ==
  ASSUME Inv, [Next]_vars, server = "down", ~Boot
  PROVE  server' = "down"
<1>1. CASE Crash \/ StopBegin \/ StopStep \/ Pause \/ Unpause
  BY <1>1 DEF Crash, StopBegin, StopStep, StopCancelRuns, StopHttp, StopJoin, Pause,
        Unpause,
              MemoryLost
<1>2. ASSUME NEW h \in Handlers, HandlerStep(h) PROVE server' = server
  BY <1>2 DEF HandlerStep, Replaced, Deleted, ForgetOld, PersistNew, Launch,
        InsertReplacement,
              CancelPersist, CancelWake
<1>3. ASSUME NEW h \in Handlers, NEW r \in Runs, NEW i \in Ids,
             PostRun(h, r) \/ PostReplace(h, r, i) \/ Delete(h, i) \/ Cancel(h, i)
      PROVE  server' = server
  BY <1>3 DEF PostRun, PostReplace, Delete, Cancel
<1>4. ASSUME NEW h \in Handlers, NEW r \in Runs, PostRun(h, r) PROVE server' = server
  BY <1>4 DEF PostRun
<1>5. ASSUME NEW i \in Ids, CancelLegacy(i) \/ Answer(i) PROVE server' = server
  BY <1>5 DEF CancelLegacy, Answer
<1>6. ASSUME NEW r \in Runs, ThreadStep(r) \/ SpuriousWakeup(r) PROVE server' = server
  BY <1>6 DEF ThreadStep, EnterEngine, NextStage, LeavePause, ReturnFromLoop, FinishWork,
              LeaveSession, Publish, Retire, SpuriousWakeup, Inside
<1>7. ASSUME NEW h \in Handlers, NEW i \in Ids, Delete(h, i) \/ Cancel(h, i)
      PROVE  server' = server
  BY <1>7 DEF Delete, Cancel
<1> QED BY <1>1, <1>2, <1>3, <1>4, <1>5, <1>6, <1>7 DEF Next, vars

(* A handler that joins a thread leaves its step only with that thread.    *)
LEMMA LeavingJoins ==
  ASSUME Inv, [Next]_vars, server' # "down", NEW h \in Handlers,
         handler[h].pc \in {"replace_join", "delete_join"}, handler'[h] # handler[h]
  PROVE  Joined(handler[h].old)
<1> USE DEF Inv, TypeInv, TypeOK
<1>1. ASSUME NEW g \in Handlers, HandlerStep(g) PROVE Joined(handler[h].old)
  <2>1. g = h
    BY <1>1 DEF HandlerStep, Replaced, Deleted, ForgetOld, PersistNew, Launch,
                InsertReplacement, Insert, CancelPersist, CancelWake
  <2> QED BY <1>1, <2>1 DEF HandlerStep, Replaced, Deleted, ForgetOld, PersistNew, Launch,
                            InsertReplacement, CancelPersist, CancelWake
<1>2. ASSUME NEW g \in Handlers, handler[g].pc = "waiting",
             handler' = [handler EXCEPT ![g] = handler'[g]]
      PROVE  FALSE
  BY <1>2
<1>3. ASSUME NEW g \in Handlers, NEW r \in Runs, PostRun(g, r) PROVE FALSE
  BY <1>3 DEF PostRun, Insert, Idle
<1>4. ASSUME NEW g \in Handlers, NEW r \in Runs, NEW i \in Ids, PostReplace(g, r, i)
      PROVE  FALSE
  BY <1>4 DEF PostReplace, Idle
<1>5. ASSUME NEW g \in Handlers, NEW i \in Ids, Delete(g, i) \/ Cancel(g, i) PROVE FALSE
  BY <1>5 DEF Delete, Cancel, Idle
<1>6. ASSUME NEW i \in Ids, CancelLegacy(i) \/ Answer(i) PROVE FALSE
  BY <1>6 DEF CancelLegacy, Answer
<1>7. ASSUME NEW r \in Runs, ThreadStep(r) \/ SpuriousWakeup(r) PROVE FALSE
  BY <1>7 DEF ThreadStep, EnterEngine, NextStage, LeavePause, ReturnFromLoop, FinishWork,
              LeaveSession, Publish, Retire, SpuriousWakeup, Inside
<1>8. CASE Boot \/ Crash \/ StopBegin \/ StopStep \/ Pause \/ Unpause
  BY <1>8 DEF Boot, Crash, StopBegin, StopStep, StopCancelRuns, StopHttp, StopJoin, Pause,
              Unpause, MemoryLost
<1> QED BY <1>1, <1>3, <1>4, <1>5, <1>6, <1>7, <1>8 DEF Next, vars

LEMMA QuietKeepsBusy == Inv /\ Quiet => Busy' = Busy
BY QuietBusy DEF BusyKept, Busy

LEMMA NoneBusy == CountInv /\ active = 0 => Busy = {}
BY BusyIsFinite, FS_EmptySet DEF CountInv

(* The others.                                                             *)
InsertsRun(r) ==
  /\ r \in Runs \ Busy
  /\ Busy' = Busy \union {r} /\ active' = active + 1
  /\ registry' = registry /\ \A o \in Runs : o # r => status'[o] = status[o]

LEMMA Inserting ==
  ASSUME Inv, NEW h \in Handlers, NEW r \in Runs, Insert(h, r), UNCHANGED <<thread,
    registry>>,
         thread[r] = "none", handler[h].pc \notin Making,
         \A g \in Handlers : handler[g].run = r => g = h
  PROVE  InsertsRun(r)
<1> USE DEF Inv, TypeInv, TypeOK
<1>1. handler'[h].pc = "persist" /\ handler'[h].run = r
  <2>1. handler'[h] = [Waiting EXCEPT !.pc = "persist", !.run = r]
    BY DEF Insert
  <2>2. "persist" \in HandlerSteps /\ r \in Runs \union {NoRun}
    BY DEF HandlerSteps
  <2>3. LET w == [Waiting EXCEPT !.pc = "persist",
    !.run = r] IN w.pc = "persist" /\ w.run = r
    BY DEF Waiting
  <2> QED BY <2>1, <2>3
<1>2. \A g \in Handlers : g # h => handler'[g] = handler[g]
  BY DEF Insert
<1>3. r \notin Busy
  BY DEF Busy, BeingCreated, Alive, Making, InEngine, StageKinds
<1>4. BeingCreated(r)'
  BY <1>1 DEF BeingCreated
<1>5. \A o \in Runs : o # r => (BeingCreated(o)' <=> BeingCreated(o))
  BY <1>1, <1>2 DEF BeingCreated, Making
<1>6. \A o \in Runs : Alive(o)' <=> Alive(o)
  BY DEF Alive
<1>7. Busy' = Busy \union {r}
  BY <1>4, <1>5, <1>6 DEF Busy
<1>8. active' = active + 1 /\ \A o \in Runs : o # r => status'[o] = status[o]
  BY DEF Insert
<1> QED BY <1>3, <1>7, <1>8 DEF InsertsRun

EndsRun(r) ==
  /\ r \in Busy
  /\ Busy' = Busy \ {r} /\ active' = active - 1
  /\ status' = status /\ status[r] # "running" /\ registry'[IdOf[r]] # "running"
  /\ \A i \in Ids : i # IdOf[r] => registry'[i] = registry[i]

LEMMA Ending ==
  ASSUME Inv, NEW r \in Runs, Retire(r)
  PROVE  EndsRun(r)
<1> USE RunAssumption DEF Inv, TypeInv, TypeOK
<1>1. thread[r] = "published" /\ thread'[r] = "ended" /\ handler' = handler
  BY DEF Retire, Goes
<1>2. \A o \in Runs : o # r => thread'[o] = thread[o]
  BY DEF Retire, Goes
<1>3. ~BeingCreated(r)
  BY <1>1, RunAssumption DEF BeingCreated, HandlerInv, Bound, Making
<1>4. r \in Busy
  BY <1>1 DEF Busy, Alive
<1>5. \A o \in Runs : BeingCreated(o)' <=> BeingCreated(o)
  BY <1>1 DEF BeingCreated
<1>6. ~Alive(r)' /\ \A o \in Runs : o # r => (Alive(o)' <=> Alive(o))
  BY <1>1, <1>2 DEF Alive, InEngine, StageKinds
<1>7. Busy' = Busy \ {r}
  BY <1>3, <1>5, <1>6 DEF Busy
<1>8. active' = active - 1 /\ status' = status /\ status[r] # "running"
  BY <1>1 DEF Retire, object, ThreadInv
<1>9. /\ registry'[IdOf[r]] # "running"
      /\ \A i \in Ids : i # IdOf[r] => registry'[i] = registry[i]
  BY DEF Retire, ThreadInv, Final
<1> QED BY <1>4, <1>7, <1>8, <1>9 DEF EndsRun

LEMMA Emptying ==
  ASSUME MemoryLost
  PROVE  Busy' = {} /\ active' = 0 /\ server' = "down"
<1>1. \A h \in Handlers : handler'[h] = Waiting
  BY DEF MemoryLost
<1>2. \A r \in Runs : thread'[r] = "none"
  BY DEF MemoryLost
<1>3. \A r \in Runs : ~BeingCreated(r)' /\ ~Alive(r)'
  BY <1>1, <1>2, WaitingType DEF BeingCreated, Alive, InEngine, StageKinds
<1> QED BY <1>3 DEF Busy, MemoryLost

(* What any step does to the runs that are busy.                           *)
LEMMA BusyStep ==
  ASSUME Inv, [Next]_vars
  PROVE  \/ Quiet
         \/ \E r \in Runs : InsertsRun(r)
         \/ \E r \in Runs : EndsRun(r)
         \/ MemoryLost
<1> USE DEF Inv, TypeInv, TypeOK
<1>1. ASSUME NEW h \in Handlers, NEW r \in Runs, PostRun(h, r) PROVE InsertsRun(r)
  <2>1. thread[r] = "none" /\ \A g \in Handlers : handler[g].run # r
    BY <1>1 DEF PostRun, Fresh, ThreadInv
  <2>2. handler[h].pc \notin Making
    BY <1>1 DEF PostRun, Idle, Making
  <2>3. Insert(h, r) /\ UNCHANGED <<thread, registry>>
    BY <1>1 DEF PostRun, engine
  <2> QED BY <2>1, <2>2, <2>3, Inserting
<1>2. ASSUME NEW h \in Handlers, InsertReplacement(h) PROVE InsertsRun(handler[h].run)
  <2>1. handler[h].run \in Runs /\ thread[handler[h].run] = "none" /\ handler[h].pc = "insert"
    BY <1>2 DEF InsertReplacement, HandlerInv, Bound
  <2>2. \A g \in Handlers : handler[g].run = handler[h].run => g = h
    BY <2>1, RunAssumption DEF HandlerInv
  <2>3. Insert(h, handler[h].run) /\ UNCHANGED <<thread, registry>>
    BY <1>2 DEF InsertReplacement, engine
  <2> QED BY <2>1, <2>2, <2>3, Inserting DEF Making
<1>3. ASSUME NEW h \in Handlers, InsertReplacement(h) PROVE handler[h].run \in Runs
  BY <1>3 DEF InsertReplacement, HandlerInv, Bound
<1>4. Crash \/ StopJoin => MemoryLost
  BY DEF Crash, StopJoin
<1>5. CASE ~Quiet
  <2>1. \/ \E h \in Handlers, r \in Runs : PostRun(h, r)
        \/ \E h \in Handlers : InsertReplacement(h)
        \/ \E r \in Runs : Retire(r)
        \/ Crash \/ StopJoin
    BY <1>5 DEF Quiet, Next, HandlerStep, ThreadStep, StopStep
  <2> QED BY <2>1, <1>1, <1>2, <1>3, <1>4, Ending
<1> QED BY <1>5

LEMMA CountStep == Inv /\ [Next]_vars => CountInv'
<1> SUFFICES ASSUME Inv, [Next]_vars PROVE CountInv'
  OBVIOUS
<1>1. active = Cardinality(Busy) /\ IsFiniteSet(Busy) /\ Cardinality(Busy) \in Nat
  BY BusyIsFinite DEF Inv, CountInv
<1>2. CASE Quiet
  BY <1>1, <1>2, QuietKeepsBusy, QuietActive DEF CountInv
<1>3. ASSUME NEW r \in Runs, InsertsRun(r) PROVE CountInv'
  BY <1>1, <1>3, FS_AddElement DEF InsertsRun, CountInv
<1>4. ASSUME NEW r \in Runs, EndsRun(r) PROVE CountInv'
  BY <1>1, <1>4, FS_RemoveElement DEF EndsRun, CountInv
<1>5. CASE MemoryLost
  BY <1>5, Emptying, FS_EmptySet DEF CountInv
<1> QED BY <1>2, <1>3, <1>4, <1>5, BusyStep

LEMMA RunningBusy ==
  RunningIsAlive <=>
    (server # "down" =>
       /\ \A r \in Runs : status[r] = "running" => r \in Busy
       /\ \A i \in Ids : registry[i] = "running" => \E r \in Busy : IdOf[r] = i)
BY DEF RunningIsAlive, Busy

LEMMA BootRuns ==
  ASSUME Inv, Boot
  PROVE  RunningIsAlive'
<1>1. \A i \in Ids : registry'[i] # "running"
  BY DEF Boot, Reclassified
<1>2. \A r \in Runs : status'[r] # "running"
  BY <1>1, RunAssumption DEF Boot
<1> QED BY <1>1, <1>2 DEF RunningIsAlive

LEMMA QuietRuns ==
  ASSUME Inv, Quiet, server # "down"
  PROVE  RunningIsAlive'
<1>1. /\ \A r \in Runs : status[r] = "running" => r \in Busy
      /\ \A i \in Ids : registry[i] = "running" => \E r \in Busy : IdOf[r] = i
  BY RunningBusy DEF Inv
<1>2. Busy' = Busy
  BY QuietKeepsBusy
<1>3. \A r \in Runs : status'[r] = "running" => r \in Busy'
  BY <1>1, <1>2, QuietStatus DEF StatusKept
<1>4. \A i \in Ids : registry'[i] = "running" => \E r \in Busy' : IdOf[r] = i
  BY <1>1, <1>2, QuietRegistry DEF RegistryKept
<1> QED BY <1>3, <1>4 DEF RunningIsAlive, Busy

LEMMA RunningStep == Inv /\ [Next]_vars => RunningIsAlive'
<1> SUFFICES ASSUME Inv, [Next]_vars, server' # "down" PROVE RunningIsAlive'
  BY DEF RunningIsAlive
<1>1. CASE Boot
  BY <1>1, BootRuns
<1>2. CASE server = "down" /\ ~Boot
  <2>1. server' = "down"
    BY <1>2, DownOrBoot
  <2> QED BY <2>1
<1>3. CASE server # "down"
  <2>1. /\ \A r \in Runs : status[r] = "running" => r \in Busy
        /\ \A i \in Ids : registry[i] = "running" => \E r \in Busy : IdOf[r] = i
    BY <1>3, RunningBusy DEF Inv
  <2>2. ASSUME NEW r \in Runs, InsertsRun(r) PROVE RunningIsAlive'
    BY <2>1, <2>2 DEF InsertsRun, RunningIsAlive, Busy
  <2>3. ASSUME NEW r \in Runs, EndsRun(r) PROVE RunningIsAlive'
    <3>1. \A o \in Runs : status'[o] = "running" => o \in Busy'
      BY <2>1, <2>3 DEF EndsRun
    <3>2. \A i \in Ids : registry'[i] = "running" => \E o \in Busy' : IdOf[o] = i
      BY <2>1, <2>3 DEF EndsRun
    <3> QED BY <3>1, <3>2 DEF RunningIsAlive, Busy
  <2>4. ~MemoryLost
    BY DEF MemoryLost
  <2> QED BY <1>3, <2>2, <2>3, <2>4, QuietRuns, BusyStep
<1> QED BY <1>1, <1>2, <1>3

LEMMA InitInv == Init => Inv
<1> SUFFICES ASSUME Init PROVE Inv
  OBVIOUS
<1> USE RunAssumption DEF Init
<1>1. TypeInv
  <2>1. handler \in [Handlers -> HandlerStates]
    BY WaitingType
  <2>2. /\ runs \in [Ids -> Runs \union {NoRun}] /\ \A i \in Ids : runs[i] = NoRun
        /\ registry \in [Ids -> {"absent"}]
    BY DEF NoRuns
  <2>3. /\ status \in [Runs -> {"absent"}] /\ verdict \in [Runs -> {"absent"}]
        /\ flag \in [Runs -> BOOLEAN] /\ thread \in [Runs -> ThreadStates]
        /\ stages \in [Runs -> 0..MaxStages]
    BY DEF Absent, ThreadStates
  <2>4. server = "down" /\ paused = FALSE /\ joinable = {} /\ woken = {} /\ asked = {}
    OBVIOUS
  <2>5. active \in Nat /\ boots \in 0..MaxBoots /\ requests \in 0..MaxRequests
    BY RunAssumption
  <2> QED BY <2>1, <2>2, <2>3, <2>4, <2>5 DEF TypeInv, TypeOK, KnownIds, Final
<1>2. ThreadInv
  BY DEF ThreadInv, Engaged, InEngine, StageKinds
<1>3. HandlerInv
  BY WaitingType DEF HandlerInv, Bound, Making
<1>4. DownInv /\ RunningIsAlive
  BY DEF DownInv, RunningIsAlive
<1>5. Busy = {}
  BY WaitingType DEF Busy, BeingCreated, Alive, InEngine, StageKinds
<1>6. CountInv
  BY <1>5, FS_EmptySet DEF CountInv
<1> QED BY <1>1, <1>2, <1>3, <1>4, <1>6 DEF Inv

LEMMA NextInv == Inv /\ [Next]_vars => Inv'
BY TypeStep, ThreadInvStep, HandlerStepInv, DownStep, CountStep, RunningStep DEF Inv

THEOREM Invariance == Spec => []Inv
BY InitInv, NextInv, PTL DEF Spec

-----------------------------------------------------------------------------
(* Types, the counter of the running runs among them: it is never taken    *)
(* below zero.                                                             *)
THEOREM TypeCorrect == Spec => []TypeOK
<1>1. Inv => TypeOK
  BY DEF Inv, TypeInv
<1> QED BY <1>1, Invariance, PTL

(* No run is shown or recorded as running without a thread behind it.      *)
THEOREM RunningHasThread == Spec => []RunningIsAlive
<1>1. Inv => RunningIsAlive
  BY DEF Inv
<1> QED BY <1>1, Invariance, PTL

(* The server is idle only when no engine works, and a handler that took a *)
(* run out of the map goes on only when its thread is over.                *)
THEOREM GoneRunsHaveEnded == Spec => GoneHasEnded
<1>1. (CountInv /\ active = 0 => Busy = {})'
  BY NoneBusy, PTL
<1>2. ASSUME Inv', active' = 0, NEW r \in Runs PROVE thread'[r] \in {"none", "ended"}
  <2>1. r \notin Busy'
    BY <1>1, <1>2 DEF Inv
  <2>2. thread'[r] \in ThreadStates
    BY <1>2 DEF Inv, TypeInv, TypeOK
  <2>3. ~Alive(r)'
    BY <2>1 DEF Busy
  <2> QED BY <2>2, <2>3 DEF ThreadStates, Alive
<1>3. Inv' => IdleHasEnded
  BY <1>2 DEF IdleHasEnded
<1>4. ASSUME Inv, [Next]_vars, server' # "down", NEW h \in Handlers,
             handler[h].pc \in {"replace_join", "delete_join"}, handler[h].old # NoRun,
             handler'[h] # handler[h]
      PROVE  thread[handler[h].old] \in {"none", "ended"}
  <2>1. Joined(handler[h].old)
    BY <1>4, LeavingJoins
  <2>2. handler[h].old \in Runs
    BY <1>4, HandlerType DEF Inv, TypeInv, TypeOK
  <2>3. thread[handler[h].old] \in ThreadStates
    BY <1>4, <2>2 DEF Inv, TypeInv, TypeOK
  <2> QED BY <1>4, <2>1, <2>2, <2>3 DEF Joined, Inv, ThreadInv, Engaged, ThreadStates
<1>5. Inv /\ [Next]_vars /\ server' # "down" => JoinedHasEnded
  BY <1>4 DEF JoinedHasEnded
<1>6. Inv /\ Inv' /\ [Next]_vars => (server' # "down" => IdleHasEnded /\ JoinedHasEnded)
  BY <1>3, <1>5
<1> QED BY <1>6, Invariance, PTL DEF Spec, GoneHasEnded

-----------------------------------------------------------------------------
(***************************************************************************)
(* RunManager implements RunLife. The mapping needs two facts besides Inv: *)
(* what is in the map has an object, and a replacement has none until its  *)
(* predecessor has been waited for.                                        *)
(***************************************************************************)
Replacing == {"replace_join", "insert"}
ObjectInv ==
  /\ \A i \in Ids : runs[i] # NoRun => status[runs[i]] # "absent"
  /\ \A h \in Handlers : handler[h].pc \in Replacing => status[handler[h].run] = "absent"

Executing == InEngine \union {"settled"}

(* A step that moves neither an object nor a thread between the parts of   *)
(* its life.                                                               *)
LifeStands ==
  /\ status' = status /\ (server' = "down" <=> server = "down")
  /\ \A r \in Runs : BeingCreated(r)' <=> BeingCreated(r)
  /\ \A r \in Runs : thread'[r] \in Executing <=> thread[r] \in Executing

LEMMA StandingLife ==
  ASSUME LifeStands
  PROVE  UNCHANGED Life!vars
<1>1. \A r \in Runs : LifeOf(r)' = LifeOf(r)
  BY DEF LifeStands, LifeOf, Executing
<1>2. [r \in Runs |-> LifeOf(r)]' = [r \in Runs |-> LifeOf(r)]
  BY <1>1
<1> QED BY <1>2 DEF LifeStands, Life!vars

(* The steps of RunLife that are not stutters.                             *)
Lives ==
  \/ \E h \in Handlers : Launch(h)
  \/ \E h \in Handlers : InsertReplacement(h)
  \/ \E h \in Handlers, r \in Runs : PostRun(h, r)
  \/ \E h \in Handlers, i \in Ids : Cancel(h, i)
  \/ \E i \in Ids : CancelLegacy(i)
  \/ \E r \in Runs : Publish(r)
  \/ Boot \/ Crash \/ StopJoin

LEMMA OtherStepsStand ==
  ASSUME Inv, [Next]_vars, ~Lives
  PROVE  LifeStands
<1> USE RunAssumption DEF Inv, TypeInv, TypeOK, InEngine, StageKinds, Executing
<1>1. CASE StopBegin
  BY <1>1 DEF StopBegin, LifeStands, BeingCreated, object, engine
<1>2. CASE StopCancelRuns
  BY <1>2 DEF StopCancelRuns, LifeStands, BeingCreated, engine
<1>3. CASE StopHttp
  BY <1>3 DEF StopHttp, LifeStands, BeingCreated, object, engine
<1>4. CASE Pause \/ Unpause
  BY <1>4 DEF Pause, Unpause, LifeStands, BeingCreated, object, engine
<1>5. ASSUME NEW h \in Handlers, PersistNew(h) PROVE LifeStands
  BY <1>5 DEF PersistNew, LifeStands, BeingCreated, object, engine
<1>6. ASSUME NEW h \in Handlers, Replaced(h) PROVE LifeStands
  BY <1>6 DEF Replaced, ForgetOld, Waiting, LifeStands, BeingCreated, object
<1>7. ASSUME NEW h \in Handlers, Deleted(h) PROVE LifeStands
  BY <1>7 DEF Deleted, ForgetOld, Waiting, LifeStands, BeingCreated, object
<1>8. ASSUME NEW h \in Handlers, CancelPersist(h) PROVE LifeStands
  BY <1>8 DEF CancelPersist, LifeStands, BeingCreated, object, engine
<1>9. ASSUME NEW h \in Handlers, CancelWake(h) PROVE LifeStands
  BY <1>9 DEF CancelWake, Waiting, LifeStands, BeingCreated, object, engine
<1>10. ASSUME NEW h \in Handlers, NEW r \in Runs, NEW i \in Ids, PostReplace(h, r, i)
       PROVE  LifeStands
  BY <1>10 DEF PostReplace, Idle, LifeStands, BeingCreated, engine
<1>11. ASSUME NEW h \in Handlers, NEW i \in Ids, Delete(h, i) PROVE LifeStands
  BY <1>11 DEF Delete, Idle, LifeStands, BeingCreated, object, engine
<1>12. ASSUME NEW i \in Ids, Answer(i) PROVE LifeStands
  BY <1>12 DEF Answer, Lookup, LifeStands, BeingCreated, object
<1>13. ASSUME NEW r \in Runs, EnterEngine(r) \/ NextStage(r) \/ LeaveSession(r)
       PROVE  LifeStands
  BY <1>13 DEF EnterEngine, NextStage, LeaveSession, Goes, Inside, LifeStands, BeingCreated
<1>14. ASSUME NEW r \in Runs,
              LeavePause(r) \/ ReturnFromLoop(r) \/ FinishWork(r) \/ SpuriousWakeup(r)
       PROVE  LifeStands
  BY <1>14 DEF LeavePause, ReturnFromLoop, FinishWork, SpuriousWakeup, EngineReturns, Goes,
               Inside, LifeStands, BeingCreated
<1>15. ASSUME NEW r \in Runs, Retire(r) PROVE LifeStands
  BY <1>15 DEF Retire, Goes, LifeStands, BeingCreated, object
<1>16. CASE UNCHANGED vars
  BY <1>16 DEF vars, LifeStands, BeingCreated, object, engine
<1>17. ASSUME NEW h \in Handlers, HandlerStep(h) PROVE LifeStands
  BY <1>5, <1>6, <1>7, <1>8, <1>9, <1>17 DEF HandlerStep, Lives
<1>18. ASSUME NEW r \in Runs, ThreadStep(r) PROVE LifeStands
  BY <1>13, <1>14, <1>15, <1>18 DEF ThreadStep, Lives
<1> QED BY <1>1, <1>2, <1>3, <1>4, <1>10, <1>11, <1>12, <1>14, <1>16, <1>17, <1>18
        DEF Lives, Next, StopStep

(* A handler that is making a run works for a server that is up.           *)
LEMMA MakingIsUp ==
  ASSUME Inv, NEW h \in Handlers, handler[h].pc \in Bound
  PROVE  server # "down"
<1>1. server = "down" => handler[h].pc = "waiting"
  BY WaitingType DEF Inv, DownInv
<1> QED BY <1>1 DEF Bound, Making

(* Only a run without a thread is being created.                           *)
LEMMA CreatedHasNoThread ==
  ASSUME Inv, NEW r \in Runs, BeingCreated(r)
  PROVE  thread[r] = "none"
BY DEF Inv, HandlerInv, Bound, Making, BeingCreated

LEMMA InsertCreates ==
  ASSUME Inv, NEW h \in Handlers, NEW r \in Runs, Insert(h, r), UNCHANGED <<server, thread>>,
         status[r] = "absent", server # "down", handler[h].pc \notin Making
  PROVE  Life!Create(r)
<1> USE DEF Inv, TypeInv, TypeOK
<1> DEFINE life == [o \in Runs |-> LifeOf(o)]
<1>1. handler'[h].pc = "persist" /\ handler'[h].run = r
  <2>1. handler'[h] = [Waiting EXCEPT !.pc = "persist", !.run = r]
    BY DEF Insert
  <2> QED BY <2>1 DEF Waiting
<1>2. \A g \in Handlers : g # h => handler'[g] = handler[g]
  BY DEF Insert
<1>3. BeingCreated(r)' /\ \A o \in Runs : o # r => (BeingCreated(o)' <=> BeingCreated(o))
  BY <1>1, <1>2 DEF BeingCreated, Making
<1>4. status' = [status EXCEPT ![r] = "running"] /\ thread' = thread
  BY DEF Insert
<1>5. LifeOf(r) = "unknown" /\ LifeOf(r)' = "created"
  BY <1>3, <1>4 DEF LifeOf
<1>6. \A o \in Runs : o # r => LifeOf(o)' = LifeOf(o)
  BY <1>3, <1>4 DEF LifeOf
<1>7. life' = [life EXCEPT ![r] = "created"]
  BY <1>5, <1>6
<1> QED BY <1>4, <1>5, <1>7 DEF Life!Create

LEMMA LaunchBegins ==
  ASSUME Inv, NEW h \in Handlers, Launch(h), NEW r \in Runs, r = handler[h].run
  PROVE  Life!Begin(r)
<1> USE DEF Inv, TypeInv, TypeOK
<1> DEFINE life == [o \in Runs |-> LifeOf(o)]
<1>1. status[r] # "absent" /\ handler[h].pc = "launch" /\ server # "down"
  BY MakingIsUp DEF Launch, HandlerInv, Bound, Making
<1>2. \A g \in Handlers : handler[g].run = r => g = h
  BY <1>1, RunAssumption DEF HandlerInv
<1>3. /\ handler'[h].pc = "waiting"
      /\ \A g \in Handlers : g # h => handler'[g] = handler[g]
  BY DEF Launch, Waiting
<1>4. BeingCreated(r) /\ ~BeingCreated(r)'
  BY <1>1, <1>2, <1>3 DEF BeingCreated
<1>5. \A o \in Runs : o # r => (BeingCreated(o)' <=> BeingCreated(o))
  BY <1>1, <1>3 DEF BeingCreated
<1>6. status' = status /\ server' = server /\ thread' = [thread EXCEPT ![r] = "launched"]
  BY DEF Launch, object
<1>7. LifeOf(r) = "created" /\ LifeOf(r)' = "executing"
  BY <1>1, <1>4, <1>6 DEF LifeOf, InEngine
<1>8. \A o \in Runs : o # r => LifeOf(o)' = LifeOf(o)
  BY <1>1, <1>5, <1>6 DEF LifeOf
<1>9. life' = [life EXCEPT ![r] = "executing"]
  BY <1>1, <1>7, <1>8
<1> QED BY <1>1, <1>6, <1>7, <1>9 DEF Life!Begin

LEMMA PublishEnds ==
  ASSUME Inv, NEW r \in Runs, Publish(r)
  PROVE  verdict[r] \in Final /\ Life!End(r, verdict[r])
<1> USE DEF Inv, TypeInv, TypeOK
<1> DEFINE life == [o \in Runs |-> LifeOf(o)]
<1>1. thread[r] = "settled" /\ status[r] # "absent" /\ verdict[r] \in Final
  BY DEF Publish, ThreadInv
<1>2. ~BeingCreated(r) /\ server # "down"
  BY <1>1, CreatedHasNoThread DEF DownInv
<1>3. /\ status' = [status EXCEPT ![r] = verdict[r]] /\ server' = server
      /\ thread' = [thread EXCEPT ![r] = "published"] /\ handler' = handler
  BY DEF Publish, Goes
<1>4. \A o \in Runs : BeingCreated(o)' <=> BeingCreated(o)
  BY <1>3 DEF BeingCreated
<1>5. LifeOf(r) = "executing" /\ LifeOf(r)' = "over"
  BY <1>1, <1>2, <1>3, <1>4 DEF LifeOf, InEngine, StageKinds, Final
<1>6. \A o \in Runs : o # r => LifeOf(o)' = LifeOf(o)
  BY <1>3, <1>4 DEF LifeOf
<1>7. life' = [life EXCEPT ![r] = "over"]
  BY <1>5, <1>6
<1> QED BY <1>1, <1>2, <1>3, <1>5, <1>7 DEF Life!End

LEMMA CancelCancels ==
  ASSUME Inv, ObjectInv, NEW i \in Ids, Accepting, Lookup(i),
         status' = [status EXCEPT ![runs[i]] = "cancelled"], UNCHANGED <<server, thread>>,
         \A o \in Runs : BeingCreated(o)' <=> BeingCreated(o)
  PROVE  runs[i] \in Runs /\ Life!Cancel(runs[i])
<1> USE DEF Inv, TypeInv, TypeOK
<1>1. runs[i] \in Runs /\ status[runs[i]] # "absent" /\ server # "down"
  BY DEF Lookup, ObjectInv, Accepting
<1>2. LifeOf(runs[i]) # "unknown"
  BY <1>1 DEF LifeOf
<1>3. \A o \in Runs : LifeOf(o)' = LifeOf(o)
  BY <1>1 DEF LifeOf
<1>4. [o \in Runs |-> LifeOf(o)]' = [o \in Runs |-> LifeOf(o)]
  BY <1>3
<1> QED BY <1>1, <1>2, <1>4 DEF Life!Cancel

LEMMA LostGoesDown ==
  ASSUME Inv, MemoryLost, server # "down"
  PROVE  Life!GoDown
<1>1. server' = "down" /\ status' = [r \in Runs |-> "absent"]
  BY DEF MemoryLost, Absent
<1>2. \A r \in Runs : LifeOf(r)' = "unknown"
  BY <1>1 DEF LifeOf
<1>3. [r \in Runs |-> LifeOf(r)]' = [r \in Runs |-> "unknown"]
  BY <1>2
<1> QED BY <1>1, <1>3 DEF Life!GoDown

LEMMA BootStarts ==
  ASSUME Inv, Boot
  PROVE  \E restored \in SUBSET Runs : \E ends \in [restored -> Final] :
           Life!Start(restored, ends)
<1> USE DEF Inv, TypeInv, TypeOK
<1> DEFINE restored == {r \in Runs : status'[r] # "absent"}
           ends == [r \in restored |-> status'[r]]
<1>1. server = "down" /\ server' = "up" /\ thread' = thread /\ handler' = handler
  BY DEF Boot, engine
<1>2. \A r \in Runs : thread'[r] = "none" /\ ~BeingCreated(r)'
  <2>1. \A h \in Handlers : handler'[h].pc = "waiting"
    BY <1>1, WaitingType DEF DownInv
  <2> QED BY <1>1, <2>1 DEF DownInv, BeingCreated
<1>3. status' \in [Runs -> Final \union {"absent"}]
  <2>1. \A i \in Ids : registry'[i] \in Final \union {"absent"}
    BY DEF Boot, Reclassified, Final
  <2> QED BY <2>1, RunAssumption DEF Boot
<1>4. ends \in [restored -> Final]
  BY <1>3
<1>5. status' = [r \in Runs |-> IF r \in restored THEN ends[r] ELSE "absent"]
  BY <1>3
<1>6. \A r \in Runs : LifeOf(r)' = IF r \in restored THEN "over" ELSE "unknown"
  BY <1>2 DEF LifeOf, InEngine, StageKinds
<1>7. [r \in Runs |-> LifeOf(r)]'
        = [r \in Runs |-> IF r \in restored THEN "over" ELSE "unknown"]
  BY <1>6
<1>8. Life!Start(restored, ends)
  BY <1>1, <1>5, <1>7 DEF Life!Start
<1> QED BY <1>4, <1>8

LEMMA ObjectStep == Inv /\ ObjectInv /\ [Next]_vars => ObjectInv'
<1> SUFFICES ASSUME Inv, ObjectInv, [Next]_vars PROVE ObjectInv'
  OBVIOUS
<1> USE RunAssumption DEF Inv, TypeInv, TypeOK, ObjectInv, Replacing
<1>1. CASE Boot
  <2>1. \A h \in Handlers : handler'[h].pc = "waiting"
    BY <1>1, WaitingType DEF Boot, DownInv
  <2>2. ASSUME NEW i \in Ids, registry[i] # "absent"
        PROVE  runs'[i] \in Runs /\ IdOf[runs'[i]] = i /\ status'[runs'[i]] = registry'[i]
    <3>1. PICK r \in Runs : IdOf[r] = i
      BY <2>2 DEF KnownIds
    <3>2. runs'[i] = CHOOSE o \in Runs : IdOf[o] = i
      BY <1>1, <2>2 DEF Boot
    <3>3. runs'[i] \in Runs /\ IdOf[runs'[i]] = i
      BY <3>1, <3>2
    <3> QED BY <1>1, <2>2, <3>2, <3>3 DEF Boot
  <2>3. \A i \in Ids : registry[i] # "absent" => registry'[i] # "absent"
    BY <1>1 DEF Boot, Reclassified
  <2>4. \A i \in Ids : registry[i] = "absent" => runs'[i] = NoRun
    BY <1>1 DEF Boot
  <2> QED BY <2>1, <2>2, <2>3, <2>4
<1>2. CASE MemoryLost
  <2>1. \A h \in Handlers : handler'[h].pc = "waiting"
    BY <1>2, WaitingType DEF MemoryLost
  <2> QED BY <1>2, <2>1 DEF MemoryLost, NoRuns
<1>3. CASE LifeStands /\ ~Lives /\ ~MemoryLost
  <2>1. ASSUME NEW h \in Handlers, NEW r \in Runs, NEW i \in Ids, PostReplace(h, r, i)
        PROVE  ObjectInv'
    <3>1. handler'[h].run = r /\ \A g \in Handlers : g # h => handler'[g] = handler[g]
      BY <2>1 DEF PostReplace
    <3> QED BY <1>3, <2>1, <3>1 DEF PostReplace, Fresh, LifeStands
  <2>2. ASSUME NEW h \in Handlers, HandlerStep(h)
        PROVE  ObjectInv'
    <3>1. runs' = runs /\ \A g \in Handlers : g # h => handler'[g] = handler[g]
      BY <1>3, <2>2 DEF Lives, HandlerStep, PersistNew, Replaced, Deleted, ForgetOld,
                        CancelPersist, CancelWake
    <3>2. CASE PersistNew(h) \/ CancelPersist(h)
      <4>1. handler'[h].pc \in {"launch", "cancel_wake"}
        <5>1. \E p \in {"launch", "cancel_wake"} : handler'[h] = [handler[h] EXCEPT !.pc = p]
          BY <3>2 DEF PersistNew, CancelPersist
        <5>2. handler[h] \in HandlerStates
          OBVIOUS
        <5> QED BY ONLY <5>1, <5>2 DEF HandlerStates
      <4> QED BY <1>3, <3>1, <4>1 DEF LifeStands
    <3>3. CASE Replaced(h)
      <4>1. handler[h].pc \in Replacing /\ handler'[h].run = handler[h].run
        BY <3>3 DEF Replaced, ForgetOld, Waiting
      <4> QED BY <1>3, <3>1, <4>1 DEF LifeStands
    <3>4. CASE Deleted(h) \/ CancelWake(h)
      <4>1. handler'[h].pc = "waiting"
        <5>1. CASE Deleted(h)
          <6>1. handler'[h] = [Waiting EXCEPT !.pc = "waiting", !.run = NoRun]
            BY <5>1 DEF Deleted, ForgetOld
          <6> QED BY ONLY <6>1 DEF Waiting
        <5>2. CASE CancelWake(h)
          <6>1. handler'[h] = Waiting
            BY <5>2 DEF CancelWake
          <6> QED BY ONLY <6>1 DEF Waiting
        <5> QED BY <3>4, <5>1, <5>2
      <4> QED BY <1>3, <3>1, <4>1 DEF LifeStands
    <3> QED BY <1>3, <2>2, <3>2, <3>3, <3>4 DEF Lives, HandlerStep
  <2>3. ASSUME NEW h \in Handlers, NEW i \in Ids, Delete(h, i)
        PROVE  ObjectInv'
    BY <1>3, <2>3 DEF Delete, LifeStands
  <2>4. CASE runs' = runs /\ handler' = handler
    BY <1>3, <2>4 DEF LifeStands
  <2>5. ASSUME NEW r \in Runs, ThreadStep(r) \/ SpuriousWakeup(r)
        PROVE  runs' = runs /\ handler' = handler
    BY <1>3, <2>5 DEF Lives, ThreadStep, EnterEngine, NextStage, LeavePause, ReturnFromLoop,
                FinishWork, LeaveSession, Retire, SpuriousWakeup, Inside
  <2>6. ASSUME NEW i \in Ids, Answer(i)
        PROVE  runs' = runs /\ handler' = handler
    BY <2>6 DEF Answer
  <2>7. CASE StopBegin \/ StopCancelRuns \/ StopHttp \/ Pause \/ Unpause \/ UNCHANGED vars
    BY <2>4, <2>7 DEF StopBegin, StopCancelRuns, StopHttp, Pause, Unpause, vars
  <2> QED BY <1>3, <2>1, <2>2, <2>3, <2>4, <2>5, <2>6, <2>7 DEF Lives, Next, StopStep
<1>4. ASSUME NEW h \in Handlers, NEW r \in Runs, Insert(h, r),
             \A g \in Handlers : handler[g].run = r => g = h
      PROVE  ObjectInv'
  <2>1. handler'[h] = [Waiting EXCEPT !.pc = "persist", !.run = r]
    BY <1>4 DEF Insert
  <2>2. handler'[h].pc = "persist" /\ \A g \in Handlers : g # h => handler'[g] = handler[g]
    BY <1>4, <2>1 DEF Insert, Waiting
  <2>3. \A g \in Handlers :
          g # h /\ handler[g].pc \in Replacing => handler[g].run \in Runs /\ handler[g].run # r
    BY <1>4 DEF HandlerInv, Bound
  <2>4. status' = [status EXCEPT ![r] = "running"] /\ runs' = [runs EXCEPT ![IdOf[r]] = r]
    BY <1>4 DEF Insert
  <2>5. \A o \in Runs : status[o] # "absent" => status'[o] # "absent"
    BY <2>4
  <2>6. \A i \in Ids : runs'[i] # NoRun => status'[runs'[i]] # "absent"
    BY <2>4, <2>5
  <2> QED BY <2>2, <2>3, <2>4, <2>6
<1>5. ASSUME NEW h \in Handlers, NEW r \in Runs, PostRun(h, r) PROVE ObjectInv'
  BY <1>4, <1>5 DEF PostRun, Fresh
<1>6. ASSUME NEW h \in Handlers, InsertReplacement(h) PROVE ObjectInv'
  <2>1. handler[h].run \in Runs /\ \A g \in Handlers : handler[g].run = handler[h].run => g = h
    BY <1>6 DEF InsertReplacement, HandlerInv, Bound
  <2> QED BY <1>4, <1>6, <2>1 DEF InsertReplacement
<1>7. ASSUME NEW h \in Handlers, Launch(h) PROVE ObjectInv'
  <2>1. handler'[h].pc = "waiting" /\ \A g \in Handlers : g # h => handler'[g] = handler[g]
    BY <1>7 DEF Launch, Waiting
  <2> QED BY <1>7, <2>1 DEF Launch, object
<1>8. ASSUME NEW r \in Runs, NEW s \in Final, status' = [status EXCEPT ![r] = s],
             status[r] # "absent", runs' = runs,
             \A h \in Handlers : handler'[h].pc \in Replacing => handler'[h] = handler[h]
      PROVE  ObjectInv'
  <2>1. \A o \in Runs : status'[o] = "absent" <=> status[o] = "absent"
    BY <1>8 DEF Final
  <2>2. \A h \in Handlers : handler[h].pc \in Replacing => handler[h].run \in Runs
    BY DEF HandlerInv, Bound
  <2> QED BY <1>8, <2>1, <2>2
<1>9. ASSUME NEW h \in Handlers, NEW i \in Ids, Cancel(h, i) PROVE ObjectInv'
  <2>1. /\ handler'[h].pc = "cancel_persist"
        /\ \A g \in Handlers : g # h => handler'[g] = handler[g]
    BY <1>9 DEF Cancel
  <2>2. runs[i] \in Runs /\ status[runs[i]] # "absent" /\ "cancelled" \in Final
    BY <1>9 DEF Cancel, Lookup, Final
  <2> QED BY <1>8, <1>9, <2>1, <2>2 DEF Cancel
<1>10. ASSUME NEW i \in Ids, CancelLegacy(i) PROVE ObjectInv'
  <2>1. runs[i] \in Runs /\ status[runs[i]] # "absent" /\ "cancelled" \in Final
    BY <1>10 DEF CancelLegacy, Lookup, Final
  <2> QED BY <1>8, <1>10, <2>1 DEF CancelLegacy
<1>11. ASSUME NEW r \in Runs, Publish(r) PROVE ObjectInv'
  <2>1. status[r] # "absent" /\ verdict[r] \in Final
    BY <1>11 DEF Publish, ThreadInv
  <2> QED BY <1>8, <1>11, <2>1 DEF Publish
<1>12. Crash \/ StopJoin => MemoryLost
  BY DEF Crash, StopJoin
<1>13. CASE Lives
  BY <1>1, <1>2, <1>5, <1>6, <1>7, <1>9, <1>10, <1>11, <1>12, <1>13 DEF Lives
<1> QED BY <1>2, <1>3, <1>13, OtherStepsStand

LEMMA LifeStep ==
  ASSUME Inv, ObjectInv, [Next]_vars
  PROVE  [Life!Next]_(Life!vars)
<1> USE DEF Inv, TypeInv, TypeOK
<1>1. CASE ~Lives
  BY <1>1, OtherStepsStand, StandingLife
<1>2. CASE Boot
  BY <1>2, BootStarts DEF Life!Next
<1>3. CASE Crash \/ StopJoin
  <2>1. server # "down" /\ MemoryLost
    BY <1>3 DEF Crash, StopJoin
  <2> QED BY <2>1, LostGoesDown DEF Life!Next
<1>4. ASSUME NEW h \in Handlers, Launch(h) PROVE Life!Next
  <2>1. handler[h].run \in Runs
    BY <1>4 DEF Launch, HandlerInv, Bound, Making
  <2>2. Life!Begin(handler[h].run)
    BY <1>4, <2>1, LaunchBegins
  <2> QED BY <2>1, <2>2 DEF Life!Next
<1>5. ASSUME NEW h \in Handlers, NEW r \in Runs, PostRun(h, r) PROVE Life!Next
  <2>1. Insert(h, r) /\ UNCHANGED <<server, thread>> /\ status[r] = "absent"
    BY <1>5 DEF PostRun, Fresh, engine
  <2>2. server # "down" /\ handler[h].pc \notin Making
    BY <1>5 DEF PostRun, Idle, Accepting, Making
  <2>3. Life!Create(r)
    BY <2>1, <2>2, InsertCreates
  <2> QED BY <2>3 DEF Life!Next
<1>6. ASSUME NEW h \in Handlers, InsertReplacement(h) PROVE Life!Next
  <2>1. Insert(h, handler[h].run) /\ UNCHANGED <<server, thread>> /\ handler[h].pc = "insert"
    BY <1>6 DEF InsertReplacement, engine
  <2>2. handler[h].run \in Runs /\ status[handler[h].run] = "absent"
    BY <2>1 DEF HandlerInv, Bound, ObjectInv, Replacing
  <2>3. server # "down" /\ handler[h].pc \notin Making
    BY <2>1, MakingIsUp DEF Bound, Making
  <2>4. Life!Create(handler[h].run)
    BY <2>1, <2>2, <2>3, InsertCreates
  <2> QED BY <2>2, <2>4 DEF Life!Next
<1>7. ASSUME NEW i \in Ids,
             CancelLegacy(i) \/ \E h \in Handlers : Cancel(h, i)
      PROVE  Life!Next
  <2>1. /\ Accepting /\ Lookup(i) /\ status' = [status EXCEPT ![runs[i]] = "cancelled"]
        /\ UNCHANGED <<server, thread>>
    BY <1>7 DEF CancelLegacy, Cancel, Idle, engine
  <2>2. \A o \in Runs : BeingCreated(o)' <=> BeingCreated(o)
    <3>1. CASE CancelLegacy(i)
      BY <3>1 DEF CancelLegacy, BeingCreated
    <3>2. ASSUME NEW h \in Handlers, Cancel(h, i)
          PROVE  \A o \in Runs : BeingCreated(o)' <=> BeingCreated(o)
      BY <3>2 DEF Cancel, Idle, BeingCreated
    <3> QED BY <1>7, <3>1, <3>2
  <2>3. runs[i] \in Runs /\ Life!Cancel(runs[i])
    BY <2>1, <2>2, CancelCancels
  <2> QED BY <2>3 DEF Life!Next
<1>8. ASSUME NEW r \in Runs, Publish(r) PROVE Life!Next
  BY <1>8, PublishEnds DEF Life!Next
<1> QED BY <1>1, <1>2, <1>3, <1>4, <1>5, <1>6, <1>7, <1>8 DEF Lives

LEMMA LifeInit == Init => Life!Init /\ ObjectInv
<1> SUFFICES ASSUME Init PROVE Life!Init /\ ObjectInv
  OBVIOUS
<1>1. \A r \in Runs : LifeOf(r) = "unknown"
  BY DEF Init, Absent, LifeOf
<1>2. Life!Init
  BY <1>1 DEF Life!Init, Init, Absent
<1>3. \A h \in Handlers : handler[h].pc = "waiting"
  BY WaitingType DEF Init
<1> QED BY <1>2, <1>3 DEF ObjectInv, Replacing, Init, NoRuns

(* Each run has one life, whatever requests, threads, crashes and restarts *)
(* come together: it is created once, executes once, publishes one verdict *)
(* and is shown as running only until then. The handlers, the map and the  *)
(* counter of the server implement RunLife.                                *)
THEOREM ServerImplementsLife == Spec => ImplementsLife
<1>1. Spec => [](Inv /\ ObjectInv)
  BY InitInv, NextInv, LifeInit, ObjectStep, PTL DEF Spec
<1>2. Inv /\ ObjectInv /\ [Next]_vars => [Life!Next]_(Life!vars)
  BY LifeStep
<1> QED BY <1>1, <1>2, LifeInit, PTL DEF Spec, ImplementsLife, Life!Spec
=============================================================================
