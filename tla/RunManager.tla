----------------------------- MODULE RunManager -----------------------------
(***************************************************************************)
(* The runs of the HTTP server: the handlers that create, resume, replace, *)
(* cancel and delete a run, the thread each run executes its engine in,    *)
(* the registry that survives the process, and the server's start, stop    *)
(* and crash.                                                              *)
(*                                                                         *)
(* Handlers run concurrently in the worker threads of the HTTP library, so *)
(* each is a sequence of steps, split where it releases runs_mutex_ or     *)
(* where a run's thread, which never takes that mutex, can get in between. *)
(* The engine is reduced to what holds its thread: a pause, a stage that   *)
(* works, an interactive stage that waits for its session, a human gate    *)
(* that waits for its answer. PipelineEngine has the rest of it.           *)
(***************************************************************************)
EXTENDS Naturals, FiniteSets

CONSTANTS
  Runs,        \* PipelineRun objects
  NoRun,
  Ids,         \* run ids
  IdOf,        \* [Runs -> Ids]: what generate_run_id returned for the object
  Resumed,     \* the objects POST /api/v1/resume creates: their threads call
               \* resume() and not run()
  Handlers,    \* worker threads of the HTTP library
  Stages,      \* kinds of stage in the graphs: subset of the three below
  MaxStages,   \* bound: stages of a run
  MaxBoots,    \* bound: times the server is started
  MaxRequests  \* bound: requests that create, replace, delete, cancel or pause

StageKinds == {"work", "interactive", "gate"}

ASSUME RunAssumption ==
  /\ NoRun \notin Runs /\ IsFiniteSet(Runs)
  /\ IdOf \in [Runs -> Ids]
  /\ Stages \subseteq StageKinds
  /\ MaxStages \in Nat /\ MaxBoots \in Nat /\ MaxRequests \in Nat
  /\ Resumed \subseteq Runs

Final == {"completed", "failed", "cancelled"}
InEngine == {"launched", "head", "paused"} \union StageKinds
ThreadStates == InEngine \union {"none", "settled", "published", "ended"}
HandlerSteps == {"waiting", "persist", "launch", "replace_join", "insert", "delete_join",
                 "cancel_persist", "cancel_wake"}
HandlerStates == [pc : HandlerSteps, run : Runs \union {NoRun}, old : Runs \union {NoRun},
                  oldId : Ids \union {NoRun}]
Waiting == [pc |-> "waiting", run |-> NoRun, old |-> NoRun, oldId |-> NoRun]

VARIABLES
  server,     \* where start(), or the stop() after it, is
  paused,     \* PauseController::paused
  runs,       \* runs_: [Ids -> Runs or NoRun]
  status,     \* PipelineRun::status_, "absent" before the object exists
  flag,       \* PipelineRun::cancelled
  thread,     \* where the run's thread is
  stages,     \* the stages it has executed
  verdict,    \* the status it will publish
  joinable,   \* the runs whose run_thread is assigned and not joined
  woken,      \* the runs whose interactive session has been notified
  active,     \* active_runs_
  registry,   \* runs.json: [Ids -> status or "absent"]
  handler,    \* what each worker thread is doing, and to which runs
  asked,      \* history: runs asked to stop while head, stage or session held them
  boots,      \* starts of the server so far
  requests    \* requests served so far that change something

object == <<status, flag>>
bounds == <<boots, requests>>
engine == <<thread, stages, verdict, joinable>>
vars == <<server, paused, runs, object, engine, woken, active, registry, handler, asked, boots,
          requests>>

-----------------------------------------------------------------------------
NoRuns == [i \in Ids |-> NoRun]
Absent == [r \in Runs |-> "absent"]
Listed == {runs[i] : i \in Ids} \ {NoRun}

Accepting == server \in {"up", "stopping", "flagged"}

(* /runs/:id/cancel holds runs_mutex_ from its lookup to its answer.       *)
MutexFree == \A h \in Handlers : handler[h].pc \notin {"cancel_persist", "cancel_wake"}
Idle(h) == Accepting /\ handler[h].pc = "waiting"
Lookup(i) == MutexFree /\ runs[i] # NoRun

(* cv.notify_all on the interactive sessions of the runs in rs.            *)
Notified(rs) == woken \union {r \in rs : thread[r] = "interactive"}
Asked(rs) == asked \union {r \in rs : thread[r] \in {"head", "work", "interactive"}}

(* What is left of the process's memory when it is gone.                   *)
MemoryLost ==
  /\ server' = "down" /\ paused' = FALSE /\ runs' = NoRuns /\ active' = 0
  /\ status' = Absent /\ flag' = [r \in Runs |-> FALSE]
  /\ thread' = [r \in Runs |-> "none"] /\ stages' = [r \in Runs |-> 0]
  /\ verdict' = Absent /\ joinable' = {} /\ woken' = {} /\ asked' = {}
  /\ handler' = [h \in Handlers |-> Waiting]

Init ==
  /\ server = "down" /\ paused = FALSE /\ runs = NoRuns /\ active = 0
  /\ status = Absent /\ flag = [r \in Runs |-> FALSE]
  /\ thread = [r \in Runs |-> "none"] /\ stages = [r \in Runs |-> 0]
  /\ verdict = Absent /\ joinable = {} /\ woken = {} /\ asked = {}
  /\ handler = [h \in Handlers |-> Waiting]
  /\ registry = [i \in Ids |-> "absent"] /\ boots = 0 /\ requests = 0

-----------------------------------------------------------------------------
(* Mutant: the registry is taken at its word.                              *)
ReclassifiedTrusting(s) == s

(* A run that was under way when the process went away has failed.         *)
Reclassified(s) == IF s = "running" THEN "failed" ELSE s

(* start(): an object for every entry of the registry, none with a thread. *)
Boot ==
  LET object_of(i) == CHOOSE r \in Runs : IdOf[r] = i
      loaded == {i \in Ids : registry[i] # "absent"}
  IN /\ server = "down" /\ boots < MaxBoots
     /\ server' = "up" /\ boots' = boots + 1
     /\ runs' = [i \in Ids |-> IF i \in loaded THEN object_of(i) ELSE NoRun]
     /\ registry' = [i \in Ids |-> Reclassified(registry[i])]
     /\ status' = [r \in Runs |-> IF IdOf[r] \in loaded /\ r = object_of(IdOf[r])
                                  THEN registry'[IdOf[r]] ELSE "absent"]
     /\ UNCHANGED <<paused, flag, engine, woken, active, handler, asked, requests>>

Crash ==
  /\ server # "down"
  /\ MemoryLost
  /\ UNCHANGED <<registry, bounds>>

-----------------------------------------------------------------------------
Counted == requests < MaxRequests /\ requests' = requests + 1 /\ UNCHANGED boots
Fresh(r) == status[r] = "absent" /\ \A h \in Handlers : handler[h].run # r

(* Mutant: a resumed run is not counted.                                   *)
InsertUncounted(h, r) ==
  /\ MutexFree
  /\ runs' = [runs EXCEPT ![IdOf[r]] = r]
  /\ status' = [status EXCEPT ![r] = "running"]
  /\ active' = IF r \in Resumed THEN active ELSE active + 1
  /\ handler' = [handler EXCEPT ![h] = [Waiting EXCEPT !.pc = "persist", !.run = r]]

(* The new object enters the map under its id, whoever had that id before. *)
Insert(h, r) ==
  /\ MutexFree
  /\ runs' = [runs EXCEPT ![IdOf[r]] = r]
  /\ status' = [status EXCEPT ![r] = "running"]
  /\ active' = active + 1
  /\ handler' = [handler EXCEPT ![h] = [Waiting EXCEPT !.pc = "persist", !.run = r]]

(* POST /api/v1/runs and /pipelines; POST /api/v1/resume without a run to  *)
(* replace.                                                                *)
PostRun(h, r) ==
  /\ Idle(h) /\ Fresh(r)
  /\ Insert(h, r)
  /\ Counted
  /\ UNCHANGED <<server, paused, flag, engine, woken, registry, asked>>

(* add_entry with the status the object has by now, and save.              *)
PersistNew(h) ==
  LET r == handler[h].run IN
  /\ handler[h].pc = "persist"
  /\ registry' = [registry EXCEPT ![IdOf[r]] = status[r]]
  /\ handler' = [handler EXCEPT ![h].pc = "launch"]
  /\ UNCHANGED <<server, paused, runs, object, engine, woken, active, asked, bounds>>

Launch(h) ==
  LET r == handler[h].run IN
  /\ handler[h].pc = "launch"
  /\ thread' = [thread EXCEPT ![r] = "launched"]
  /\ joinable' = joinable \union {r}
  /\ handler' = [handler EXCEPT ![h] = Waiting]
  /\ UNCHANGED <<server, paused, runs, object, stages, verdict, woken, active, registry, asked,
                 bounds>>

(* POST /api/v1/resume with replace_run_id: the old run is cancelled if it *)
(* runs, leaves the map, and is waited for outside the lock.               *)
PostReplace(h, r, i) ==
  LET old == runs[i]
      running == IF old # NoRun /\ status[old] = "running" THEN {old} ELSE {}
  IN /\ Idle(h) /\ Fresh(r) /\ r \in Resumed /\ MutexFree
     /\ old # NoRun \/ registry[i] # "absent"
     /\ flag' = [o \in Runs |-> flag[o] \/ o \in running]
     /\ woken' = Notified(running) /\ asked' = Asked(running)
     /\ runs' = [runs EXCEPT ![i] = NoRun]
     /\ handler' = [handler EXCEPT ![h] =
                      [pc |-> "replace_join", run |-> r, old |-> old, oldId |-> i]]
     /\ Counted
     /\ UNCHANGED <<server, paused, status, engine, active, registry>>

(* Mutant: the thread of the run is not waited for.                        *)
JoinedAtOnce(r) == TRUE

(* run_thread.join(), for a thread that has been assigned.                 *)
Joined(r) == r \in joinable => thread[r] = "ended"

(* The old run's thread is joined and its entry is removed and saved.      *)
ForgetOld(h, pc) ==
  /\ Joined(handler[h].old)
  /\ joinable' = joinable \ {handler[h].old}
  /\ registry' = [registry EXCEPT ![handler[h].oldId] = "absent"]
  /\ handler' = [handler EXCEPT ![h] = [Waiting EXCEPT !.pc = pc,
                   !.run = IF pc = "waiting" THEN NoRun ELSE handler[h].run]]
  /\ UNCHANGED <<server, paused, runs, object, thread, stages, verdict, woken, active, asked,
                 bounds>>

Replaced(h) == handler[h].pc = "replace_join" /\ ForgetOld(h, "insert")

InsertReplacement(h) ==
  /\ handler[h].pc = "insert"
  /\ Insert(h, handler[h].run)
  /\ UNCHANGED <<server, paused, flag, engine, woken, registry, asked, bounds>>

(* DELETE /api/v1/runs/:id: refused for a run whose status is "running".   *)
Delete(h, i) ==
  /\ Idle(h) /\ Lookup(i) /\ status[runs[i]] # "running"
  /\ runs' = [runs EXCEPT ![i] = NoRun]
  /\ handler' = [handler EXCEPT ![h] =
                   [pc |-> "delete_join", run |-> NoRun, old |-> runs[i], oldId |-> i]]
  /\ Counted
  /\ UNCHANGED <<server, paused, object, engine, woken, active, registry, asked>>

Deleted(h) == handler[h].pc = "delete_join" /\ ForgetOld(h, "waiting")

-----------------------------------------------------------------------------
(* POST /api/v1/runs/:id/cancel: the flag and the status, ...              *)
Cancel(h, i) ==
  /\ Idle(h) /\ Lookup(i)
  /\ flag' = [flag EXCEPT ![runs[i]] = TRUE]
  /\ status' = [status EXCEPT ![runs[i]] = "cancelled"]
  /\ asked' = Asked({runs[i]})
  /\ handler' = [handler EXCEPT ![h] =
                   [pc |-> "cancel_persist", run |-> NoRun, old |-> runs[i], oldId |-> i]]
  /\ Counted
  /\ UNCHANGED <<server, paused, runs, engine, woken, active, registry>>

(* ... the registry, if it has the entry by now, ...                       *)
CancelPersist(h) ==
  LET i == handler[h].oldId IN
  /\ handler[h].pc = "cancel_persist"
  /\ registry' = IF registry[i] = "absent" THEN registry
                 ELSE [registry EXCEPT ![i] = "cancelled"]
  /\ handler' = [handler EXCEPT ![h].pc = "cancel_wake"]
  /\ UNCHANGED <<server, paused, runs, object, engine, woken, active, asked, bounds>>

(* Mutant: an interactive session is not told.                             *)
CancelWakeSilent(h) ==
  /\ handler[h].pc = "cancel_wake"
  /\ handler' = [handler EXCEPT ![h] = Waiting]
  /\ UNCHANGED <<server, paused, runs, object, engine, woken, active, registry, asked, bounds>>

(* ... and the interactive session. The kill of all child processes makes  *)
(* a working stage end soon, which it does anyway.                         *)
CancelWake(h) ==
  /\ handler[h].pc = "cancel_wake"
  /\ woken' = Notified({handler[h].old})
  /\ handler' = [handler EXCEPT ![h] = Waiting]
  /\ UNCHANGED <<server, paused, runs, object, engine, active, registry, asked, bounds>>

(* POST /pipelines/:id/cancel: the flag and the status only.               *)
CancelLegacy(i) ==
  /\ Accepting /\ Lookup(i)
  /\ flag' = [flag EXCEPT ![runs[i]] = TRUE]
  /\ status' = [status EXCEPT ![runs[i]] = "cancelled"]
  /\ Counted
  /\ UNCHANGED <<server, paused, runs, engine, woken, active, registry, handler,
                 asked>>

(* POST /api/v1/pause and /api/v1/pause/resume.                            *)
Pause ==
  /\ Accepting /\ ~paused /\ paused' = TRUE
  /\ Counted
  /\ UNCHANGED <<server, runs, object, engine, woken, active, registry, handler, asked>>

Unpause ==
  /\ Accepting /\ paused /\ paused' = FALSE
  /\ UNCHANGED <<server, runs, object, engine, woken, active, registry, handler, asked, bounds>>

(* /runs/:id/continue to a session, /pipelines/:id/answer to a human gate. *)
Answer(i) ==
  /\ Accepting /\ Lookup(i) /\ thread[runs[i]] \in {"interactive", "gate"}
  /\ thread' = [thread EXCEPT ![runs[i]] = "head"]
  /\ woken' = woken \ {runs[i]}
  /\ UNCHANGED <<server, paused, runs, object, stages, verdict, joinable, active, registry,
                 handler, asked, bounds>>

-----------------------------------------------------------------------------
Goes(r, to) == thread' = [thread EXCEPT ![r] = to]
Inside == <<server, paused, runs, status, joinable, active, registry, handler, bounds>>

(***************************************************************************)
(* The engine returns; the run's thread decides on the status. A run whose *)
(* flag is up was cancelled, but the thread of a resumed run does not look.*)
(***************************************************************************)
Verdict(r, outcome) ==
  IF r \notin Resumed /\ flag[r] THEN "cancelled" ELSE outcome
EngineReturns(r, outcome) ==
  /\ Goes(r, "settled")
  /\ verdict' = [verdict EXCEPT ![r] = Verdict(r, outcome)]

(* run() and resume() lower the flag; run() does before it looks at the    *)
(* graph, which it may refuse, resume() only after.                        *)
EnterEngine(r) ==
  /\ thread[r] = "launched"
  /\ \/ /\ flag' = [flag EXCEPT ![r] = FALSE]
        /\ Goes(r, "head") /\ UNCHANGED verdict
     \/ /\ flag' = IF r \in Resumed THEN flag ELSE [flag EXCEPT ![r] = FALSE]
        /\ Goes(r, "settled") /\ verdict' = [verdict EXCEPT ![r] = "failed"]
  /\ UNCHANGED <<Inside, stages, woken, asked>>

(* The head of the loop.                                                   *)
NextStage(r) ==
  /\ thread[r] = "head" /\ ~flag[r] /\ stages[r] < MaxStages
  /\ IF paused THEN Goes(r, "paused") /\ UNCHANGED stages
     ELSE /\ \E kind \in Stages : Goes(r, kind)
          /\ stages' = [stages EXCEPT ![r] = @ + 1]
  /\ UNCHANGED <<Inside, flag, verdict, woken, asked>>

(* resume() of the pause controller wakes the thread, which goes on to its *)
(* stage unless the flag is up; a cancel alone wakes nobody.               *)
LeavePause(r) ==
  /\ thread[r] = "paused" /\ ~paused
  /\ IF flag[r] THEN EngineReturns(r, "failed") /\ UNCHANGED stages
     ELSE /\ \E kind \in Stages : Goes(r, kind)
          /\ stages' = [stages EXCEPT ![r] = @ + 1]
          /\ UNCHANGED verdict
  /\ UNCHANGED <<Inside, flag, woken, asked>>

(* The exit is reached, or the flag stops the run there or before it.      *)
ReturnFromLoop(r) ==
  /\ thread[r] = "head"
  /\ \/ flag[r] /\ EngineReturns(r, "failed")
     \/ ~flag[r] /\ stages[r] = MaxStages /\ EngineReturns(r, "completed")
  /\ UNCHANGED <<Inside, flag, stages, woken, asked>>

(* A stage that works ends on its own, and its failure may end the run.    *)
FinishWork(r) ==
  /\ thread[r] = "work"
  /\ \/ Goes(r, "head") /\ UNCHANGED verdict
     \/ EngineReturns(r, "failed")
  /\ UNCHANGED <<Inside, flag, stages, woken, asked>>

(* An interactive stage leaves its wait when it is told of the flag.       *)
LeaveSession(r) ==
  /\ thread[r] = "interactive" /\ flag[r] /\ r \in woken
  /\ Goes(r, "head")
  /\ woken' = woken \ {r}
  /\ UNCHANGED <<Inside, flag, stages, verdict, asked>>

(* Condition variables may wake up on their own; both waits then look at   *)
(* the flag. Nothing can be built on it, so it is not fair.                *)
SpuriousWakeup(r) ==
  /\ flag[r]
  /\ \/ thread[r] = "interactive" /\ Goes(r, "head") /\ UNCHANGED verdict
     \/ thread[r] = "paused" /\ EngineReturns(r, "failed")
  /\ woken' = woken \ {r}
  /\ UNCHANGED <<Inside, flag, stages, asked>>

(* The tail of the run's thread: status, registry, counter.                *)
Publish(r) ==
  /\ thread[r] = "settled"
  /\ status' = [status EXCEPT ![r] = verdict[r]]
  /\ Goes(r, "published")
  /\ UNCHANGED <<server, paused, runs, flag, stages, verdict, joinable, woken, active,
                 registry, handler, asked, bounds>>

(* Mutant: the final status stays in memory.                               *)
RetireUnsaved(r) ==
  /\ thread[r] = "published"
  /\ active' = active - 1
  /\ Goes(r, "ended") /\ verdict' = [verdict EXCEPT ![r] = "absent"]
  /\ stages' = [stages EXCEPT ![r] = 0] /\ asked' = asked \ {r}
  /\ UNCHANGED <<server, paused, runs, object, joinable, woken, registry,
                 handler, bounds>>

Retire(r) ==
  /\ thread[r] = "published"
  /\ registry' = IF registry[IdOf[r]] = "absent" THEN registry
                 ELSE [registry EXCEPT ![IdOf[r]] = verdict[r]]
  /\ active' = active - 1
  /\ Goes(r, "ended") /\ verdict' = [verdict EXCEPT ![r] = "absent"]
  /\ stages' = [stages EXCEPT ![r] = 0] /\ asked' = asked \ {r}
  /\ UNCHANGED <<server, paused, runs, object, joinable, woken, handler, bounds>>

-----------------------------------------------------------------------------
(* stop(): paused engines are let go, ...                                  *)
StopBegin ==
  /\ server = "up"
  /\ server' = "stopping" /\ paused' = FALSE
  /\ UNCHANGED <<runs, object, engine, woken, active, registry, handler, asked, bounds>>

(* ... every run in the map is cancelled and its session told, ...         *)
StopCancelRuns ==
  /\ server = "stopping" /\ MutexFree
  /\ flag' = [r \in Runs |-> flag[r] \/ r \in Listed]
  /\ woken' = Notified(Listed) /\ asked' = Asked(Listed)
  /\ server' = "flagged"
  /\ UNCHANGED <<paused, runs, status, engine, active, registry, handler, bounds>>

(* ... the HTTP server stops, its workers finish what they are doing, ...  *)
StopHttp ==
  \/ /\ server = "flagged" /\ server' = "draining"
     /\ UNCHANGED <<paused, runs, object, engine, woken, active, registry, handler, asked, bounds>>
  \/ /\ server = "draining" /\ \A h \in Handlers : handler[h].pc = "waiting"
     /\ server' = "joining"
     /\ UNCHANGED <<paused, runs, object, engine, woken, active, registry, handler, asked, bounds>>

(* ... and the threads of the runs in the map are waited for.              *)
StopJoin ==
  /\ server = "joining" /\ \A r \in Listed : Joined(r)
  /\ MemoryLost
  /\ UNCHANGED <<registry, bounds>>

-----------------------------------------------------------------------------
HandlerStep(h) ==
  \/ PersistNew(h) \/ Launch(h) \/ Replaced(h) \/ InsertReplacement(h) \/ Deleted(h)
  \/ CancelPersist(h) \/ CancelWake(h)
ThreadStep(r) ==
  \/ EnterEngine(r) \/ NextStage(r) \/ LeavePause(r) \/ ReturnFromLoop(r) \/ FinishWork(r)
  \/ LeaveSession(r) \/ Publish(r) \/ Retire(r)
StopStep == StopCancelRuns \/ StopHttp \/ StopJoin

Next ==
  \/ Boot \/ Crash \/ StopBegin \/ StopStep \/ Pause \/ Unpause
  \/ \E h \in Handlers : HandlerStep(h)
  \/ \E h \in Handlers, r \in Runs : PostRun(h, r)
  \/ \E h \in Handlers, r \in Runs, i \in Ids : PostReplace(h, r, i)
  \/ \E h \in Handlers, i \in Ids : Delete(h, i) \/ Cancel(h, i)
  \/ \E i \in Ids : CancelLegacy(i) \/ Answer(i)
  \/ \E r \in Runs : ThreadStep(r) \/ SpuriousWakeup(r)

(***************************************************************************)
(* Threads run, and a stage that works ends: its process has a timeout.    *)
(* Nothing says that requests arrive, that a person answers or that a      *)
(* pause is lifted.                                                        *)
(***************************************************************************)
Fairness ==
  /\ \A h \in Handlers : WF_vars(HandlerStep(h))
  /\ \A r \in Runs : WF_vars(ThreadStep(r))
  /\ WF_vars(StopStep)

Spec == Init /\ [][Next]_vars /\ Fairness

-----------------------------------------------------------------------------
TypeOK ==
  /\ server \in {"down", "up", "stopping", "flagged", "draining", "joining"}
  /\ paused \in BOOLEAN
  /\ runs \in [Ids -> Runs \union {NoRun}]
  /\ \A i \in Ids : runs[i] # NoRun => IdOf[runs[i]] = i
  /\ status \in [Runs -> Final \union {"running", "absent"}]
  /\ flag \in [Runs -> BOOLEAN]
  /\ thread \in [Runs -> ThreadStates]
  /\ stages \in [Runs -> 0..MaxStages]
  /\ verdict \in [Runs -> Final \union {"absent"}]
  /\ joinable \subseteq Runs /\ woken \subseteq Runs /\ asked \subseteq Runs
  /\ active \in Nat /\ boots \in 0..MaxBoots /\ requests \in 0..MaxRequests
  /\ registry \in [Ids -> Final \union {"running", "absent"}]
  /\ handler \in [Handlers -> HandlerStates]

BeingCreated(r) ==
  \E h \in Handlers : handler[h].run = r /\ handler[h].pc \in {"persist", "launch"}
Alive(r) == thread[r] \in InEngine \union {"settled", "published"}

(***************************************************************************)
(* While the server is up, a run shown as running has a thread that is     *)
(* alive or about to be started, and so has one of the runs with an id     *)
(* that is recorded as running: after every race of a final status with    *)
(* cancels, deletions and a run of the same id, and after every restart.   *)
(***************************************************************************)
RunningIsAlive ==
  server # "down" =>
    /\ \A r \in Runs : status[r] = "running" => BeingCreated(r) \/ Alive(r)
    /\ \A i \in Ids : registry[i] = "running" =>
         \E r \in Runs : IdOf[r] = i /\ (BeingCreated(r) \/ Alive(r))

(* A run that the server lets go of has ended. Observers are told that it  *)
(* is idle only when no engine is at work: the counter falls to zero after *)
(* the last run has retired. And a handler that took a run out of the map, *)
(* to delete or to replace it, goes on only when its thread has ended or   *)
(* was never started: the replacement uses the same log directory and      *)
(* checkpoint file. (Another resume that names the same run meanwhile      *)
(* finds it gone and does not wait: the registry entry alone is no sign    *)
(* that the thread has ended.)                                             *)
IdleHasEnded ==
  active > 0 /\ active' = 0 => \A r \in Runs : thread'[r] \in {"none", "ended"}
JoinedHasEnded == \A h \in Handlers :
  /\ handler[h].pc \in {"replace_join", "delete_join"} /\ handler[h].old # NoRun
  /\ handler'[h] # handler[h]
  => thread[handler[h].old] \in {"none", "ended"}
GoneHasEnded == [][server' # "down" => IdleHasEnded /\ JoinedHasEnded]_vars

(***************************************************************************)
(* A run that is asked to stop, by its cancel, its replacement or the      *)
(* stop of the server, while its engine is at the head of its loop, in a   *)
(* stage that works or in an interactive session, ends, whatever the other *)
(* handlers do and although nobody answers the session.                    *)
(***************************************************************************)
AskedRunsEnd == \A r \in Runs : r \in asked ~> r \notin asked

-----------------------------------------------------------------------------
(***************************************************************************)
(* What http_server.cpp:2897-2903 promises: an operator's cancel that has  *)
(* been written to the registry is not lost. Violated: the run's thread    *)
(* writes its own verdict over it.                                         *)
(***************************************************************************)
CancelIsKept ==
  [][\A i \in Ids : registry[i] = "cancelled" => registry'[i] \in {"cancelled", "absent"}]_vars

-----------------------------------------------------------------------------
(* The server implements RunLife: whatever the handlers, the registry and  *)
(* the threads do at once, each object is inserted once, executes once and *)
(* publishes one verdict, and what is shown as running is about to execute *)
(* or executes. A run executes from the launch of its thread to the        *)
(* publication of its verdict.                                             *)
LifeOf(r) ==
  IF status[r] = "absent" THEN "unknown"
  ELSE IF BeingCreated(r) THEN "created"
  ELSE IF thread[r] \in InEngine \union {"settled"} THEN "executing" ELSE "over"
Life == INSTANCE RunLife WITH up <- server # "down", shown <- status,
                              life <- [r \in Runs |-> LifeOf(r)]
ImplementsLife == Life!Spec
=============================================================================
