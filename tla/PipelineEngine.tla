--------------------------- MODULE PipelineEngine ---------------------------
(***************************************************************************)
(* One pipeline run: PipelineEngine::run, resume and execute_loop, with    *)
(* the checkpoint the loop saves, the operator who cancels and pauses it,  *)
(* and the process that crashes between two steps.                         *)
(*                                                                         *)
(* A step of the model is everything the engine thread does between two    *)
(* points at which another actor can be observed: the head of the loop,    *)
(* the return of a handler, the return of the troubleshooter. What the     *)
(* handlers do is the constant Outcomes. Parallel nodes are left to        *)
(* ParallelHandler; the file operations of a save to later modules.        *)
(***************************************************************************)
EXTENDS EdgeSelector

CONSTANTS
  Nodes,             \* node ids
  Labels,            \* edge labels, with "" for none
  Start, Exit,       \* the start node and the exit node
  NoNode,            \* "no node"
  NoCheckpoint,      \* there is no checkpoint.json
  Kind,              \* [Nodes -> {"plain", "human", "interactive", "conditional"}]
  Out,               \* [Nodes -> sequence of edges], see EdgeSelector
  Rank,              \* [Nodes -> Nat]: order of the ids as strings
  FileOrder,         \* [Nodes -> Nat]: order of the nodes in graph.nodes()
  Outputs,           \* what a handler's output can be: tells failures apart
  Outcomes,          \* [Nodes -> set of outcomes] a handler can return
  MaxRetries,        \* [Nodes -> Nat]: RetryPolicy::max_retries
  AllowPartial,      \* nodes with allow_partial
  Recovery,          \* [Nodes -> Nodes or NoNode]: the first existing of the
                     \* node's and the graph's (fallback_)retry_target
  GoalGates,         \* nodes with goal_gate
  CycleLimit,        \* loop_restart_signature_limit
  Troubled,          \* nodes a failure of which starts the troubleshooter
  MaxTries,          \* max_attempts_per_stage of the troubleshooter
  Verdicts,          \* actions AutoTroubleshoot::handle can return
  MaxResumes         \* bound: times the run is resumed

Running == {"head", "paused", "executing", "troubleshooting", "gates"}
Statuses == {"SUCCESS", "PARTIAL_SUCCESS", "SKIP", "FAILURE", "RETRY"}
Satisfying == {"SUCCESS", "PARTIAL_SUCCESS"}
Completions == Satisfying \union {"SKIP"}

Clauses == [var : STRING, eq : BOOLEAN, val : STRING]
Edges == [to : Nodes, cond : SUBSET Clauses, parses : BOOLEAN, label : Labels,
          weight : Int, restart : BOOLEAN]

(* An outcome as a handler returns it; status "ERROR" is a failed Result.  *)
(* A suggestion that names no node matches no edge and is left out.        *)
HandlerOutcomes ==
  [status : Statuses \union {"ERROR"}, label : Labels, next : Seq(Nodes), out : Outputs]

(* What an interactive stage returns when it is cancelled while it waits.  *)
Interrupted == [status |-> "SUCCESS", label |-> "", next |-> <<>>, out |-> ""]

ASSUME GraphAssumption ==
  /\ "" \in Labels
  /\ Start \in Nodes /\ Exit \in Nodes
  /\ NoNode \notin Nodes
  /\ Kind \in [Nodes -> {"plain", "human", "interactive", "conditional"}]
  /\ Out \in [Nodes -> Seq(Edges)]
  /\ Recovery \in [Nodes -> Nodes \union {NoNode}]
  /\ GoalGates \subseteq Nodes /\ AllowPartial \subseteq Nodes
  /\ Troubled \subseteq Nodes

ASSUME LimitAssumption ==
  /\ MaxRetries \in [Nodes -> Nat]
  /\ CycleLimit \in Nat \ {0}
  /\ MaxTries \in Nat
  /\ MaxResumes \in Nat
  /\ "" \in Outputs
  /\ Outcomes \in [Nodes -> SUBSET HandlerOutcomes]
  /\ \A n \in Nodes : Kind[n] = "interactive" => Interrupted \notin Outcomes[n]
  /\ Verdicts \subseteq {"Promoted", "Resumed", "Escalated", "Advisory"}
  /\ Rank \in [Nodes -> Nat] /\ FileOrder \in [Nodes -> Nat]

(* The parts of the context that decide control: the last outcome, the     *)
(* operator's last choice, and the troubleshooter's attempts per node.     *)
Contexts == [last : Statuses \union {""}, human : Labels, tries : [Nodes -> Nat]]
Checkpoints == [cur : Nodes, completed : SUBSET Nodes, ctx : Contexts]

(* A human gate returns the label chosen, or an error of the interviewer.  *)
Succeeded == [status |-> "SUCCESS", label |-> "", next |-> <<>>, out |-> ""]
ASSUME HumanAssumption ==
  \A n \in Nodes : Kind[n] = "human" => \A o \in Outcomes[n] :
    o.status = "ERROR" \/ o = [Succeeded EXCEPT !.label = o.label]

ASSUME CheckpointAssumption == NoCheckpoint \notin Checkpoints

VARIABLES
  phase,       \* where the engine thread is
  cur,         \* session.current
  completed,   \* completed_nodes_
  outcomes,    \* node_outcomes_
  sigs,        \* failure_signatures_, by node and failure output
  attempts,    \* retry_controller_
  ctx,         \* the run's Context
  pending,     \* the failing outcome while the troubleshooter works on it
  cancelled,   \* the run's atomic flag
  paused,      \* PauseController::paused
  checkpoint,  \* checkpoint.json
  result,      \* what run() or resume() returned
  ran,         \* history: the statuses each node has completed with
  resumes      \* number of resumes so far

vars == <<phase, cur, completed, outcomes, sigs, attempts, ctx, pending, cancelled,
          paused, checkpoint, result, ran, resumes>>
memory == <<cur, completed, outcomes, sigs, attempts, ctx, pending>>
outside == <<cancelled, paused, resumes>>

-----------------------------------------------------------------------------
EmptyContext == [last |-> "", human |-> "", tries |-> [n \in Nodes |-> 0]]
NoOutcomes == [n \in Nodes |-> "none"]
NoSigs == [n \in Nodes |-> [e \in Outputs |-> 0]]
NoAttempts == [n \in Nodes |-> 0]
NothingPending == [status |-> "none", label |-> "", next |-> <<>>, out |-> ""]

(* select_next_edge and the node it leads to, NoNode when it fails.        *)
NextEdge(n, outcome, cx) == Select(Out[n], outcome, cx, Rank)
Target(n, outcome, cx) == SelectTo(Out[n], outcome, cx, Rank, NoNode)

(* Mutant: a save that counts its current node among the completed ones.   *)
SnapshotCountingCurrent(n, done, cx) ==
  [cur |-> n, completed |-> done \union {n}, ctx |-> cx]

(* What save_checkpoint writes, but for the retry counters, which nothing  *)
(* reads back: resume() starts them afresh.                                *)
Snapshot(n, done, cx) ==
  [cur |-> n, completed |-> done, ctx |-> cx]

Ran(n, status) == [ran EXCEPT ![n] = @ \union {status}]

(* record_node_completion on the set of completed nodes.                   *)
RecordedCompletion(n, status) ==
  IF status \in {"FAILURE", "RETRY"} THEN completed ELSE completed \union {n}

(* Mutant: a failed edge selection leaves the resumed run without a node.  *)
ResumeTargetUnchecked(cp) ==
  IF cp.cur \in cp.completed
  THEN Target(cp.cur, [Succeeded EXCEPT !.label = cp.ctx.human], cp.ctx) ELSE cp.cur

(***************************************************************************)
(* Where resume() continues: past the checkpoint's node when that node is  *)
(* complete and an edge can be selected for a synthetic success carrying   *)
(* the operator's last choice, at the checkpoint's node otherwise.         *)
(***************************************************************************)
ResumeTarget(cp) ==
  LET to == Target(cp.cur, [Succeeded EXCEPT !.label = cp.ctx.human], cp.ctx)
  IN IF cp.cur \in cp.completed /\ to # NoNode THEN to ELSE cp.cur

(***************************************************************************)
(* The conditional handler: it labels its outcome with the first edge that *)
(* holds for the outcome of the stage before it, or else with the first    *)
(* label of an unconditional edge, and always reports SUCCESS.             *)
(***************************************************************************)
ParentOutcome(cx) ==
  [Succeeded EXCEPT !.status = IF cx.last \in Statuses THEN cx.last ELSE "SUCCESS"]
ConditionalLabel(n, cx) ==
  LET es == Out[n]
      holds == {i \in DOMAIN es : /\ es[i].cond # {} /\ es[i].parses
                                  /\ Evaluate(es[i].cond, ParentOutcome(cx), cx)}
      default == {i \in DOMAIN es : es[i].cond = {} /\ es[i].parses /\ es[i].label # ""}
  IN IF holds # {} THEN es[Min(holds)].label
     ELSE IF default # {} THEN es[Min(default)].label ELSE ""

Returned ==
  IF Kind[cur] = "conditional"
  THEN {[Succeeded EXCEPT !.label = ConditionalLabel(cur, ctx)]}
  ELSE Outcomes[cur]

(* An outcome's context updates, and the engine's record of its status.    *)
ContextAfter(o) ==
  [ctx EXCEPT !.last = o.status, !.human = IF Kind[cur] = "human" THEN o.label ELSE @]

EndRun(r) == phase' = "ended" /\ result' = r

-----------------------------------------------------------------------------
Init ==
  /\ phase = "idle" /\ cur = NoNode
  /\ completed = {} /\ outcomes = NoOutcomes /\ sigs = NoSigs /\ attempts = NoAttempts
  /\ ctx = EmptyContext /\ pending = NothingPending
  /\ cancelled = FALSE /\ paused = FALSE
  /\ checkpoint = NoCheckpoint /\ result = "none"
  /\ ran = [n \in Nodes |-> {}] /\ resumes = 0

(* run(): clears the state of the engine and the cancel flag.              *)
StartRun ==
  /\ phase = "idle"
  /\ phase' = "head" /\ cur' = Start
  /\ completed' = {} /\ outcomes' = NoOutcomes /\ sigs' = NoSigs
  /\ cancelled' = FALSE
  /\ UNCHANGED <<attempts, ctx, pending, paused, checkpoint, result, ran, resumes>>

(* resume(): every restored node counts as SUCCESS, retry budgets restart. *)
Resume ==
  /\ phase \in {"crashed", "ended"} /\ checkpoint # NoCheckpoint
  /\ resumes < MaxResumes
  /\ phase' = "head" /\ cur' = ResumeTarget(checkpoint) /\ result' = "none"
  /\ completed' = checkpoint.completed
  /\ outcomes' = [n \in Nodes |-> IF n \in checkpoint.completed THEN "SUCCESS" ELSE "none"]
  /\ sigs' = NoSigs /\ attempts' = NoAttempts
  /\ ctx' = checkpoint.ctx /\ pending' = NothingPending
  /\ cancelled' = FALSE /\ resumes' = resumes + 1
  /\ UNCHANGED <<paused, checkpoint, ran>>

-----------------------------------------------------------------------------
(* The head of the loop.                                                   *)
BeginStage ==
  /\ phase = "head" /\ cur # Exit /\ ~cancelled /\ ~paused
  /\ phase' = "executing"
  /\ UNCHANGED <<memory, outside, checkpoint, result, ran>>

EnterPause ==
  /\ phase = "head" /\ cur # Exit /\ ~cancelled /\ paused
  /\ phase' = "paused"
  /\ UNCHANGED <<memory, outside, checkpoint, result, ran>>

(* wait_if_paused returns: on resume(), or on a spurious wake-up when the  *)
(* run has been cancelled.                                                 *)
LeavePause ==
  /\ phase = "paused" /\ (~paused \/ cancelled)
  /\ IF cancelled THEN EndRun("failed") ELSE phase' = "executing" /\ UNCHANGED result
  /\ UNCHANGED <<memory, outside, checkpoint, ran>>

StopCancelled ==
  /\ phase = "head" /\ cancelled
  /\ EndRun("failed")
  /\ UNCHANGED <<memory, outside, checkpoint, ran>>

(* The exit handler runs; whatever it returns, the exit node completes.    *)
ReachExit ==
  /\ phase = "head" /\ cur = Exit /\ ~cancelled
  /\ completed' = RecordedCompletion(Exit, "SUCCESS")
  /\ outcomes' = [outcomes EXCEPT ![Exit] = "SUCCESS"]
  /\ checkpoint' = Snapshot(Exit, completed', ctx)
  /\ ran' = Ran(Exit, "SUCCESS")
  /\ phase' = "gates"
  /\ UNCHANGED <<cur, sigs, attempts, ctx, pending, outside, result>>

(* Mutant: any outcome of a goal gate satisfies it.                        *)
UnsatisfiedIfUnrecorded == {g \in GoalGates : outcomes[g] = "none"}

Unsatisfied == {g \in GoalGates : outcomes[g] \notin Satisfying}
FirstUnsatisfied ==
  CHOOSE g \in Unsatisfied : \A h \in Unsatisfied : FileOrder[g] <= FileOrder[h]

(* Mutant: the verdict of the gates does not wait for the exit to be saved.*)
CheckGatesAnyway ==
  /\ phase = "gates" \/ (phase = "head" /\ cur = Exit)
  /\ Unsatisfied = {} /\ EndRun("ok")
  /\ UNCHANGED <<memory, outside, checkpoint, ran>>

(* Goal gates: all satisfied, a jump to the gate's retry target, failure.  *)
CheckGates ==
  /\ phase = "gates"
  /\ \/ Unsatisfied = {} /\ EndRun("ok") /\ UNCHANGED cur
     \/ /\ Unsatisfied # {} /\ Recovery[FirstUnsatisfied] # NoNode
        /\ cur' = Recovery[FirstUnsatisfied] /\ phase' = "head" /\ UNCHANGED result
     \/ /\ Unsatisfied # {} /\ Recovery[FirstUnsatisfied] = NoNode
        /\ EndRun("failed") /\ UNCHANGED cur
  /\ UNCHANGED <<completed, outcomes, sigs, attempts, ctx, pending, outside, checkpoint,
                 ran>>

-----------------------------------------------------------------------------
(* The handler returns a failed Result: no checkpoint is written.          *)
HandlerError(o) ==
  /\ o.status = "ERROR"
  /\ EndRun("failed")
  /\ UNCHANGED <<memory, outside, checkpoint, ran>>

RetryLeft == attempts[cur] < MaxRetries[cur]

(* RETRY within the budget: the same node again, after the delay.          *)
RetryStage(o) ==
  /\ o.status = "RETRY" /\ RetryLeft
  /\ attempts' = [attempts EXCEPT ![cur] = @ + 1]
  /\ phase' = "head"
  /\ UNCHANGED <<cur, completed, outcomes, sigs, ctx, pending, outside, checkpoint, result,
                 ran>>

RetriesExhausted(o) ==
  /\ o.status = "RETRY" /\ ~RetryLeft /\ cur \notin AllowPartial
  /\ EndRun("failed")
  /\ UNCHANGED <<memory, outside, checkpoint, ran>>

(* An exhausted RETRY that allow_partial accepts becomes PARTIAL_SUCCESS.  *)
Accepted(o) ==
  \/ o.status \in Completions
  \/ o.status = "RETRY" /\ ~RetryLeft /\ cur \in AllowPartial
Settled(o) == IF o.status = "RETRY" THEN [o EXCEPT !.status = "PARTIAL_SUCCESS"] ELSE o

(* Mutants: the checkpoint is saved before the completion is recorded, and *)
(* before the context updates are applied; a success forgives failures.    *)
SavedBeforeRecord(o) == Snapshot(cur, completed, ContextAfter(o))
SavedBeforeUpdates(o) == Snapshot(cur, RecordedCompletion(cur, o.status), ctx)
CompletingForgiving(o) ==
  /\ checkpoint' = Snapshot(cur, RecordedCompletion(cur, o.status), ContextAfter(o))
  /\ ran' = Ran(cur, o.status)
  /\ sigs' = NoSigs
  /\ UNCHANGED <<attempts, pending, outside>>

(***************************************************************************)
(* SUCCESS, PARTIAL_SUCCESS and SKIP: context updates, completion record,  *)
(* checkpoint, then the next edge. The checkpoint is the one the completed *)
(* node leaves behind, whichever way the loop goes from there.             *)
(***************************************************************************)
SavedOnCompletion(o) == Snapshot(cur, RecordedCompletion(cur, o.status), ContextAfter(o))

Completing(o) ==
  /\ checkpoint' = SavedOnCompletion(o)
  /\ ran' = Ran(cur, o.status)
  /\ UNCHANGED <<sigs, attempts, pending, outside>>

Remembering(o) ==
  /\ completed' = RecordedCompletion(cur, o.status)
  /\ outcomes' = [outcomes EXCEPT ![cur] = o.status]
  /\ ctx' = ContextAfter(o)

EdgeAfter(o) == NextEdge(cur, o, ContextAfter(o))

CompleteAndAdvance(o) ==
  LET s == Settled(o) IN
  /\ Accepted(o)
  /\ EdgeAfter(s) # 0 /\ ~Out[cur][EdgeAfter(s)].restart
  /\ Completing(s) /\ Remembering(s)
  /\ phase' = "head" /\ cur' = Out[cur][EdgeAfter(s)].to
  /\ UNCHANGED result

(* loop_restart: everything but the variables of the run is forgotten; the *)
(* checkpoint just saved is not.                                           *)
CompleteAndRestart(o) ==
  LET s == Settled(o) IN
  /\ Accepted(o)
  /\ EdgeAfter(s) # 0 /\ Out[cur][EdgeAfter(s)].restart
  /\ Completing(s)
  /\ phase' = "head" /\ cur' = Out[cur][EdgeAfter(s)].to
  /\ completed' = {} /\ outcomes' = NoOutcomes /\ ctx' = EmptyContext
  /\ UNCHANGED result

(* No edge can be selected: the run fails with the node complete.          *)
CompleteAndStrand(o) ==
  LET s == Settled(o) IN
  /\ Accepted(o)
  /\ EdgeAfter(s) = 0
  /\ Completing(s) /\ Remembering(s)
  /\ EndRun("failed") /\ UNCHANGED cur

Complete(o) == CompleteAndAdvance(o) \/ CompleteAndRestart(o) \/ CompleteAndStrand(o)

(* Cancelled while it waits for its person, an interactive stage returns   *)
(* SUCCESS with an empty answer, and the loop completes it.                *)
InterruptInteractive ==
  /\ phase = "executing" /\ Kind[cur] = "interactive" /\ cancelled
  /\ Complete(Interrupted)

-----------------------------------------------------------------------------
(* FAILURE: the context records it, and the signature is counted.          *)
Counted(o) == [sigs EXCEPT ![cur][o.out] = @ + 1]
CutOff(o) == Counted(o)[cur][o.out] >= CycleLimit

CycleDetected(o) ==
  /\ o.status = "FAILURE" /\ CutOff(o)
  /\ sigs' = Counted(o) /\ ctx' = ContextAfter(o)
  /\ checkpoint' = Snapshot(cur, completed, ContextAfter(o))
  /\ EndRun("failed")
  /\ UNCHANGED <<cur, completed, outcomes, attempts, pending, outside, ran>>

StartTroubleshooter(o) ==
  /\ o.status = "FAILURE" /\ ~CutOff(o) /\ cur \in Troubled
  /\ sigs' = Counted(o) /\ ctx' = ContextAfter(o)
  /\ pending' = o
  /\ phase' = "troubleshooting"
  /\ UNCHANGED <<cur, completed, outcomes, attempts, outside, checkpoint, result, ran>>

(* Where a failure leads: an edge, when the node has a conditional one and *)
(* selection finds any, else the retry targets.                            *)
HasCondition(n) == \E i \in DOMAIN Out[n] : Out[n][i].cond # {} \/ ~Out[n][i].parses
FailureTarget(n, o, cx) ==
  IF HasCondition(n) /\ Target(n, o, cx) # NoNode THEN Target(n, o, cx) ELSE Recovery[n]

(* In every case the checkpoint stays at the node that failed.             *)
RouteFailure(o, cx) ==
  /\ checkpoint' = Snapshot(cur, completed, cx)
  /\ IF FailureTarget(cur, o, cx) # NoNode
     THEN phase' = "head" /\ cur' = FailureTarget(cur, o, cx) /\ UNCHANGED result
     ELSE EndRun("failed") /\ UNCHANGED cur
  /\ UNCHANGED <<completed, outcomes, attempts, outside, ran>>

FailStage(o) ==
  /\ o.status = "FAILURE" /\ ~CutOff(o) /\ cur \notin Troubled
  /\ sigs' = Counted(o) /\ ctx' = ContextAfter(o)
  /\ RouteFailure(o, ContextAfter(o))
  /\ UNCHANGED pending

-----------------------------------------------------------------------------
(* The troubleshooter counts an attempt before it works, and gives up when *)
(* the node has used them all.                                             *)
Capped == ctx.tries[cur] >= MaxTries
Tried == [ctx EXCEPT !.tries[cur] = @ + 1]

(* It wrote the node's artifact: the node completes with it.               *)
Promote ==
  LET cx == [Tried EXCEPT !.last = "SUCCESS"]
      to == Target(cur, Succeeded, cx)
  IN /\ phase = "troubleshooting" /\ ~Capped /\ "Promoted" \in Verdicts
     /\ completed' = RecordedCompletion(cur, "SUCCESS")
     /\ outcomes' = [outcomes EXCEPT ![cur] = "SUCCESS"]
     /\ ctx' = cx /\ pending' = NothingPending
     /\ checkpoint' = Snapshot(cur, completed', cx)
     /\ ran' = Ran(cur, "SUCCESS")
     /\ IF to # NoNode THEN phase' = "head" /\ cur' = to /\ UNCHANGED result
                       ELSE EndRun("failed") /\ UNCHANGED cur
     /\ UNCHANGED <<sigs, attempts, outside>>

(* It changed the graph or the project: the same node runs again.          *)
RerunAfterFix ==
  /\ phase = "troubleshooting" /\ ~Capped /\ "Resumed" \in Verdicts
  /\ ctx' = Tried /\ pending' = NothingPending
  /\ checkpoint' = Snapshot(cur, completed, Tried)
  /\ phase' = "head"
  /\ UNCHANGED <<cur, completed, outcomes, sigs, attempts, outside, result, ran>>

Escalate ==
  /\ phase = "troubleshooting" /\ (Capped \/ "Escalated" \in Verdicts)
  /\ ctx' = IF Capped THEN ctx ELSE Tried
  /\ pending' = NothingPending
  /\ checkpoint' = Snapshot(cur, completed, ctx')
  /\ EndRun("failed")
  /\ UNCHANGED <<cur, completed, outcomes, sigs, attempts, outside, ran>>

(* Reported, cancelled or skipped: the ordinary failure handling.          *)
FailAfterAdvice ==
  /\ phase = "troubleshooting" /\ ~Capped /\ "Advisory" \in Verdicts
  /\ ctx' = Tried /\ pending' = NothingPending
  /\ RouteFailure(pending, Tried)
  /\ UNCHANGED sigs

-----------------------------------------------------------------------------
(* The operator, and the death of the process.                             *)
Cancel ==
  /\ phase \in Running \union {"idle"} /\ ~cancelled
  /\ cancelled' = TRUE
  /\ UNCHANGED <<phase, memory, paused, checkpoint, result, ran, resumes>>

TogglePause ==
  /\ phase \in Running
  /\ paused' = ~paused
  /\ UNCHANGED <<phase, memory, cancelled, checkpoint, result, ran, resumes>>

(* The memory of the process is gone; its files are not.                   *)
Crash ==
  /\ phase \in Running
  /\ phase' = "crashed"
  /\ cur' = NoNode /\ completed' = {} /\ outcomes' = NoOutcomes /\ sigs' = NoSigs
  /\ attempts' = NoAttempts /\ ctx' = EmptyContext /\ pending' = NothingPending
  /\ cancelled' = FALSE /\ paused' = FALSE
  /\ UNCHANGED <<checkpoint, result, ran, resumes>>

-----------------------------------------------------------------------------
HandlerReturns ==
  /\ phase = "executing"
  /\ \E o \in Returned :
       \/ HandlerError(o) \/ RetryStage(o) \/ RetriesExhausted(o)
       \/ Complete(o)
       \/ CycleDetected(o) \/ StartTroubleshooter(o) \/ FailStage(o)

TroubleshooterReturns == Promote \/ RerunAfterFix \/ Escalate \/ FailAfterAdvice

LoopHead ==
  BeginStage \/ EnterPause \/ LeavePause \/ StopCancelled \/ ReachExit \/ CheckGates

Next ==
  \/ StartRun \/ Resume
  \/ LoopHead \/ HandlerReturns \/ InterruptInteractive \/ TroubleshooterReturns
  \/ Cancel \/ TogglePause \/ Crash

(***************************************************************************)
(* The engine thread runs while it can; a handler that no person answers   *)
(* returns, and so does the troubleshooter. Nothing makes a person answer, *)
(* the operator lift a pause, or the process survive. A cancel wakes an    *)
(* interactive stage, under its lock; it wakes no paused thread, and a     *)
(* human gate not at all.                                                  *)
(***************************************************************************)
NeedsPerson == Kind[cur] \in {"human", "interactive"}
HandlerFinishes == phase = "executing" /\ ~NeedsPerson /\ HandlerReturns
ThreadProceeds ==
  BeginStage \/ EnterPause \/ (LeavePause /\ ~paused) \/ StopCancelled \/ ReachExit \/ CheckGates

Fairness ==
  /\ WF_vars(ThreadProceeds)
  /\ WF_vars(HandlerFinishes)
  /\ WF_vars(InterruptInteractive)
  /\ WF_vars(TroubleshooterReturns)

Spec == Init /\ [][Next]_vars /\ Fairness

-----------------------------------------------------------------------------
(* Every variable holds a value of its type, and the engine thread has a   *)
(* current node whenever it runs or has ended.                             *)
TypeOK ==
  /\ phase \in Running \union {"idle", "ended", "crashed"}
  /\ cur \in Nodes \/ (cur = NoNode /\ phase \in {"idle", "crashed"})
  /\ completed \subseteq Nodes
  /\ outcomes \in [Nodes -> Statuses \union {"none"}]
  /\ sigs \in [Nodes -> [Outputs -> Nat]]
  /\ attempts \in [Nodes -> Nat]
  /\ ctx \in Contexts
  /\ pending = NothingPending \/ pending \in HandlerOutcomes
  /\ cancelled \in BOOLEAN /\ paused \in BOOLEAN
  /\ checkpoint = NoCheckpoint \/ checkpoint \in Checkpoints
  /\ result \in {"none", "ok", "failed"}
  /\ ran \in [Nodes -> SUBSET Completions]
  /\ resumes \in 0..MaxResumes

(* A node the engine or the checkpoint counts as complete, which a resume  *)
(* will therefore not run, really ran to an end that is not a failure,     *)
(* whatever crashes, restarts, jumps and repairs came between.             *)
CompletedReallyRan ==
  /\ \A n \in completed : ran[n] # {}
  /\ checkpoint # NoCheckpoint => \A n \in checkpoint.completed : ran[n] # {}

(* No completion is held in memory only: at every point at which the       *)
(* process may die, checkpoint.json names every completed node.            *)
CompletionIsDurable ==
  completed # {} => checkpoint # NoCheckpoint /\ completed \subseteq checkpoint.completed

(* A run that ends well has satisfied its goal gates: each was completed   *)
(* with a success, or, once the run has been resumed, with a SKIP that     *)
(* resume() restored as a success.                                         *)
Earned == IF resumes = 0 THEN Satisfying ELSE Completions
GateHonoured ==
  result = "ok" => \A g \in GoalGates : ran[g] \intersect Earned # {}

(* The operator's choice at a human gate survives a crash: a resume from   *)
(* the checkpoint written with it goes to the node it led to.              *)
HumanDecisionSurvives ==
  [][phase = "executing" /\ phase' = "head" /\ Kind[cur] = "human"
     => ResumeTarget(checkpoint') = cur']_vars

(* A cancel of a running run is honoured: it stops, unless it is waiting   *)
(* for a person or held by a pause, or the process dies. And no graph      *)
(* makes a run fail for ever: only finitely many failures are handled      *)
(* before the cycle limit ends the run, whichever of success, recovery     *)
(* edge, retry target, restart and repair lies between them.               *)
RunsEnd ==
  /\ (cancelled /\ phase \in Running)
       ~> (phase \notin Running \/ phase = "paused" \/ (phase = "executing" /\ Kind[cur] = "human"))
  /\ <>[][sigs' = sigs]_sigs

-----------------------------------------------------------------------------
(* The engine implements the walk that DurableWalk promises: every step of *)
(* the loop saves what it completes before it goes on, a crash takes only  *)
(* memory, and a resume knows what the checkpoint names and nothing else.  *)
Durable == IF checkpoint = NoCheckpoint THEN {} ELSE checkpoint.completed
RunStatus ==
  IF phase \in Running THEN "running" ELSE IF phase = "ended" THEN result ELSE phase
Walk == INSTANCE DurableWalk WITH status <- RunStatus, known <- completed, durable <- Durable
ImplementsWalk == Walk!Spec
=============================================================================
