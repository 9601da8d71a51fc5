-------------------------- MODULE ParallelHandler ---------------------------
(***************************************************************************)
(* Parallel nodes: ParallelHandler::execute, the threads it starts, the    *)
(* subgraph each of them walks (PipelineEngine::execute_subgraph), and as  *)
(* much of the engine's own loop as decides what a fork finds and leaves   *)
(* behind: completion, checkpoint, jump to the fan-in, crash and resume.   *)
(*                                                                         *)
(* A walker is a thread in a chain of nodes. The walker Start is the       *)
(* engine's thread; every other one is named by the branch it walks, the   *)
(* target of an edge out of a parallel node. A branch may hold a parallel  *)
(* node of its own. PipelineEngine has the routes a failure may take out   *)
(* of a node; here a failure of the engine's thread ends the run.          *)
(***************************************************************************)
EXTENDS EdgeSelector

CONSTANTS
  Nodes, Start, Exit, NoNode, NoCheckpoint,
  Kind,              \* [Nodes -> {"plain", "parallel", "fan_in"}]
  Out, Rank,         \* as in PipelineEngine
  Outcomes,          \* [Nodes -> set of outcomes] of the plain nodes and fan-ins
  MaxRetries,        \* [Nodes -> Nat]
  JoinPolicy,        \* [Nodes -> {"wait_all", "first_success", "threshold"}]
  JoinThreshold,     \* [Nodes -> Int]
  Worktrees,         \* branches whose worktree may fail to be set up
  MaxResumes         \* bound: times the run is resumed

Parallels == {n \in Nodes : Kind[n] = "parallel"}
Branches(f) == {Out[f][i].to : i \in DOMAIN Out[f]}
BranchStarts == UNION {Branches(f) : f \in Parallels}
Walkers == {Start} \union BranchStarts
Completions == {"SUCCESS", "PARTIAL_SUCCESS", "SKIP"}
Statuses == Completions \union {"FAILURE"}

(***************************************************************************)
(* find_common_fan_in_bfs: of the fan-ins every branch can reach without   *)
(* passing another, the one nearest to any branch, by name among equals.   *)
(***************************************************************************)
Successors(n) == {Out[n][i].to : i \in DOMAIN Out[n]}
Ball(b, through) ==
  LET ball[k \in 0..Cardinality(Nodes)] ==
        IF k = 0 THEN {b}
        ELSE ball[k - 1] \union UNION {Successors(n) : n \in ball[k - 1] \cap through}
  IN ball
FanIns(b) ==
  LET through == {n \in Nodes : Kind[n] # "fan_in"} IN
  {j \in Ball(b, through)[Cardinality(Nodes)] : Kind[j] = "fan_in"}
Distance(b, j) ==
  LET ball == Ball(b, Nodes) IN Min({k \in DOMAIN ball : j \in ball[k]})
CommonFanIns(f) == {j \in Nodes : \A b \in Branches(f) : j \in FanIns(b)}
Nearness(f, j) == Min({Distance(b, j) : b \in Branches(f)})
IsNearest(f, j) ==
  /\ j \in CommonFanIns(f)
  /\ \A i \in CommonFanIns(f) \ {j} :
       \/ Nearness(f, j) < Nearness(f, i)
       \/ Nearness(f, j) = Nearness(f, i) /\ Rank[j] < Rank[i]
NearestFanIn(f) ==
  IF \E j \in Nodes : IsNearest(f, j) THEN CHOOSE j \in Nodes : IsNearest(f, j) ELSE NoNode
FanInOf == [f \in Parallels |-> NearestFanIn(f)]

(* The parallel node a branch belongs to, and where its walker stops.      *)
ForkOf == [b \in BranchStarts |-> CHOOSE f \in Parallels : b \in Branches(f)]
EndOf == [w \in Walkers |-> IF w = Start THEN Exit ELSE FanInOf[ForkOf[w]]]

ASSUME ForkAssumption ==
  /\ IsFiniteSet(Nodes) /\ Start \in Nodes \ BranchStarts /\ Exit \in Nodes
  /\ NoNode \notin Nodes /\ Out[Exit] = <<>>
  /\ \A n \in Nodes : DOMAIN Out[n] \subseteq Nat \ {0} /\ Successors(n) \subseteq Nodes
  /\ Rank \in [Nodes -> Nat] /\ JoinThreshold \in [Nodes -> Int]
  /\ \A f, g \in Parallels : f # g => Branches(f) \intersect Branches(g) = {}
  /\ \A f \in Parallels : Branches(f) # {}
  /\ Worktrees \subseteq BranchStarts
  /\ MaxRetries \in [Nodes -> Nat] /\ MaxResumes \in Nat
  /\ \A n \in Nodes : \A o \in Outcomes[n] :
       o.status \in Completions \union {"FAILURE", "RETRY", "ERROR"}

(***************************************************************************)
(* The nodes a branch may execute: the least set that holds its first node *)
(* and what follows, up to where it stops. Walkers are named by branches,  *)
(* so the graphs are those in which a branch is walked by one thread at a  *)
(* time: no branch comes to its own fork before the fan-in, two branches   *)
(* of a fork do not share another fork, and a fork inside a branch has all *)
(* its own forks there.                                                    *)
(***************************************************************************)
Closed(b, S) == b \in S /\ \A n \in S \ {EndOf[b]} : Successors(n) \subseteq S
Region ==
  [b \in BranchStarts |->
     {b} \union ({n \in Nodes : \A S \in SUBSET Nodes : Closed(b, S) => n \in S} \ {EndOf[b]})]
ForksIn(b) == {g \in Region[b] \intersect Parallels : FanInOf[g] # NoNode}

ASSUME NestingAssumption ==
  \A f \in Parallels : FanInOf[f] # NoNode => \A b \in Branches(f) :
    /\ f \notin Region[b]
    /\ \A c \in Branches(f) \ {b} : ForksIn(b) \intersect ForksIn(c) = {}
    /\ \A g \in ForksIn(b) : \A c \in Branches(g) : ForksIn(c) \subseteq ForksIn(b)

VARIABLES
  thread,      \* [Walkers -> state of the thread]
  at,          \* [Walkers -> the node it is at]
  last,        \* [Walkers -> status of its last outcome, ERROR for a failed Result]
  status,      \* [Walkers -> its context's parallel.<branch>.status]
  attempts,    \* [Walkers -> its RetryController]
  completed,   \* completed_nodes_, under execution_state_mutex_
  cancelled,   \* the run's atomic flag
  checkpoint,  \* checkpoint.json
  result,      \* what run() or resume() returned
  resumes,     \* number of resumes so far
  reached,     \* history: branches a walk of which has got to the fan-in
  cut,         \* history: branches a walk of which was cut short by a cancel
  kept         \* history: branches saved as SUCCESS by the engine's thread

vars == <<thread, at, last, status, attempts, completed, cancelled, checkpoint, result,
          resumes, reached, cut, kept>>
run == <<completed, cancelled, checkpoint, result, resumes, reached, cut, kept>>
walk == <<at, last, status, attempts>>

Succeeded == [status |-> "SUCCESS", label |-> "", next |-> <<>>]
NoStatus == [b \in BranchStarts |-> ""]
NoAttempts == [n \in Nodes |-> 0]
Target(n, outcome) == SelectTo(Out[n], outcome, <<>>, Rank, NoNode)
Snapshot(n, done, st) == [cur |-> n, completed |-> done, status |-> st]
Alive == thread[Start] \in {"head", "executing", "forked"}
Set(f, w, v) == [f EXCEPT ![w] = v]

Init ==
  /\ thread = [w \in Walkers |-> "idle"]
  /\ at = [w \in Walkers |-> w]
  /\ last = [w \in Walkers |-> "SUCCESS"]
  /\ status = [w \in Walkers |-> NoStatus]
  /\ attempts = [w \in Walkers |-> NoAttempts]
  /\ completed = {} /\ cancelled = FALSE
  /\ checkpoint = NoCheckpoint /\ result = "none" /\ resumes = 0
  /\ reached = {} /\ cut = {} /\ kept = {}

StartRun ==
  /\ thread[Start] = "idle" /\ result = "none"
  /\ thread' = Set(thread, Start, "head")
  /\ UNCHANGED <<walk, run>>

(* Mutant: a failed edge selection leaves the resumed run without a node.  *)
ResumeTargetUnchecked(cp) ==
  IF cp.cur \in cp.completed THEN Target(cp.cur, Succeeded) ELSE cp.cur

(* resume(): past the checkpoint's node if that node is complete. It does  *)
(* not know the jump the loop makes from a parallel node to its fan-in.    *)
ResumeTarget(cp) ==
  LET to == Target(cp.cur, Succeeded)
  IN IF cp.cur \in cp.completed /\ to # NoNode THEN to ELSE cp.cur

Resume ==
  /\ thread[Start] \in {"crashed", "ended"} /\ checkpoint # NoCheckpoint
  /\ resumes < MaxResumes
  /\ thread' = Set(thread, Start, "head")
  /\ at' = Set(at, Start, ResumeTarget(checkpoint))
  /\ status' = Set(status, Start, checkpoint.status)
  /\ attempts' = Set(attempts, Start, NoAttempts)
  /\ completed' = checkpoint.completed
  /\ cancelled' = FALSE /\ result' = "none" /\ resumes' = resumes + 1
  /\ UNCHANGED <<last, checkpoint, reached, cut, kept>>

-----------------------------------------------------------------------------
(* The head of either loop.                                                *)
BeginStage(w) ==
  /\ thread[w] = "head" /\ at[w] # EndOf[w] /\ ~cancelled
  /\ thread' = Set(thread, w, "executing")
  /\ UNCHANGED <<walk, run>>

EndRun(r) == thread' = Set(thread, Start, "ended") /\ result' = r

StopCancelled ==
  /\ thread[Start] = "head" /\ cancelled
  /\ EndRun("failed")
  /\ UNCHANGED <<walk, completed, cancelled, checkpoint, resumes, reached, cut, kept>>

ReachExit ==
  /\ thread[Start] = "head" /\ at[Start] = Exit /\ ~cancelled
  /\ completed' = completed \union {Exit}
  /\ checkpoint' = Snapshot(Exit, completed', status[Start])
  /\ EndRun("ok")
  /\ UNCHANGED <<walk, cancelled, resumes, reached, cut, kept>>

(* A branch stops before the fan-in, and wherever it is on a cancel: its   *)
(* result is the last outcome it saw, SUCCESS if it saw none.              *)
EndBranch(w) ==
  /\ w # Start /\ thread[w] = "head" /\ (at[w] = EndOf[w] \/ cancelled)
  /\ thread' = Set(thread, w, "done")
  /\ reached' = IF at[w] = EndOf[w] THEN reached \union {w} ELSE reached
  /\ cut' = IF at[w] = EndOf[w] THEN cut ELSE cut \union {w}
  /\ UNCHANGED <<walk, completed, cancelled, checkpoint, result, resumes, kept>>

-----------------------------------------------------------------------------
(* What a loop does with an outcome o of the node n the walker w is at; st *)
(* is the walker's context with the outcome's updates.                     *)

RetryLeft(w) == attempts[w][at[w]] < MaxRetries[at[w]]
Exhausted(w, o) == o.status = "RETRY" /\ ~RetryLeft(w)
RetryStage(w, o) ==
  /\ o.status = "RETRY" /\ RetryLeft(w)
  /\ thread' = Set(thread, w, "head")
  /\ attempts' = [attempts EXCEPT ![w][at[w]] = @ + 1]
  /\ UNCHANGED <<at, last, status, run>>

(* The engine's thread: a failure is saved before the run ends, so that a  *)
(* resume knows the branches that succeeded; a failed Result or an         *)
(* exhausted RETRY is not.                                                 *)
AbortRun(o) ==
  /\ o.status = "ERROR" \/ Exhausted(Start, o)
  /\ EndRun("failed")
  /\ UNCHANGED <<walk, completed, cancelled, checkpoint, resumes, reached, cut, kept>>

(* Mutant: the context updates of a failed stage are not saved.            *)
FailureForgotten(st) == Snapshot(at[Start], completed, status[Start])
FailureSaved(st) == Snapshot(at[Start], completed, st)
Keeping(st) ==
  kept' = IF at[Start] \notin Parallels THEN kept
          ELSE kept \union {b \in Branches(at[Start]) : st[b] = "SUCCESS"}

FailRun(o, st) ==
  /\ o.status = "FAILURE"
  /\ status' = Set(status, Start, st)
  /\ checkpoint' = FailureSaved(st)
  /\ Keeping(st)
  /\ EndRun("failed")
  /\ UNCHANGED <<at, last, attempts, completed, cancelled, resumes, reached, cut>>

(* After a parallel node the engine's thread goes to the fan-in.           *)
Following(o) ==
  IF at[Start] \in Parallels THEN FanInOf[at[Start]] ELSE Target(at[Start], o)

CompleteStage(o, st) ==
  /\ o.status \in Completions
  /\ completed' = completed \union {at[Start]}
  /\ status' = Set(status, Start, st)
  /\ checkpoint' = Snapshot(at[Start], completed', st)
  /\ Keeping(st)
  /\ IF Following(o) = NoNode THEN EndRun("failed") /\ UNCHANGED at
     ELSE /\ thread' = Set(thread, Start, "head")
          /\ at' = Set(at, Start, Following(o)) /\ UNCHANGED result
  /\ UNCHANGED <<last, attempts, cancelled, resumes, reached, cut>>

(* A branch: a failure, an error or an exhausted RETRY is its result.      *)
FailBranch(w, o) ==
  /\ o.status \in {"ERROR", "FAILURE"} \/ Exhausted(w, o)
  /\ thread' = Set(thread, w, "done")
  /\ last' = Set(last, w, IF o.status = "ERROR" THEN "ERROR" ELSE "FAILURE")
  /\ UNCHANGED <<at, status, attempts, run>>

(* A completed stage of a branch is recorded with the engine but no        *)
(* checkpoint is written, and the edges out of a nested parallel node are  *)
(* selected from like any other's.                                         *)
AdvanceBranch(w, o, st) ==
  /\ o.status \in Completions
  /\ completed' = completed \union {at[w]}
  /\ status' = Set(status, w, st)
  /\ IF Target(at[w], o) = NoNode
     THEN /\ thread' = Set(thread, w, "done") /\ last' = Set(last, w, "ERROR")
          /\ UNCHANGED at
     ELSE /\ thread' = Set(thread, w, "head") /\ last' = Set(last, w, o.status)
          /\ at' = Set(at, w, Target(at[w], o))
  /\ UNCHANGED <<attempts, cancelled, checkpoint, result, resumes, reached, cut, kept>>

Handle(w, o, st) ==
  \/ RetryStage(w, o)
  \/ w = Start /\ (AbortRun(o) \/ FailRun(o, st) \/ CompleteStage(o, st))
  \/ w # Start /\ (FailBranch(w, o) \/ AdvanceBranch(w, o, st))

StageReturns(w) ==
  /\ thread[w] = "executing" /\ at[w] \notin Parallels
  /\ \E o \in Outcomes[at[w]] : Handle(w, o, status[w])

-----------------------------------------------------------------------------
(***************************************************************************)
(* ParallelHandler::execute. A branch that succeeded before is not started *)
(* again; one whose worktree cannot be set up fails without a thread. The  *)
(* others start with a copy of the context and fresh retry budgets.        *)
(***************************************************************************)
AlreadyDone(w, b) == status[w][b] = "SUCCESS"
ToRun(w) == {b \in Branches(at[w]) : ~AlreadyDone(w, b)}

Fork(w) ==
  /\ thread[w] = "executing" /\ at[w] \in Parallels /\ FanInOf[at[w]] # NoNode
  /\ \E bad \in SUBSET (ToRun(w) \intersect Worktrees) :
       LET go == ToRun(w) \ bad IN
       /\ thread' = [b \in Walkers |-> IF b = w THEN "forked"
                                       ELSE IF b \in go THEN "head"
                                       ELSE IF b \in bad THEN "done"
                                       ELSE IF b \in Branches(at[w]) THEN "idle"
                                       ELSE thread[b]]
       /\ at' = [b \in Walkers |-> IF b \in go THEN b ELSE at[b]]
       /\ last' = [b \in Walkers |-> IF b \in go THEN "SUCCESS"
                                     ELSE IF b \in bad THEN "NOT_STARTED" ELSE last[b]]
       /\ status' = [b \in Walkers |-> IF b \in go THEN status[w] ELSE status[b]]
       /\ attempts' = [b \in Walkers |-> IF b \in go THEN NoAttempts ELSE attempts[b]]
  /\ UNCHANGED run

(* No fan-in is common to the branches: a failed Result.                   *)
ForkFails(w) ==
  /\ thread[w] = "executing" /\ at[w] \in Parallels /\ FanInOf[at[w]] = NoNode
  /\ Handle(w, [Succeeded EXCEPT !.status = "ERROR"], status[w])

(* A branch that was skipped has no thread, and its result is SUCCESS.     *)
ResultOf(b) == IF thread[b] = "idle" THEN "SUCCESS" ELSE last[b]
(* Mutants: the first branch to end ends the fork; a branch that was       *)
(* skipped is waited for.                                                  *)
JoinedByFirst(w) == \E b \in Branches(at[w]) : thread[b] \in {"idle", "done"}
JoinedByThreads(w) == \A b \in Branches(at[w]) : thread[b] = "done"

Joined(w) == \A b \in Branches(at[w]) : thread[b] \in {"idle", "done"}

(* Mutant: a branch that could not start does not count as a failure.      *)
JoinStatusLenient(f) ==
  IF \E b \in Branches(f) : ResultOf(b) = "FAILURE" THEN "FAILURE" ELSE "SUCCESS"

JoinStatus(f) ==
  LET with(S) == {b \in Branches(f) : ResultOf(b) \in S}
      joined == IF JoinPolicy[f] = "first_success" THEN with({"SUCCESS"}) # {}
                ELSE IF JoinPolicy[f] = "threshold"
                     THEN Cardinality(with({"SUCCESS", "PARTIAL_SUCCESS"})) >= JoinThreshold[f]
                     ELSE with({"FAILURE", "ERROR", "NOT_STARTED"}) = {}
  IN IF joined THEN "SUCCESS" ELSE "FAILURE"

(* The statuses that go into the context of the thread that forked.        *)
Merged(w) ==
  [b \in BranchStarts |->
     IF b \notin Branches(at[w]) \/ ResultOf(b) = "ERROR" THEN status[w][b]
     ELSE IF ResultOf(b) = "NOT_STARTED" THEN "FAILURE" ELSE ResultOf(b)]

Join(w) ==
  /\ thread[w] = "forked" /\ Joined(w)
  /\ Handle(w, [Succeeded EXCEPT !.status = JoinStatus(at[w])], Merged(w))

-----------------------------------------------------------------------------
Cancel ==
  /\ Alive /\ ~cancelled
  /\ cancelled' = TRUE
  /\ UNCHANGED <<thread, walk, completed, checkpoint, result, resumes, reached, cut, kept>>

(* The memory of the process is gone, and every thread with it.            *)
Crash ==
  /\ Alive
  /\ thread' = [w \in Walkers |-> IF w = Start THEN "crashed" ELSE "idle"]
  /\ at' = [w \in Walkers |-> w] /\ last' = [w \in Walkers |-> "SUCCESS"]
  /\ status' = [w \in Walkers |-> NoStatus]
  /\ attempts' = [w \in Walkers |-> NoAttempts]
  /\ completed' = {} /\ cancelled' = FALSE
  /\ UNCHANGED <<checkpoint, result, resumes, reached, cut, kept>>

Walk(w) == BeginStage(w) \/ EndBranch(w) \/ StageReturns(w) \/ Fork(w) \/ ForkFails(w) \/ Join(w)

Next ==
  \/ StartRun \/ Resume \/ StopCancelled \/ ReachExit
  \/ \E w \in Walkers : Walk(w)
  \/ Cancel \/ Crash

(* Every thread runs while it can, and every handler returns.              *)
Fairness ==
  /\ WF_vars(StopCancelled) /\ WF_vars(ReachExit)
  /\ \A w \in Walkers : WF_vars(Walk(w))

Spec == Init /\ [][Next]_vars /\ Fairness

-----------------------------------------------------------------------------
(* Every variable holds a value of its type; in particular the engine's    *)
(* thread and every branch always stand at a node of the graph.            *)
TypeOK ==
  /\ thread \in [Walkers -> {"idle", "head", "executing", "forked", "done", "ended", "crashed"}]
  /\ at \in [Walkers -> Nodes]
  /\ last \in [Walkers -> Statuses \union {"ERROR", "NOT_STARTED"}]
  /\ status \in [Walkers -> [BranchStarts -> Statuses \union {""}]]
  /\ attempts \in [Walkers -> [Nodes -> Nat]]
  /\ completed \subseteq Nodes /\ cancelled \in BOOLEAN
  /\ checkpoint = NoCheckpoint
     \/ checkpoint \in [cur : Nodes, completed : SUBSET Nodes,
                        status : [BranchStarts -> Statuses \union {""}]]
  /\ result \in {"none", "ok", "failed"} /\ resumes \in 0..MaxResumes
  /\ reached \subseteq BranchStarts /\ cut \subseteq BranchStarts /\ kept \subseteq BranchStarts

(* A branch thread lives only while the thread that forked it waits for    *)
(* it: the branches share that thread's stack.                             *)
Active(w) == thread[w] \in {"head", "executing", "forked"}
BranchesAreJoined ==
  \A b \in BranchStarts : Active(b) =>
    \E w \in Walkers \ {b} : thread[w] = "forked" /\ at[w] = ForkOf[b]

(* A fan-in runs only behind as many branches as its join policy asks for, *)
(* over failures, crashes and resumes, those a cancel cut short included.  *)
Enough(f, S) ==
  IF JoinPolicy[f] = "first_success" THEN S \intersect Branches(f) # {}
  ELSE IF JoinPolicy[f] = "threshold"
       THEN Cardinality(S \intersect Branches(f)) >= JoinThreshold[f]
       ELSE Branches(f) \subseteq S
Merging(w, f) == thread[w] = "executing" /\ at[w] = FanInOf[f] /\ f \in completed
JoinPolicyHonoured ==
  \A w \in Walkers, f \in Parallels : Merging(w, f) => Enough(f, reached \union cut)

(* A branch whose success the engine has saved is not started again, by    *)
(* any resume.                                                             *)
Starting(b) == ~Active(b) /\ thread'[b] = "head"
KeptBranchNotRestarted == [][\A b \in BranchStarts : Starting(b) => b \notin kept]_vars

(* A cancel of a run ends it, whatever its branches are doing.             *)
CancelEndsRun == (cancelled /\ Alive) ~> ~Alive

(* What pipeline_engine.cpp says of the jump to the fan-in: the handler    *)
(* has executed every branch, and none is executed again, as a resume      *)
(* would, by falling through to the edges of the parallel node.            *)
BranchesRunInTheirThreads ==
  \A w \in Walkers : thread[w] = "executing" /\ at[w] \in BranchStarts => w = at[w]

-----------------------------------------------------------------------------
(* The walkers implement ForkJoin: a walker that is at its fork waits for  *)
(* the branches of it, those that were not started included.               *)
Live == {w \in Walkers : Active(w)}
Waits == [w \in Walkers |-> IF thread[w] = "forked" THEN Branches(at[w]) ELSE {}]
Tree == INSTANCE ForkJoin WITH Threads <- Walkers, Root <- Start,
          Groups <- {Branches(f) : f \in Parallels}, live <- Live, waits <- Waits
ImplementsForkJoin == Tree!Spec
=============================================================================
