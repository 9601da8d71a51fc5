----------------------------- MODULE BranchMerge -----------------------------
(***************************************************************************)
(* The worktrees of a fork's branches and their merge at the fan-in:       *)
(* WorktreeManager, ParallelHandler's set-up, FanInMerger and what git     *)
(* does to the launch repository.                                          *)
(*                                                                         *)
(* A commit is a pair of who made it, a branch or 0 for anybody in the     *)
(* launch repository, and its number; a history is the sequence of commits *)
(* since needle.launch_commit. A commit that is picked keeps its pair.     *)
(* Branches are the numbers that their names sort as.                      *)
(***************************************************************************)
EXTENDS Naturals, Sequences, SequencesExt

CONSTANTS
  Branches,    \* the starts of branches, 1..N
  Forks,       \* which of them the parallel nodes of the graph fork into
  Cleanup,     \* worktree.cleanup: "keep" or "remove-on-success"
  Conflicting, \* whether the content of commits may conflict
  MaxForks, MaxCommits, MaxOwn, MaxMishaps  \* bounds of the instance

ASSUME ForksAssumption ==
  /\ Branches \subseteq Nat \ {0}
  /\ Forks \subseteq SUBSET Branches
  /\ Cleanup \in {"keep", "remove-on-success"}
  /\ Conflicting \in BOOLEAN
  /\ {MaxForks, MaxCommits, MaxOwn, MaxMishaps} \subseteq Nat

VARIABLES
  path,     \* per branch what is at its path: nothing, its "tree", "other"
  made,     \* the branches whose git branch exists
  log,      \* per branch the history of its worktree
  launch,   \* the history of the launch repository
  picking,  \* a cherry-pick that did not end is left in it
  ready,    \* the branches with a needle.branch_worktree in the context
  phase, fork, undone, forks,
  at, todo, applied, from, why,  \* locals of merge(), and why it conflicted
  mishaps

gitVars == <<path, made, log, launch, picking>>
mergeVars == <<at, todo, applied, from, why>>
forkVars == <<path, made, log, launch, picking, ready, phase, fork, undone, forks,
              at, todo, applied, from, why, mishaps>>

Commits == (Branches \union {0}) \X (1..MaxCommits + MaxOwn)
Phases == {"idle", "set-up", "working", "joined", "merging", "cleaning", "merged", "conflict",
           "failed"}

ForkTypeOK ==
  /\ path \in [Branches -> {"nothing", "tree", "other"}]
  /\ made \subseteq Branches
  /\ log \in [Branches -> Seq(Commits)] /\ launch \in Seq(Commits)
  /\ picking \in BOOLEAN
  /\ ready \subseteq Branches
  /\ phase \in Phases
  /\ fork \subseteq Branches /\ undone \subseteq fork
  /\ forks \in 0..MaxForks /\ mishaps \in 0..MaxMishaps
  /\ at \in Branches \union {0} /\ todo \in Seq(Commits)
  /\ applied \subseteq Branches
  /\ from \in Nat
  /\ why \in {"nothing", "content", "empty", "unfinished"}

ForkInit ==
  /\ path \in [Branches -> {"nothing", "other"}]
  /\ made = {} /\ log = [b \in Branches |-> <<>>] /\ launch = <<>> /\ picking = FALSE
  /\ ready = {} /\ phase = "idle" /\ fork = {} /\ undone = {} /\ forks = 0
  /\ at = 0 /\ todo = <<>> /\ applied = {} /\ from = 0 /\ why = "nothing"
  /\ mishaps = 0

IsIn(c, s) == \E i \in DOMAIN s : s[i] = c
MadeIn(b) == {i \in DOMAIN log[b] : log[b][i][1] = b}

-----------------------------------------------------------------------------
(* The parallel node. The launch commit is noted at the first fork of a    *)
(* run, and never again.                                                   *)
ForkBegins(branches) ==
  /\ phase \in {"idle", "merged"} /\ forks < MaxForks
  /\ forks' = forks + 1
  /\ fork' = branches /\ undone' = branches /\ phase' = "set-up"
  /\ UNCHANGED <<gitVars, ready, mergeVars, mishaps>>

(* ensure_ready: a worktree on the right branch is used as it is; anything *)
(* else at the path is refused. git adds no branch that exists.            *)
CanAdd(b) == path[b] = "nothing" /\ b \notin made
EnsureReady(b) ==
  /\ phase = "set-up" /\ b \in undone
  /\ undone' = undone \ {b}
  /\ \/ /\ path[b] = "tree"
        /\ ready' = ready \union {b}
        /\ UNCHANGED <<path, made, log>>
     \/ /\ CanAdd(b)
        /\ path' = [path EXCEPT ![b] = "tree"] /\ made' = made \union {b}
        /\ log' = [log EXCEPT ![b] = launch]
        /\ ready' = ready \union {b}
     \/ /\ path[b] # "tree" /\ ~CanAdd(b)
        /\ UNCHANGED <<path, made, log, ready>>
  /\ UNCHANGED <<launch, picking, phase, fork, forks, mergeVars, mishaps>>

BranchesStart ==
  /\ phase = "set-up" /\ undone = {}
  /\ phase' = "working"
  /\ UNCHANGED <<gitVars, ready, fork, undone, forks, mergeVars, mishaps>>

(* The agents of a branch commit to its worktree, those of a branch with   *)
(* cwd_scope="parent" and people to the launch repository.                 *)
BranchCommits(b) ==
  /\ phase = "working" /\ b \in fork /\ path[b] = "tree"
  /\ \E n \in 1..MaxCommits :
       /\ ~IsIn(<<b, n>>, log[b]) /\ \A m \in 1..n - 1 : IsIn(<<b, m>>, log[b])
       /\ log' = [log EXCEPT ![b] = Append(@, <<b, n>>)]
  /\ UNCHANGED <<path, made, launch, picking, ready, phase, fork, undone, forks, mergeVars, mishaps>>
LaunchCommits ==
  /\ ~picking
  /\ \E n \in 1..MaxOwn :
       /\ ~IsIn(<<0, n>>, launch) /\ \A m \in 1..n - 1 : IsIn(<<0, m>>, launch)
       /\ launch' = Append(launch, <<0, n>>)
  /\ UNCHANGED <<path, made, log, picking, ready, phase, fork, undone, forks, mergeVars, mishaps>>

Join ==
  /\ phase = "working"
  /\ phase' = "joined"
  /\ UNCHANGED <<gitVars, ready, fork, undone, forks, mergeVars, mishaps>>

-----------------------------------------------------------------------------
(* FanInHandler: with no worktree in any branch there is nothing to merge. *)
FanInBegins ==
  /\ phase = "joined"
  /\ phase' = IF fork \intersect ready = {} THEN "merged" ELSE "merging"
  /\ at' = 0 /\ todo' = <<>> /\ applied' = {} /\ from' = Len(launch) /\ why' = "nothing"
  /\ UNCHANGED <<gitVars, ready, fork, undone, forks, mishaps>>

Later == {b \in fork \intersect ready : b > at}
First(S) == CHOOSE b \in S : \A c \in S : b <= c

(* The next branch with a worktree, in the order of their names; a list    *)
(* that git cannot give ends the stage and the run.                        *)
TakeBranch ==
  /\ phase = "merging" /\ todo = <<>> /\ Later # {}
  /\ applied' = IF at = 0 THEN applied ELSE applied \union {at}
  /\ at' = First(Later)
  /\ IF path[First(Later)] = "tree"
     THEN todo' = log[First(Later)] /\ phase' = phase
     ELSE todo' = <<>> /\ phase' = "failed"
  /\ UNCHANGED <<gitVars, ready, fork, undone, forks, from, why, mishaps>>

(* git cherry-pick: it starts while none is left unfinished, and a commit  *)
(* that changes nothing any more is a conflict to it.                      *)
Obstacles ==
  IF picking THEN {"unfinished"}
  ELSE IF IsIn(Head(todo), launch) THEN {"empty"}
  ELSE {"nothing"} \union (IF Conflicting THEN {"content"} ELSE {})

(* Mutant: a conflict ends its branch, and the merge goes on.              *)
PickOn(obstacle) ==
  /\ phase = "merging" /\ todo # <<>> /\ obstacle \in Obstacles
  /\ why' = obstacle
  /\ IF obstacle = "nothing"
     THEN launch' = Append(launch, Head(todo)) /\ todo' = Tail(todo) /\ UNCHANGED <<picking, phase>>
     ELSE todo' = <<>> /\ UNCHANGED <<launch, picking, phase>>
  /\ UNCHANGED <<path, made, log, ready, fork, undone, forks, at, applied, from, mishaps>>

Pick(obstacle) ==
  /\ phase = "merging" /\ todo # <<>> /\ obstacle \in Obstacles
  /\ why' = obstacle
  /\ IF obstacle = "nothing"
     THEN launch' = Append(launch, Head(todo)) /\ todo' = Tail(todo) /\ UNCHANGED <<picking, phase>>
     ELSE picking' = TRUE /\ phase' = "conflict" /\ UNCHANGED <<launch, todo>>
  /\ UNCHANGED <<path, made, log, ready, fork, undone, forks, at, applied, from, mishaps>>

MergeEnds ==
  /\ phase = "merging" /\ todo = <<>> /\ Later = {}
  /\ applied' = applied \union {at}
  /\ phase' = IF Cleanup = "remove-on-success" THEN "cleaning" ELSE "merged"
  /\ undone' = IF Cleanup = "remove-on-success" THEN fork \intersect ready ELSE undone
  /\ UNCHANGED <<gitVars, ready, fork, forks, at, todo, from, why, mishaps>>

(* WorktreeManager::remove, whose result nobody looks at: git keeps a tree *)
(* with changes in it, and the branch in any case.                         *)
RemoveTree(b) ==
  /\ phase = "cleaning" /\ b \in undone
  /\ undone' = undone \ {b}
  /\ path' \in {path, [path EXCEPT ![b] = "nothing"]}
  /\ UNCHANGED <<made, log, launch, picking, ready, phase, fork, forks, mergeVars, mishaps>>
FanInEnds ==
  /\ phase = "cleaning" /\ undone = {}
  /\ phase' = "merged"
  /\ UNCHANGED <<gitVars, ready, fork, undone, forks, mergeVars, mishaps>>

-----------------------------------------------------------------------------
(* The engine dies at the fan-in, with git on its way or not; an operator  *)
(* gives the pick up or finishes it; the run is resumed at the fan-in.     *)
MergeDies ==
  /\ phase \in {"merging", "cleaning"} /\ mishaps < MaxMishaps
  /\ mishaps' = mishaps + 1 /\ phase' = "failed" /\ undone' = {}
  /\ \/ UNCHANGED <<launch, picking>>
     \/ /\ todo # <<>> /\ "nothing" \in Obstacles
        /\ launch' = Append(launch, Head(todo)) /\ UNCHANGED picking
     \/ todo # <<>> /\ picking' = TRUE /\ UNCHANGED launch
  /\ UNCHANGED <<path, made, log, ready, fork, forks, mergeVars>>
OperatorEndsPick ==
  /\ phase \in {"conflict", "failed"} /\ picking
  /\ picking' = FALSE
  /\ \/ UNCHANGED launch
     \/ /\ todo # <<>> /\ ~IsIn(Head(todo), launch)
        /\ launch' = Append(launch, Head(todo))
  /\ UNCHANGED <<path, made, log, ready, phase, fork, undone, forks, mergeVars, mishaps>>
ResumeAtFanIn ==
  /\ phase \in {"conflict", "failed"} /\ mishaps < MaxMishaps
  /\ mishaps' = mishaps + 1 /\ phase' = "joined"
  /\ UNCHANGED <<gitVars, ready, fork, undone, forks, mergeVars>>
ForkNext ==
  \/ \E branches \in Forks : ForkBegins(branches)
  \/ \E b \in Branches : EnsureReady(b) \/ BranchCommits(b) \/ RemoveTree(b)
  \/ BranchesStart \/ LaunchCommits \/ Join \/ FanInBegins \/ TakeBranch
  \/ \E obstacle \in {"nothing", "content", "empty", "unfinished"} : Pick(obstacle)
  \/ MergeEnds \/ FanInEnds \/ MergeDies \/ OperatorEndsPick \/ ResumeAtFanIn
ForkSpec == ForkInit /\ [][ForkNext]_forkVars

(* A fan-in with a prompt may ask for a retry when its merge is done: then *)
(* all is merged again. The stages that StageCalls composes merge so.      *)
FanInRetried ==
  /\ phase = "merged"
  /\ phase' = "joined"
  /\ UNCHANGED <<gitVars, ready, fork, undone, forks, mergeVars, mishaps>>
MergeSpec == ForkInit /\ [][ForkNext \/ FanInRetried]_forkVars

-----------------------------------------------------------------------------
(* A worktree that the fan-in has removed had nothing that the launch      *)
(* repository does not have.                                               *)
RemovedIsMerged ==
  \A b \in made : path[b] = "nothing" => \A i \in MadeIn(b) : IsIn(log[b][i], launch)
(* A fan-in that ends well has brought in all that its branches with a     *)
(* worktree have committed, and nothing that is there comes in twice.      *)
MergeIsComplete ==
  phase \in {"cleaning", "merged"} =>
    \A b \in fork \intersect ready : \A i \in DOMAIN log[b] : IsIn(log[b][i], launch)
MergedOnce == \A i, j \in DOMAIN launch : launch[i] = launch[j] => i = j
(* It has brought in one branch after the other, each in its order.        *)
MergeIsOrdered ==
  phase \in {"merging", "cleaning", "merged", "conflict"} =>
    \A i, j \in from + 1..Len(launch) :
      i < j /\ launch[i][1] # 0 /\ launch[j][1] # 0 =>
        launch[i][1] < launch[j][1] \/ (launch[i][1] = launch[j][1] /\ launch[i][2] < launch[j][2])

(* The branches that a conflict reports as applied are in the repository.  *)
AppliedIsThere ==
  phase \in {"merging", "conflict"} =>
    \A b \in applied \ {0} : \A i \in MadeIn(b) : IsIn(log[b][i], launch)

(* What the agents of branches have committed is kept, merged whole and    *)
(* in order, whatever fails, dies and is tried again.                      *)
BranchWorkIsKept ==
  RemovedIsMerged /\ MergeIsComplete /\ MergedOnce /\ MergeIsOrdered /\ AppliedIsThere

(* README: "Branch commits cherry-pick into the launch repo at fan-in". A  *)
(* fan-in stops at the content of the branches, not at commits that it has *)
(* taken from the launch repository itself.                                *)
OnlyBranchWorkIsPicked == why # "empty"
=============================================================================
