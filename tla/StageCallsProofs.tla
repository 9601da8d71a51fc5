-------------------------- MODULE StageCallsProofs --------------------------
(***************************************************************************)
(* The proofs about stages and the merge of their branches. The worktrees  *)
(* and their merge come first, as a specification of their own; that the   *)
(* stages which StageCalls composes with it implement it lets every fact   *)
(* about a merge hold of them too.                                         *)
(***************************************************************************)
EXTENDS StageCalls, SequenceTheorems, WellFoundedInduction, TLAPS

-----------------------------------------------------------------------------
(* What the invariant of a merge says.                                     *)
AllIn(s, t) == \A i \in DOMAIN s : IsIn(s[i], t)
(* The commits that b has made are in s in the order of their numbers.     *)
InOrder(s, b) ==
  \A i, j \in DOMAIN s : i < j /\ s[i][1] = b /\ s[j][1] = b => s[i][2] < s[j][2]

(* The history of a branch: what it started from is in the launch          *)
(* repository; what it has made itself has no gaps and is in order.        *)
LogsFit ==
  \A b \in Branches :
    /\ path[b] = "tree" => b \in made
    /\ b \notin made => log[b] = <<>>
    /\ \A i \in DOMAIN log[b] : log[b][i][1] = b \/ IsIn(log[b][i], launch)
    /\ InOrder(log[b], b)
    /\ \A i \in DOMAIN log[b], m \in 1..MaxCommits + MaxOwn :
         log[b][i][1] = b /\ m < log[b][i][2] => IsIn(<<b, m>>, log[b])
(* Nothing comes from a branch that was never made.                        *)
LaunchFits == \A i \in DOMAIN launch : launch[i][1] \in made \union {0}
(* What merge() still has to pick is of the branch it is at.               *)
TodoFits ==
  /\ todo # <<>> => at # 0
  /\ at # 0 => \A i \in DOMAIN todo : IsIn(todo[i], log[at])

Merging == phase \in {"merging", "conflict"}
Done(b) == AllIn(log[b], launch)
(* In a merge, the branches before the one it is at are done, that one up  *)
(* to what is left to pick; they came in one by one, each in its order.    *)
MergeFits ==
  Merging =>
    /\ at # 0 => at \in fork \intersect ready
    /\ \A b \in fork \intersect ready : b < at => Done(b)
    /\ at # 0 => \A i \in DOMAIN log[at] : IsIn(log[at][i], launch) \/ IsIn(log[at][i], todo)
    /\ InOrder(todo, at)
    /\ from <= Len(launch)
PicksFit ==
  phase = "merging" \/ (phase = "conflict" /\ picking) =>
    \A i \in from + 1..Len(launch) :
      launch[i][1] # 0 =>
        \/ launch[i][1] < at
        \/ launch[i][1] = at /\ \A j \in DOMAIN todo : todo[j][1] = at => launch[i][2] < todo[j][2]
SomeToMerge == phase = "merging" => fork \intersect ready # {}
CleaningFits == phase = "cleaning" => undone \subseteq fork \intersect ready

MergeInv ==
  /\ ForkTypeOK /\ SomeToMerge
  /\ LogsFit /\ LaunchFits /\ TodoFits /\ MergeFits /\ PicksFit /\ CleaningFits
  /\ BranchWorkIsKept

-----------------------------------------------------------------------------
(* Histories that grow and shrink by a commit, as the provers see them.    *)
LEMMA AppendFacts ==
  ASSUME NEW S, NEW s \in Seq(S), NEW c \in S
  PROVE  /\ Append(s, c) \in Seq(S) /\ DOMAIN s = 1..Len(s) /\ Len(s) \in Nat
         /\ Len(Append(s, c)) = Len(s) + 1 /\ DOMAIN Append(s, c) = 1..Len(s) + 1
         /\ \A i \in DOMAIN s : Append(s, c)[i] = s[i]
         /\ Append(s, c)[Len(s) + 1] = c
         /\ \A d : IsIn(d, Append(s, c)) <=> IsIn(d, s) \/ d = c
<1>1. /\ Append(s, c) \in Seq(S) /\ DOMAIN s = 1..Len(s) /\ Len(s) \in Nat
      /\ Len(Append(s, c)) = Len(s) + 1 /\ \A i \in 1..Len(s) : Append(s, c)[i] = s[i]
      /\ Append(s, c)[Len(s) + 1] = c
  BY AppendProperties, LenProperties
<1>2. DOMAIN Append(s, c) = 1..Len(s) + 1
  BY <1>1, LenProperties
<1>3. \A d : IsIn(d, Append(s, c)) <=> IsIn(d, s) \/ d = c
  BY <1>1, <1>2 DEF IsIn
<1> QED BY <1>1, <1>2, <1>3

LEMMA TailFacts ==
  ASSUME NEW S, NEW s \in Seq(S), s # <<>>
  PROVE  /\ Tail(s) \in Seq(S) /\ DOMAIN s = 1..Len(s) /\ Len(s) \in Nat \ {0}
         /\ DOMAIN Tail(s) = 1..Len(s) - 1
         /\ \A i \in 1..Len(s) - 1 : Tail(s)[i] = s[i + 1]
         /\ Head(s) = s[1] /\ Head(s) \in S /\ 1 \in DOMAIN s
         /\ \A d : IsIn(d, s) <=> d = Head(s) \/ IsIn(d, Tail(s))
<1>1. /\ Tail(s) \in Seq(S) /\ Len(Tail(s)) = Len(s) - 1 /\ Head(s) \in S
      /\ \A i \in 1..Len(Tail(s)) : Tail(s)[i] = s[i + 1]
  BY HeadTailProperties
<1>2. DOMAIN s = 1..Len(s) /\ Len(s) \in Nat \ {0} /\ Head(s) = s[1]
  BY EmptySeq, LenProperties
<1>3. DOMAIN Tail(s) = 1..Len(s) - 1
  BY <1>1, LenProperties
<1>4. ASSUME NEW d, IsIn(d, s) PROVE d = Head(s) \/ IsIn(d, Tail(s))
  <2>1. PICK i \in 1..Len(s) : s[i] = d
    BY <1>2, <1>4 DEF IsIn
  <2>2. CASE i # 1
    <3>1. i - 1 \in 1..Len(s) - 1 /\ Tail(s)[i - 1] = d
      BY <1>1, <1>2, <2>1, <2>2
    <3> QED BY <1>3, <3>1 DEF IsIn
  <2> QED BY <1>2, <2>1, <2>2
<1>5. ASSUME NEW d, IsIn(d, Tail(s)) PROVE IsIn(d, s)
  <2>1. PICK i \in 1..Len(s) - 1 : Tail(s)[i] = d
    BY <1>3, <1>5 DEF IsIn
  <2>2. i + 1 \in DOMAIN s /\ s[i + 1] = d
    BY <1>1, <1>2, <2>1
  <2> QED BY <2>2 DEF IsIn
<1>6. IsIn(Head(s), s) /\ 1 \in DOMAIN s
  BY <1>2 DEF IsIn
<1> QED BY <1>1, <1>2, <1>3, <1>4, <1>5, <1>6

(* Each position of a sequence holds one of its elements.                  *)
LEMMA HeldIsIn ==
  ASSUME NEW s, NEW i \in DOMAIN s
  PROVE  IsIn(s[i], s)
BY DEF IsIn

(* The least-number principle, for the branch that is merged next.         *)
Less == {p \in Nat \X Nat : p[1] < p[2]}
LEMMA FirstIsLeast ==
  ASSUME NEW S \in SUBSET Nat, S # {}
  PROVE  First(S) \in S /\ \A c \in S : First(S) <= c
<1>1. IsWellFoundedOn(Less, Nat)
  BY NatLessThanWellFounded DEF OpToRel, Less
<1>2. PICK x \in S : \A y \in S : <<y, x>> \notin Less
  BY <1>1, WFMin
<1>3. \A y \in S : ~ (y < x)
  BY <1>2 DEF Less
<1>4. \A y \in S : x <= y
  BY <1>3
<1> QED BY <1>4 DEF First

-----------------------------------------------------------------------------
(* Types.                                                                  *)
LEMMA ForkBounds ==
  /\ MaxForks \in Nat /\ MaxCommits \in Nat /\ MaxOwn \in Nat /\ MaxMishaps \in Nat
  /\ \A b \in Branches : b \in Nat /\ b > 0
  /\ \A f \in Forks : f \subseteq Branches
BY ForksAssumption

LEMMA LaterType == ForkTypeOK /\ Later # {} => First(Later) \in Later /\ First(Later) \in Branches
<1> SUFFICES ASSUME ForkTypeOK, Later # {} PROVE First(Later) \in Later /\ First(Later) \in Branches
  OBVIOUS
<1>1. Later \subseteq Branches /\ Later \in SUBSET Nat
  BY ForksAssumption DEF Later, ForkTypeOK
<1> QED BY <1>1, FirstIsLeast

LEMMA CommitType ==
  ASSUME NEW b \in Branches \union {0}, NEW n \in 1..MaxCommits \union 1..MaxOwn
  PROVE  <<b, n>> \in Commits
BY ForksAssumption DEF Commits

LEMMA ForkTypeInit == ForkInit => ForkTypeOK /\ SomeToMerge
<1> SUFFICES ASSUME ForkInit PROVE ForkTypeOK /\ SomeToMerge
  OBVIOUS
<1>1. <<>> \in Seq(Commits)
  BY EmptySeq
<1>2. path \in [Branches -> {"nothing", "tree", "other"}] /\ log \in [Branches -> Seq(Commits)]
  BY <1>1 DEF ForkInit
<1>3. 0 \in 0..MaxForks /\ 0 \in 0..MaxMishaps
  BY ForkBounds
<1> QED BY <1>1, <1>2, <1>3 DEF ForkInit, ForkTypeOK, SomeToMerge, Phases

LEMMA ForkTypeStep ==
  ForkTypeOK /\ SomeToMerge /\ [ForkNext \/ FanInRetried]_forkVars => (ForkTypeOK /\ SomeToMerge)'
<1> SUFFICES ASSUME ForkTypeOK, SomeToMerge, [ForkNext \/ FanInRetried]_forkVars PROVE (ForkTypeOK /\ SomeToMerge)'
  OBVIOUS
<1> USE ForkBounds DEF ForkTypeOK, SomeToMerge, Phases, gitVars, mergeVars
<1>1. ASSUME NEW branches \in Forks, ForkBegins(branches) PROVE (ForkTypeOK /\ SomeToMerge)'
  <2>1. branches \subseteq Branches
    BY ForkBounds
  <2>2. forks' \in 0..MaxForks
    BY <1>1 DEF ForkBegins
  <2> QED BY <1>1, <2>1, <2>2 DEF ForkBegins
<1>2. ASSUME NEW b \in Branches, EnsureReady(b) PROVE (ForkTypeOK /\ SomeToMerge)'
  <2>1. /\ path' \in [Branches -> {"nothing", "tree", "other"}] /\ made' \subseteq Branches
        /\ log' \in [Branches -> Seq(Commits)]
    <3>1. CASE UNCHANGED <<path, made, log>>
      BY <3>1
    <3>2. CASE /\ path' = [path EXCEPT ![b] = "tree"] /\ made' = made \union {b}
               /\ log' = [log EXCEPT ![b] = launch]
      BY <3>2
    <3> QED BY <1>2, <3>1, <3>2 DEF EnsureReady
  <2>2. ready' \subseteq Branches /\ undone' \subseteq fork' /\ phase' = "set-up"
    BY <1>2 DEF EnsureReady
  <2> QED BY <1>2, <2>1, <2>2 DEF EnsureReady
<1>3. ASSUME NEW b \in Branches, BranchCommits(b) PROVE (ForkTypeOK /\ SomeToMerge)'
  <2>1. PICK n \in 1..MaxCommits : log' = [log EXCEPT ![b] = Append(@, <<b, n>>)]
    BY <1>3 DEF BranchCommits
  <2>2. Append(log[b], <<b, n>>) \in Seq(Commits)
    BY CommitType, AppendProperties
  <2>3. log' \in [Branches -> Seq(Commits)]
    BY <2>1, <2>2
  <2> QED BY <1>3, <2>3 DEF BranchCommits
<1>4. ASSUME NEW b \in Branches, RemoveTree(b) PROVE (ForkTypeOK /\ SomeToMerge)'
  BY <1>4 DEF RemoveTree
<1>5. CASE BranchesStart \/ Join \/ FanInEnds \/ FanInRetried \/ UNCHANGED forkVars
  BY <1>5 DEF BranchesStart, Join, FanInEnds, FanInRetried, forkVars
<1>6. CASE LaunchCommits
  <2>1. PICK n \in 1..MaxOwn : launch' = Append(launch, <<0, n>>)
    BY <1>6 DEF LaunchCommits
  <2>2. launch' \in Seq(Commits)
    BY <2>1, CommitType, AppendProperties
  <2> QED BY <1>6, <2>2 DEF LaunchCommits
<1>7. CASE FanInBegins
  BY <1>7, EmptySeq, LenProperties DEF FanInBegins
<1>8. CASE TakeBranch
  <2>1. First(Later) \in Branches
    BY <1>8, LaterType DEF TakeBranch
  <2>2. <<>> \in Seq(Commits) /\ log[First(Later)] \in Seq(Commits)
    BY <2>1, EmptySeq
  <2>4. todo' \in Seq(Commits) /\ phase' \in {phase, "failed"}
    BY <1>8, <2>2 DEF TakeBranch
  <2>3. applied' \subseteq Branches /\ at' \in Branches \union {0}
    BY <1>8, <2>1 DEF TakeBranch
  <2> QED BY <1>8, <2>3, <2>4 DEF TakeBranch
<1>9. ASSUME NEW obstacle \in {"nothing", "content", "empty", "unfinished"}, Pick(obstacle)
      PROVE  (ForkTypeOK /\ SomeToMerge)'
  <2>1. todo # <<>>
    BY <1>9 DEF Pick
  <2>2. Tail(todo) \in Seq(Commits) /\ Append(launch, Head(todo)) \in Seq(Commits)
    BY <2>1, TailFacts, AppendProperties
  <2> QED BY <1>9, <2>2 DEF Pick
<1>10. CASE MergeEnds
  <2>1. ASSUME at = 0 PROVE FALSE
    <3>1. Later = fork \intersect ready
      BY <2>1 DEF Later
    <3> QED BY <1>10, <3>1 DEF MergeEnds
  <2>2. applied' \subseteq Branches /\ undone' \subseteq fork' /\ fork' \subseteq Branches
    BY <1>10, <2>1 DEF MergeEnds
  <2> QED BY <1>10, <2>2 DEF MergeEnds
<1>11. CASE MergeDies
  <2>1. todo # <<>> => Append(launch, Head(todo)) \in Seq(Commits)
    BY TailFacts, AppendProperties
  <2>2. launch' \in Seq(Commits)
    BY <1>11, <2>1 DEF MergeDies
  <2>3. picking' \in BOOLEAN
    BY <1>11 DEF MergeDies
  <2>4. mishaps' \in 0..MaxMishaps
    BY <1>11 DEF MergeDies
  <2> QED BY <1>11, <2>2, <2>3, <2>4 DEF MergeDies
<1>12. CASE OperatorEndsPick
  <2>1. todo # <<>> => Append(launch, Head(todo)) \in Seq(Commits)
    BY TailFacts, AppendProperties
  <2>2. launch' \in Seq(Commits)
    BY <1>12, <2>1 DEF OperatorEndsPick
  <2> QED BY <1>12, <2>2 DEF OperatorEndsPick
<1>13. CASE ResumeAtFanIn
  BY <1>13 DEF ResumeAtFanIn
<1> QED BY <1>1, <1>2, <1>3, <1>4, <1>5, <1>6, <1>7, <1>8, <1>9, <1>10, <1>11, <1>12, <1>13
        DEF ForkNext

-----------------------------------------------------------------------------
(* What a step may do to the histories.                                    *)
MergeStepTaken == ForkNext \/ FanInRetried \/ UNCHANGED forkVars

Picked(c) == todo # <<>> /\ c = Head(todo)
LaunchGrowsBy(c) ==
  launch' = Append(launch, c) /\ ~IsIn(c, launch) /\ (c[1] = 0 \/ Picked(c)) /\ log' = log
LogStays(b) ==
  /\ log'[b] = log[b] /\ (b \in made' => b \in made)
  /\ path'[b] = path[b] \/ (phase = "cleaning" /\ b \in undone /\ path'[b] = "nothing")
LogBegins(b) ==
  /\ phase = "set-up" /\ b \notin made /\ b \in made' /\ path'[b] = "tree"
  /\ log'[b] = launch /\ launch' = launch
LogGrows(b) ==
  /\ phase = "working" /\ path[b] = "tree" /\ path'[b] = path[b] /\ launch' = launch
  /\ \E n \in 1..MaxCommits :
       /\ ~IsIn(<<b, n>>, log[b]) /\ \A m \in 1..n - 1 : IsIn(<<b, m>>, log[b])
       /\ log'[b] = Append(log[b], <<b, n>>)

LEMMA LaunchMoves ==
  ASSUME ForkTypeOK, MergeStepTaken
  PROVE  launch' = launch \/ \E c \in Commits : LaunchGrowsBy(c)
<1> USE DEF gitVars, mergeVars
<1>1. todo # <<>> => Head(todo) \in Commits
  BY TailFacts DEF ForkTypeOK
<1>2. CASE LaunchCommits
  <2>1. PICK n \in 1..MaxOwn : ~IsIn(<<0, n>>, launch) /\ launch' = Append(launch, <<0, n>>)
    BY <1>2 DEF LaunchCommits
  <2>2. <<0, n>> \in Commits
    BY CommitType
  <2> QED BY <1>2, <2>1, <2>2 DEF LaunchCommits, LaunchGrowsBy
<1>3. ASSUME NEW obstacle, Pick(obstacle) PROVE launch' = launch \/ LaunchGrowsBy(Head(todo))
  BY <1>3 DEF Pick, Obstacles, LaunchGrowsBy, Picked
<1>4. CASE MergeDies
  BY <1>1, <1>4 DEF MergeDies, Obstacles, LaunchGrowsBy, Picked
<1>5. CASE OperatorEndsPick
  BY <1>1, <1>5 DEF OperatorEndsPick, LaunchGrowsBy, Picked
<1>6. CASE launch' = launch
  BY <1>6
<1>7. \/ launch' = launch \/ LaunchCommits \/ MergeDies \/ OperatorEndsPick
      \/ \E obstacle \in {"nothing", "content", "empty", "unfinished"} : Pick(obstacle)
  BY DEF MergeStepTaken, ForkNext, ForkBegins, EnsureReady, BranchCommits, RemoveTree, BranchesStart,
         Join, FanInBegins, TakeBranch, MergeEnds, FanInEnds, ResumeAtFanIn, FanInRetried, forkVars
<1>8. ASSUME NEW obstacle, Pick(obstacle)
      PROVE  launch' = launch \/ \E c \in Commits : LaunchGrowsBy(c)
  BY <1>1, <1>3, <1>8 DEF Pick
<1> QED BY <1>2, <1>4, <1>5, <1>6, <1>7, <1>8

LEMMA LaunchGrows ==
  ASSUME ForkTypeOK, MergeStepTaken
  PROVE  /\ \A d : IsIn(d, launch) => IsIn(d, launch')
         /\ DOMAIN launch = 1..Len(launch) /\ DOMAIN launch' = 1..Len(launch')
         /\ Len(launch) \in Nat /\ Len(launch') \in Nat /\ Len(launch) <= Len(launch')
<1>1. launch \in Seq(Commits)
  BY DEF ForkTypeOK
<1>2. CASE launch' = launch
  BY <1>1, <1>2, LenProperties
<1>3. ASSUME NEW c \in Commits, LaunchGrowsBy(c)
      PROVE  /\ \A d : IsIn(d, launch) => IsIn(d, launch')
             /\ DOMAIN launch = 1..Len(launch) /\ DOMAIN launch' = 1..Len(launch')
             /\ Len(launch) \in Nat /\ Len(launch') \in Nat /\ Len(launch) <= Len(launch')
  BY <1>1, <1>3, AppendFacts DEF LaunchGrowsBy
<1> QED BY <1>2, <1>3, LaunchMoves

LEMMA LogMoves ==
  ASSUME ForkTypeOK, LogsFit, MergeStepTaken, NEW b \in Branches
  PROVE  made \subseteq made' /\ (LogStays(b) \/ LogBegins(b) \/ LogGrows(b))
<1> USE DEF gitVars, mergeVars
<1>1. ASSUME NEW x \in Branches, EnsureReady(x)
      PROVE  made \subseteq made' /\ (LogStays(b) \/ LogBegins(b))
  <2>1. CASE CanAdd(x)
    <3>1. /\ path' = [path EXCEPT ![x] = "tree"] /\ made' = made \union {x}
          /\ log' = [log EXCEPT ![x] = launch] /\ launch' = launch /\ phase = "set-up" /\ x \notin made
      BY <1>1, <2>1 DEF EnsureReady, CanAdd
    <3> QED BY <3>1 DEF ForkTypeOK, LogStays, LogBegins
  <2>2. CASE ~ CanAdd(x)
    BY <1>1, <2>2 DEF EnsureReady, LogStays
  <2> QED BY <2>1, <2>2
<1>2. ASSUME NEW x \in Branches, BranchCommits(x)
      PROVE  made \subseteq made' /\ (LogStays(b) \/ LogGrows(b))
  <2>1. PICK n \in 1..MaxCommits :
          /\ ~IsIn(<<x, n>>, log[x]) /\ \A m \in 1..n - 1 : IsIn(<<x, m>>, log[x])
          /\ log' = [log EXCEPT ![x] = Append(@, <<x, n>>)]
    BY <1>2 DEF BranchCommits
  <2>2. path' = path /\ made' = made /\ launch' = launch /\ phase = "working" /\ path[x] = "tree"
    BY <1>2 DEF BranchCommits
  <2>3. CASE b = x
    <3>1. log'[b] = Append(log[b], <<b, n>>)
      BY <2>1, <2>3 DEF ForkTypeOK
    <3> QED BY <2>1, <2>2, <2>3, <3>1 DEF LogGrows
  <2>4. CASE b # x
    <3>1. log'[b] = log[b]
      BY <2>1, <2>4 DEF ForkTypeOK
    <3> QED BY <2>2, <3>1 DEF LogStays
  <2> QED BY <2>3, <2>4
<1>3. ASSUME NEW x \in Branches, RemoveTree(x) PROVE made \subseteq made' /\ LogStays(b)
  BY <1>3 DEF RemoveTree, LogStays, ForkTypeOK
<1>4. CASE log' = log /\ path' = path /\ made' = made
  BY <1>4 DEF LogStays
<1>5. \/ log' = log /\ path' = path /\ made' = made
      \/ \E x \in Branches : EnsureReady(x) \/ BranchCommits(x) \/ RemoveTree(x)
  BY DEF MergeStepTaken, ForkNext, ForkBegins, BranchesStart, LaunchCommits, Join, FanInBegins,
         TakeBranch, Pick, MergeEnds, FanInEnds, MergeDies, OperatorEndsPick, ResumeAtFanIn,
         FanInRetried, forkVars
<1> QED BY <1>1, <1>2, <1>3, <1>4, <1>5

(* What is picked and was not there yet is of the branch merge() is at.    *)
LEMMA PickedIsOfBranch ==
  ASSUME ForkTypeOK, LogsFit, TodoFits, NEW c, Picked(c), ~IsIn(c, launch)
  PROVE  at \in Branches /\ c[1] = at /\ at \in made
<1>1. 1 \in DOMAIN todo /\ c = todo[1]
  BY TailFacts DEF Picked, ForkTypeOK
<1>2. at \in Branches /\ IsIn(c, log[at])
  BY <1>1 DEF TodoFits, Picked, ForkTypeOK
<1>3. PICK i \in DOMAIN log[at] : log[at][i] = c
  BY <1>2 DEF IsIn
<1>4. log[at] # <<>>
  BY <1>3
<1> QED BY <1>2, <1>3, <1>4 DEF LogsFit

LEMMA LaunchFitsStep ==
  ASSUME ForkTypeOK, LogsFit, LaunchFits, TodoFits, MergeStepTaken
  PROVE  LaunchFits'
<1>0. made \subseteq made'
  <2>1. CASE Branches = {}
    BY <2>1 DEF ForkTypeOK
  <2>2. ASSUME NEW b \in Branches PROVE made \subseteq made'
    BY LogMoves
  <2> QED BY <2>1, <2>2
<1>1. CASE launch' = launch
  BY <1>0, <1>1 DEF LaunchFits
<1>2. ASSUME NEW c \in Commits, LaunchGrowsBy(c) PROVE LaunchFits'
  <2>1. c[1] \in made' \union {0}
    BY <1>0, <1>2, PickedIsOfBranch DEF LaunchGrowsBy
  <2>2. launch \in Seq(Commits)
    BY DEF ForkTypeOK
  <2>3. /\ DOMAIN launch' = 1..Len(launch) + 1 /\ launch'[Len(launch) + 1] = c
        /\ \A i \in 1..Len(launch) : launch'[i] = launch[i]
        /\ DOMAIN launch = 1..Len(launch) /\ Len(launch) \in Nat
    BY <1>2, <2>2, AppendFacts DEF LaunchGrowsBy
  <2> QED BY <1>0, <2>1, <2>3 DEF LaunchFits
<1> QED BY <1>1, <1>2, LaunchMoves

LEMMA LogsFitStep ==
  ASSUME ForkTypeOK, LogsFit, LaunchFits, MergeStepTaken
  PROVE  LogsFit'
<1> DEFINE Fit(b) ==
      /\ path[b] = "tree" => b \in made
      /\ b \notin made => log[b] = <<>>
      /\ \A i \in DOMAIN log[b] : log[b][i][1] = b \/ IsIn(log[b][i], launch)
      /\ InOrder(log[b], b)
      /\ \A i \in DOMAIN log[b], m \in 1..MaxCommits + MaxOwn :
           log[b][i][1] = b /\ m < log[b][i][2] => IsIn(<<b, m>>, log[b])
<1>1. ASSUME NEW b \in Branches PROVE Fit(b)'
  <2>1. Fit(b)
    BY <1>1 DEF LogsFit
  <2>2. \A d : IsIn(d, launch) => IsIn(d, launch')
    BY LaunchGrows
  <2>3. made \subseteq made' /\ (LogStays(b) \/ LogBegins(b) \/ LogGrows(b))
    BY <1>1, LogMoves
  <2>4. CASE LogStays(b)
    <3>1. log'[b] = log[b] /\ (path'[b] = "tree" => path[b] = "tree")
      BY <2>4 DEF LogStays
    <3> QED BY <2>1, <2>2, <2>3, <3>1 DEF InOrder
  <2>5. CASE LogBegins(b)
    <3>1. b \in made' /\ log'[b] = launch /\ launch' = launch
      BY <2>5 DEF LogBegins
    <3>2. \A i \in DOMAIN launch : launch[i][1] # b
      BY <2>5, ForkBounds DEF LaunchFits, LogBegins
    <3> QED BY <3>1, <3>2, HeldIsIn DEF InOrder
  <2>6. CASE LogGrows(b)
    <3>1. PICK n \in 1..MaxCommits :
            /\ ~IsIn(<<b, n>>, log[b]) /\ \A m \in 1..n - 1 : IsIn(<<b, m>>, log[b])
            /\ log'[b] = Append(log[b], <<b, n>>)
      BY <2>6 DEF LogGrows
    <3>2. path[b] = "tree" /\ path'[b] = path[b] /\ launch' = launch
      BY <2>6 DEF LogGrows
    <3> DEFINE s == log[b]
               t == log'[b]
    <3>3. <<b, n>> \in Commits /\ s \in Seq(Commits) /\ t = Append(s, <<b, n>>)
      BY <3>1, CommitType DEF ForkTypeOK
    <3>10. /\ ~IsIn(<<b, n>>, s) /\ \A m \in 1..n - 1 : IsIn(<<b, m>>, s)
           /\ InOrder(s, b) /\ n \in 1..MaxCommits + MaxOwn
           /\ \A i \in DOMAIN s : s[i][1] = b \/ IsIn(s[i], launch)
           /\ \A i \in DOMAIN s, m \in 1..MaxCommits + MaxOwn :
                s[i][1] = b /\ m < s[i][2] => IsIn(<<b, m>>, s)
      BY <2>1, <3>1, ForkBounds
    <3>11. s = log[b] /\ t = log'[b]
      OBVIOUS
    <3> HIDE DEF s, t
    <3>4. /\ DOMAIN s = 1..Len(s) /\ Len(s) \in Nat /\ DOMAIN t = 1..Len(s) + 1
          /\ \A i \in DOMAIN s : t[i] = s[i]
          /\ t[Len(s) + 1] = <<b, n>>
          /\ \A d : IsIn(d, t) <=> IsIn(d, s) \/ d = <<b, n>>
      BY <3>3, AppendFacts
    <3>5. ASSUME NEW i \in DOMAIN s PROVE s[i][1] \in Branches \union {0} /\ s[i][2] \in 1..MaxCommits + MaxOwn
                                          /\ s[i] = <<s[i][1], s[i][2]>>
      BY <3>3, <3>4, ElementOfSeq DEF Commits
    <3>6. \A i \in DOMAIN s : s[i][1] = b => s[i][2] < n
      <4>1. SUFFICES ASSUME NEW i \in DOMAIN s, s[i][1] = b, s[i][2] >= n PROVE FALSE
        BY <3>5, ForkBounds
      <4>2. CASE s[i][2] = n
        BY <3>10, <3>5, <4>1, <4>2 DEF IsIn
      <4>3. CASE s[i][2] # n
        <5>1. n < s[i][2] /\ n \in 1..MaxCommits + MaxOwn
          BY <3>5, <4>1, <4>3, ForkBounds
        <5> QED BY <3>10, <4>1, <5>1
      <4> QED BY <4>2, <4>3
    <3>7. InOrder(t, b)
      BY <3>10, <3>4, <3>6 DEF InOrder
    <3>8. \A i \in DOMAIN t : t[i][1] = b \/ IsIn(t[i], launch')
      BY <3>10, <3>2, <3>4
    <3>9. \A i \in DOMAIN t, m \in 1..MaxCommits + MaxOwn :
            t[i][1] = b /\ m < t[i][2] => IsIn(<<b, m>>, t)
      <4>1. SUFFICES ASSUME NEW i \in DOMAIN t, NEW m \in 1..MaxCommits + MaxOwn,
                            t[i][1] = b, m < t[i][2]
                     PROVE  IsIn(<<b, m>>, t)
        OBVIOUS
      <4>2. CASE i \in DOMAIN s
        BY <3>10, <3>4, <4>1, <4>2
      <4>3. CASE i = Len(s) + 1
        <5>1. m \in 1..n - 1
          BY <3>4, <4>1, <4>3, ForkBounds
        <5> QED BY <3>10, <3>4, <5>1
      <4> QED BY <3>4, <4>2, <4>3
    <3> QED BY <2>1, <2>3, <3>11, <3>2, <3>7, <3>8, <3>9
  <2> QED BY <2>3, <2>4, <2>5, <2>6
<1> QED BY <1>1 DEF LogsFit

-----------------------------------------------------------------------------
(* What a step may do to a merge.                                          *)
LEMMA TodoFitsStep ==
  ASSUME ForkTypeOK, LogsFit, TodoFits, MergeStepTaken
  PROVE  TodoFits'
<1> USE DEF gitVars, mergeVars
<1>1. CASE todo' = todo /\ at' = at
  <2>1. CASE at = 0
    BY <1>1, <2>1 DEF TodoFits
  <2>2. CASE at # 0
    <3>1. at \in Branches /\ log[at] \in Seq(Commits)
      BY <2>2 DEF ForkTypeOK
    <3>2. CASE LogStays(at)
      BY <1>1, <3>2 DEF TodoFits, LogStays
    <3>3. CASE LogBegins(at)
      <4>1. log[at] = <<>>
        BY <3>1, <3>3 DEF LogBegins, LogsFit
      <4>2. DOMAIN todo = {}
        BY <2>2, <4>1 DEF TodoFits, IsIn
      <4> QED BY <1>1, <2>2, <4>2 DEF TodoFits
    <3>4. CASE LogGrows(at)
      <4>1. PICK n \in 1..MaxCommits : log'[at] = Append(log[at], <<at, n>>)
        BY <3>4 DEF LogGrows
      <4>2. \A d : IsIn(d, log[at]) => IsIn(d, log'[at])
        BY <3>1, <4>1, CommitType, AppendFacts
      <4> QED BY <1>1, <2>2, <4>2 DEF TodoFits
    <3> QED BY <3>1, <3>2, <3>3, <3>4, LogMoves
  <2> QED BY <2>1, <2>2
<1>2. CASE todo' = <<>>
  BY <1>2 DEF TodoFits
<1>3. ASSUME NEW obstacle, Pick(obstacle) PROVE TodoFits'
  <2>1. at' = at /\ log' = log /\ todo # <<>> /\ (todo' = todo \/ todo' = Tail(todo))
    BY <1>3 DEF Pick
  <2>2. /\ DOMAIN todo = 1..Len(todo) /\ DOMAIN Tail(todo) = 1..Len(todo) - 1 /\ Len(todo) \in Nat
        /\ \A i \in 1..Len(todo) - 1 : Tail(todo)[i] = todo[i + 1]
    BY <2>1, TailFacts DEF ForkTypeOK
  <2> QED BY <2>1, <2>2 DEF TodoFits
<1>4. CASE TakeBranch
  <2>1. at' \in Branches /\ log' = log /\ (todo' = <<>> \/ todo' = log[at'])
    BY <1>4, LaterType DEF TakeBranch
  <2>2. at' # 0
    BY <2>1, ForkBounds
  <2> QED BY <2>1, <2>2, HeldIsIn DEF TodoFits
<1>5. \/ todo' = todo /\ at' = at
      \/ todo' = <<>> \/ TakeBranch
      \/ \E obstacle \in {"nothing", "content", "empty", "unfinished"} : Pick(obstacle)
  BY DEF MergeStepTaken, ForkNext, ForkBegins, EnsureReady, BranchCommits, RemoveTree, BranchesStart,
         LaunchCommits, Join, FanInBegins, MergeEnds, FanInEnds, MergeDies, OperatorEndsPick,
         ResumeAtFanIn, FanInRetried, forkVars
<1> QED BY <1>1, <1>2, <1>3, <1>4, <1>5

LEMMA CleaningFitsStep ==
  ASSUME CleaningFits, MergeStepTaken
  PROVE  CleaningFits'
BY DEF CleaningFits, MergeStepTaken, ForkNext, ForkBegins, EnsureReady, BranchCommits, RemoveTree,
       BranchesStart, LaunchCommits, Join, FanInBegins, TakeBranch, Pick, MergeEnds, FanInEnds, MergeDies,
       OperatorEndsPick, ResumeAtFanIn, FanInRetried, forkVars, gitVars, mergeVars

(* The steps that begin a merge or go on with it.                          *)
LEMMA MergeMoves ==
  ASSUME MergeStepTaken, Merging'
  PROVE  \/ FanInBegins
         \/ phase = "merging" /\ (TakeBranch \/ \E obstacle : Pick(obstacle))
         \/ Merging /\ (LaunchCommits \/ OperatorEndsPick \/ UNCHANGED forkVars)
BY DEF Merging, MergeStepTaken, ForkNext, ForkBegins, EnsureReady, BranchCommits, RemoveTree,
       BranchesStart, LaunchCommits, Join, TakeBranch, Pick, MergeEnds, FanInEnds, MergeDies,
       OperatorEndsPick, ResumeAtFanIn, FanInRetried, forkVars, gitVars, mergeVars

LEMMA MergeFitsStep ==
  ASSUME ForkTypeOK, LogsFit, TodoFits, MergeFits, MergeStepTaken
  PROVE  MergeFits'
<1> SUFFICES ASSUME Merging' PROVE MergeFits'
  BY DEF MergeFits
<1> USE DEF gitVars, mergeVars
<1>1. /\ \A d : IsIn(d, launch) => IsIn(d, launch')
      /\ Len(launch) \in Nat /\ Len(launch') \in Nat /\ Len(launch) <= Len(launch')
  BY LaunchGrows
<1>2. CASE FanInBegins
  <2>1. at' = 0 /\ todo' = <<>> /\ from' = Len(launch) /\ launch' = launch
    BY <1>2 DEF FanInBegins
  <2>2. InOrder(todo', at')
    BY <2>1 DEF InOrder
  <2>3. \A b \in fork' \intersect ready' : ~ (b < at')
    <3>1. fork' \intersect ready' \subseteq Branches
      BY <1>2 DEF FanInBegins, ForkTypeOK
    <3> QED BY <2>1, <3>1, ForkBounds
  <2> QED BY <1>1, <2>1, <2>2, <2>3 DEF MergeFits
<1>3. CASE phase = "merging" /\ TakeBranch
  <2>1. /\ todo = <<>> /\ at' = First(Later) /\ at' \in Later /\ at' \in Branches
        /\ log' = log /\ fork' = fork /\ ready' = ready /\ launch' = launch /\ from' = from
    BY <1>3, LaterType DEF TakeBranch
  <2>2. Later \in SUBSET Nat /\ at \in Nat
    BY ForkBounds DEF Later, ForkTypeOK
  <2>3. \A b \in Later : at' <= b
    BY <2>1, <2>2, FirstIsLeast
  <2>4. todo' = log[at'] /\ phase' = "merging"
    BY <1>3, <2>1 DEF TakeBranch, Merging
  <2>5. \A b \in fork \intersect ready : b < at' => Done(b)
    <3>1. SUFFICES ASSUME NEW b \in fork \intersect ready, b < at' PROVE Done(b)
      OBVIOUS
    <3>2. b \in Nat /\ at' \in Nat
      BY <2>1, ForkBounds DEF ForkTypeOK
    <3>3. b <= at
      BY <2>2, <2>3, <3>1, <3>2 DEF Later
    <3>4. CASE b < at
      BY <1>3, <3>4 DEF MergeFits, Merging
    <3>5. CASE b = at
      <4>1. at # 0
        BY <3>5, ForkBounds DEF ForkTypeOK
      <4> QED BY <1>3, <2>1, <3>5, <4>1 DEF MergeFits, Merging, Done, AllIn, IsIn
    <3> QED BY <2>2, <3>2, <3>3, <3>4, <3>5
  <2>6. InOrder(todo', at')
    BY <2>1, <2>4 DEF LogsFit
  <2>7. \A i \in DOMAIN log[at'] : IsIn(log[at'][i], todo')
    BY <2>4, HeldIsIn
  <2>8. at' \in fork \intersect ready
    BY <2>1 DEF Later
  <2> QED BY <1>3, <2>1, <2>5, <2>6, <2>7, <2>8 DEF MergeFits, Merging, Done, AllIn
<1>4. ASSUME NEW obstacle, phase = "merging", Pick(obstacle) PROVE MergeFits'
  <2>1. /\ todo # <<>> /\ at' = at /\ log' = log /\ fork' = fork /\ ready' = ready /\ from' = from
    BY <1>4 DEF Pick
  <2>2. todo' = todo \/ (todo' = Tail(todo) /\ launch' = Append(launch, Head(todo)))
    BY <1>4 DEF Pick
  <2>3. /\ DOMAIN todo = 1..Len(todo) /\ DOMAIN Tail(todo) = 1..Len(todo) - 1 /\ Len(todo) \in Nat
        /\ \A i \in 1..Len(todo) - 1 : Tail(todo)[i] = todo[i + 1]
        /\ \A d : IsIn(d, todo) <=> d = Head(todo) \/ IsIn(d, Tail(todo))
        /\ Head(todo) \in Commits
    BY <2>1, TailFacts DEF ForkTypeOK
  <2>4. \A d : IsIn(d, launch) \/ IsIn(d, todo) => IsIn(d, launch') \/ IsIn(d, todo')
    <3>1. CASE todo' = todo
      BY <1>1, <3>1
    <3>2. CASE todo' = Tail(todo) /\ launch' = Append(launch, Head(todo))
      <4>1. \A d : IsIn(d, launch') <=> IsIn(d, launch) \/ d = Head(todo)
        BY <2>3, <3>2, AppendFacts DEF ForkTypeOK
      <4> QED BY <2>3, <3>2, <4>1
    <3> QED BY <2>2, <3>1, <3>2
  <2>5. InOrder(todo', at)
    <3>1. InOrder(todo, at)
      BY <1>4 DEF MergeFits, Merging
    <3>2. InOrder(Tail(todo), at)
      BY <2>3, <3>1 DEF InOrder
    <3> QED BY <2>2, <3>1, <3>2
  <2> QED BY <1>1, <1>4, <2>1, <2>4, <2>5 DEF MergeFits, Merging, Done, AllIn, ForkTypeOK
<1>5. CASE Merging /\ (LaunchCommits \/ OperatorEndsPick \/ UNCHANGED forkVars)
  <2>1. log' = log /\ fork' = fork /\ ready' = ready /\ at' = at /\ todo' = todo /\ from' = from
    BY <1>5 DEF LaunchCommits, OperatorEndsPick, forkVars
  <2> QED BY <1>1, <1>5, <2>1 DEF MergeFits, Done, AllIn, ForkTypeOK
<1> QED BY <1>2, <1>3, <1>4, <1>5, MergeMoves

(* A commit that comes in next is of the branch merge() is at, and its     *)
(* number is above those of that branch which are in already.              *)
LEMMA PicksFitStep ==
  ASSUME ForkTypeOK, LogsFit, TodoFits, MergeFits, PicksFit, MergeStepTaken
  PROVE  PicksFit'
<1> SUFFICES ASSUME phase' = "merging" \/ (phase' = "conflict" /\ picking') PROVE PicksFit'
  BY DEF PicksFit
<1> USE DEF gitVars, mergeVars
<1>0. Merging' /\ launch \in Seq(Commits) /\ todo \in Seq(Commits)
  BY DEF Merging, ForkTypeOK
<1>1. DOMAIN launch = 1..Len(launch) /\ Len(launch) \in Nat /\ from \in Nat
  BY <1>0, LenProperties DEF ForkTypeOK
<1>2. CASE FanInBegins
  <2>1. from' = Len(launch) /\ launch' = launch
    BY <1>2 DEF FanInBegins
  <2> QED BY <1>1, <2>1 DEF PicksFit
<1>3. CASE phase = "merging" /\ TakeBranch
  <2>1. /\ todo = <<>> /\ at' \in Later /\ at' \in Branches /\ launch' = launch /\ from' = from
    BY <1>3, LaterType DEF TakeBranch
  <2>2. at < at' /\ at \in Nat /\ at' \in Nat
    BY <2>1, ForkBounds DEF Later, ForkTypeOK
  <2>3. ASSUME NEW i \in from + 1..Len(launch), launch[i][1] # 0 PROVE launch[i][1] < at'
    <3>1. launch[i] \in Commits
      BY <1>0, <1>1, ElementOfSeq
    <3>2. launch[i][1] \in Nat
      BY <3>1, ForkBounds DEF Commits
    <3>3. launch[i][1] <= at
      BY <1>3, <2>3, <3>2, <2>2 DEF PicksFit
    <3> QED BY <2>2, <3>2, <3>3
  <2> QED BY <2>1, <2>3 DEF PicksFit
<1>4. ASSUME NEW obstacle, phase = "merging", Pick(obstacle) PROVE PicksFit'
  <2>1. todo # <<>> /\ at' = at /\ from' = from
    BY <1>4 DEF Pick
  <2>2. CASE launch' = launch /\ todo' = todo
    BY <1>4, <2>1, <2>2 DEF PicksFit
  <2>3. CASE obstacle = "nothing"
    <3> DEFINE c == Head(todo)
    <3>1. launch' = Append(launch, c) /\ todo' = Tail(todo) /\ ~IsIn(c, launch)
      BY <1>4, <2>3 DEF Pick, Obstacles
    <3>2. c[1] = at
      BY <2>1, <3>1, PickedIsOfBranch DEF Picked
    <3>3. /\ DOMAIN todo = 1..Len(todo) /\ DOMAIN Tail(todo) = 1..Len(todo) - 1 /\ Len(todo) \in Nat \ {0}
          /\ \A i \in 1..Len(todo) - 1 : Tail(todo)[i] = todo[i + 1]
          /\ c = todo[1] /\ c \in Commits
      BY <1>0, <2>1, TailFacts
    <3>4. /\ Len(launch') = Len(launch) + 1 /\ launch'[Len(launch) + 1] = c
          /\ \A i \in 1..Len(launch) : launch'[i] = launch[i]
      BY <1>0, <1>1, <3>1, <3>3, AppendFacts
    <3>5. InOrder(todo, at)
      BY <1>4 DEF MergeFits, Merging
    <3>6. \A j \in DOMAIN Tail(todo) : Tail(todo)[j][1] = at => c[2] < Tail(todo)[j][2]
      BY <3>2, <3>3, <3>5 DEF InOrder
    <3>7. ASSUME NEW i \in from + 1..Len(launch), launch[i][1] # 0
          PROVE  \/ launch[i][1] < at
                 \/ /\ launch[i][1] = at
                    /\ \A j \in DOMAIN Tail(todo) : Tail(todo)[j][1] = at => launch[i][2] < Tail(todo)[j][2]
      BY <1>4, <3>3, <3>7 DEF PicksFit
    <3>8. ASSUME NEW i \in from' + 1..Len(launch'), launch'[i][1] # 0
          PROVE  \/ launch'[i][1] < at
                 \/ /\ launch'[i][1] = at
                    /\ \A j \in DOMAIN Tail(todo) : Tail(todo)[j][1] = at => launch'[i][2] < Tail(todo)[j][2]
      <4>1. CASE i = Len(launch) + 1
        BY <3>2, <3>4, <3>6, <4>1
      <4>2. CASE i # Len(launch) + 1
        <5>1. i \in from + 1..Len(launch) /\ launch'[i] = launch[i]
          BY <1>1, <2>1, <3>4, <4>2
        <5> QED BY <3>7, <3>8, <5>1
      <4> QED BY <4>1, <4>2
    <3> QED BY <2>1, <3>1, <3>8 DEF PicksFit
  <2> QED BY <1>4, <2>2, <2>3 DEF Pick
<1>5. CASE Merging /\ (LaunchCommits \/ OperatorEndsPick \/ UNCHANGED forkVars)
  <2>1. ~ OperatorEndsPick
    BY <1>5, <1>0 DEF OperatorEndsPick, Merging
  <2>2. /\ at' = at /\ todo' = todo /\ from' = from /\ phase' = phase /\ picking' = picking
    BY <1>5, <2>1 DEF LaunchCommits, forkVars
  <2>3. CASE launch' = launch
    BY <2>2, <2>3 DEF PicksFit
  <2>4. CASE LaunchCommits
    <3>1. PICK n \in 1..MaxOwn : launch' = Append(launch, <<0, n>>)
      BY <2>4 DEF LaunchCommits
    <3>2. /\ Len(launch') = Len(launch) + 1 /\ launch'[Len(launch) + 1] = <<0, n>>
          /\ \A i \in 1..Len(launch) : launch'[i] = launch[i]
      BY <1>0, <1>1, <3>1, CommitType, AppendFacts
    <3>3. ASSUME NEW i \in from + 1..Len(launch'), launch'[i][1] # 0
          PROVE  i \in from + 1..Len(launch) /\ launch'[i] = launch[i]
      BY <1>1, <3>2, <3>3
    <3> QED BY <2>2, <3>3 DEF PicksFit
  <2> QED BY <1>5, <2>1, <2>3, <2>4 DEF forkVars
<1> QED BY <1>0, <1>2, <1>3, <1>4, <1>5, MergeMoves

-----------------------------------------------------------------------------
(* The five parts of BranchWorkIsKept.                                     *)
LEMMA CompleteStep ==
  ASSUME ForkTypeOK, MergeFits, SomeToMerge, MergeIsComplete, MergeStepTaken
  PROVE  MergeIsComplete'
<1> SUFFICES ASSUME phase' \in {"cleaning", "merged"}, NEW b \in fork' \intersect ready',
                    NEW i \in DOMAIN log'[b]
             PROVE  IsIn(log'[b][i], launch')
  BY DEF MergeIsComplete
<1> USE DEF gitVars, mergeVars
<1>1. \A d : IsIn(d, launch) => IsIn(d, launch')
  BY LaunchGrows
<1>2. CASE FanInBegins
  BY <1>2 DEF FanInBegins
<1>3. CASE MergeEnds
  <2>1. log' = log /\ b \in fork \intersect ready /\ todo = <<>> /\ Later = {} /\ phase = "merging"
    BY <1>3 DEF MergeEnds
  <2>2. b \in Nat /\ b > 0 /\ at \in Nat
    BY <2>1, ForkBounds DEF ForkTypeOK
  <2>3. b <= at
    BY <2>1, <2>2 DEF Later
  <2>4. CASE b < at
    BY <1>1, <2>1, <2>4 DEF MergeFits, Merging, Done, AllIn
  <2>5. CASE b = at
    <3>1. ~ IsIn(log[at][i], todo)
      BY <2>1 DEF IsIn
    <3>2. at # 0 /\ i \in DOMAIN log[at]
      BY <2>1, <2>2, <2>5
    <3>3. IsIn(log[at][i], launch)
      BY <2>1, <3>1, <3>2 DEF MergeFits, Merging
    <3> QED BY <1>1, <2>1, <2>5, <3>3
  <2> QED BY <2>2, <2>3, <2>4, <2>5
<1>4. \/ FanInBegins \/ MergeEnds
      \/ phase \in {"cleaning", "merged"} /\ log' = log /\ fork' = fork /\ ready' = ready
  BY DEF MergeStepTaken, ForkNext, ForkBegins, EnsureReady, BranchCommits, RemoveTree, BranchesStart,
         LaunchCommits, Join, TakeBranch, Pick, FanInEnds, MergeDies, OperatorEndsPick, ResumeAtFanIn,
         FanInRetried, forkVars
<1> QED BY <1>1, <1>2, <1>3, <1>4 DEF MergeIsComplete

LEMMA RemovedStep ==
  ASSUME ForkTypeOK, SomeToMerge, LogsFit, CleaningFits, MergeIsComplete, RemovedIsMerged, MergeStepTaken
  PROVE  RemovedIsMerged'
<1> SUFFICES ASSUME NEW b \in made', path'[b] = "nothing",
                    NEW i \in DOMAIN log'[b], log'[b][i][1] = b
             PROVE  IsIn(log'[b][i], launch')
  BY DEF RemovedIsMerged, MadeIn
<1>1. \A d : IsIn(d, launch) => IsIn(d, launch')
  BY LaunchGrows
<1>2. b \in Branches
  BY ForkTypeStep DEF ForkTypeOK, MergeStepTaken
<1>3. CASE LogStays(b)
  <2>1. b \in made /\ log'[b] = log[b] /\ i \in MadeIn(b) /\ i \in DOMAIN log[b]
    BY <1>3 DEF LogStays, MadeIn
  <2>2. CASE path'[b] = path[b]
    BY <1>1, <2>1, <2>2 DEF RemovedIsMerged
  <2>3. CASE phase = "cleaning" /\ b \in undone
    BY <1>1, <2>1, <2>3 DEF CleaningFits, MergeIsComplete
  <2> QED BY <1>3, <2>2, <2>3 DEF LogStays
<1>4. ~ LogBegins(b)
  BY DEF LogBegins
<1>5. ~ LogGrows(b)
  BY DEF LogGrows
<1> QED BY <1>2, <1>3, <1>4, <1>5, LogMoves

LEMMA OnceStep ==
  ASSUME ForkTypeOK, MergedOnce, MergeStepTaken
  PROVE  MergedOnce'
<1>1. CASE launch' = launch
  BY <1>1 DEF MergedOnce
<1>2. ASSUME NEW c \in Commits, LaunchGrowsBy(c) PROVE MergedOnce'
  <2>1. launch \in Seq(Commits)
    BY DEF ForkTypeOK
  <2>2. /\ DOMAIN launch' = 1..Len(launch) + 1 /\ launch'[Len(launch) + 1] = c
        /\ \A i \in 1..Len(launch) : launch'[i] = launch[i]
        /\ DOMAIN launch = 1..Len(launch) /\ Len(launch) \in Nat
    BY <1>2, <2>1, AppendFacts DEF LaunchGrowsBy
  <2>3. \A i \in DOMAIN launch : launch[i] # c
    BY <1>2 DEF LaunchGrowsBy, IsIn
  <2> QED BY <2>2, <2>3 DEF MergedOnce
<1> QED BY <1>1, <1>2, LaunchMoves

LEMMA OrderedStep ==
  ASSUME ForkTypeOK, LogsFit, TodoFits, PicksFit, MergeIsOrdered, MergeStepTaken
  PROVE  MergeIsOrdered'
<1> DEFINE Before(c, d) == c[1] < d[1] \/ (c[1] = d[1] /\ c[2] < d[2])
<1> SUFFICES ASSUME phase' \in {"merging", "cleaning", "merged", "conflict"},
                    NEW i \in from' + 1..Len(launch'), NEW j \in from' + 1..Len(launch'),
                    i < j, launch'[i][1] # 0, launch'[j][1] # 0
             PROVE  Before(launch'[i], launch'[j])
  BY DEF MergeIsOrdered
<1> USE DEF gitVars, mergeVars
<1>0. launch \in Seq(Commits) /\ todo \in Seq(Commits)
  BY DEF ForkTypeOK
<1>1. Len(launch) \in Nat /\ from \in Nat
  BY <1>0, LenProperties DEF ForkTypeOK
<1>2. CASE FanInBegins
  <2>1. from' = Len(launch) /\ launch' = launch
    BY <1>2 DEF FanInBegins
  <2> QED BY <1>1, <2>1
<1>3. \/ FanInBegins
      \/ phase \in {"merging", "cleaning", "merged", "conflict"} /\ from' = from
  BY DEF MergeStepTaken, ForkNext, ForkBegins, EnsureReady, BranchCommits, RemoveTree, BranchesStart,
         LaunchCommits, Join, TakeBranch, Pick, MergeEnds, FanInEnds, MergeDies, OperatorEndsPick,
         ResumeAtFanIn, FanInRetried, forkVars
<1>4. CASE ~ FanInBegins /\ launch' = launch
  BY <1>3, <1>4 DEF MergeIsOrdered
<1>5. ASSUME ~ FanInBegins, NEW c \in Commits, LaunchGrowsBy(c)
      PROVE  Before(launch'[i], launch'[j])
  <2>1. /\ Len(launch') = Len(launch) + 1 /\ launch'[Len(launch) + 1] = c
        /\ \A k \in 1..Len(launch) : launch'[k] = launch[k]
    BY <1>0, <1>5, AppendFacts DEF LaunchGrowsBy
  <2>2. i \in from + 1..Len(launch) /\ launch'[i] = launch[i]
    BY <1>1, <1>3, <1>5, <2>1
  <2>3. CASE j # Len(launch) + 1
    <3>1. j \in from + 1..Len(launch) /\ launch'[j] = launch[j]
      BY <1>1, <1>3, <1>5, <2>1, <2>3
    <3> QED BY <1>3, <1>5, <2>2, <3>1 DEF MergeIsOrdered
  <2>4. CASE j = Len(launch) + 1
    <3>1. Picked(c) /\ ~IsIn(c, launch)
      BY <1>5, <2>1, <2>4 DEF LaunchGrowsBy
    <3>2. c[1] = at /\ 1 \in DOMAIN todo /\ c = todo[1]
      BY <1>0, <3>1, PickedIsOfBranch, TailFacts DEF Picked
    <3>3. phase = "merging" \/ (phase = "conflict" /\ picking)
      BY <1>5, <2>1, <2>4, <1>1
         DEF MergeStepTaken, LaunchGrowsBy, ForkNext, ForkBegins, EnsureReady, BranchCommits, RemoveTree,
             BranchesStart, LaunchCommits, Join, TakeBranch, Pick, MergeEnds, FanInEnds, MergeDies,
             OperatorEndsPick, ResumeAtFanIn, FanInRetried, forkVars
    <3> QED BY <2>1, <2>2, <2>4, <3>2, <3>3 DEF PicksFit
  <2> QED BY <2>3, <2>4
<1> QED BY <1>2, <1>4, <1>5, LaunchMoves

LEMMA AppliedStep ==
  ASSUME ForkTypeOK, MergeFits, AppliedIsThere, MergeStepTaken
  PROVE  AppliedIsThere'
<1> SUFFICES ASSUME Merging', NEW b \in applied' \ {0}, NEW i \in DOMAIN log'[b], log'[b][i][1] = b
             PROVE  IsIn(log'[b][i], launch')
  BY DEF AppliedIsThere, MadeIn, Merging
<1> USE DEF gitVars, mergeVars
<1>1. \A d : IsIn(d, launch) => IsIn(d, launch')
  BY LaunchGrows
<1>2. CASE FanInBegins
  BY <1>2 DEF FanInBegins
<1>3. CASE phase = "merging" /\ TakeBranch
  <2>1. log' = log /\ todo = <<>> /\ (b \in applied \/ b = at)
    BY <1>3 DEF TakeBranch
  <2>2. CASE b \in applied
    BY <1>1, <1>3, <2>1, <2>2 DEF AppliedIsThere, MadeIn
  <2>3. CASE b = at
    <3>1. IsIn(log[at][i], launch) \/ IsIn(log[at][i], todo)
      BY <1>3, <2>1, <2>3 DEF MergeFits, Merging
    <3>2. ~ IsIn(log[at][i], todo)
      BY <2>1 DEF IsIn
    <3> QED BY <1>1, <2>1, <2>3, <3>1, <3>2
  <2> QED BY <2>1, <2>2, <2>3
<1>4. CASE Merging /\ log' = log /\ applied' = applied
  BY <1>1, <1>4 DEF AppliedIsThere, MadeIn, Merging
<1>5. \/ FanInBegins
      \/ phase = "merging" /\ TakeBranch
      \/ Merging /\ log' = log /\ applied' = applied
  BY MergeMoves DEF Merging, Pick, LaunchCommits, OperatorEndsPick, forkVars
<1> QED BY <1>2, <1>3, <1>4, <1>5

-----------------------------------------------------------------------------
LEMMA MergeInvInit == ForkInit => MergeInv
<1> SUFFICES ASSUME ForkInit PROVE MergeInv
  OBVIOUS
<1>1. ForkTypeOK /\ SomeToMerge
  BY ForkTypeInit
<1>2. \A b \in Branches : log[b] = <<>> /\ path[b] # "tree"
  BY DEF ForkInit
<1>3. LogsFit /\ LaunchFits /\ TodoFits /\ MergeFits /\ PicksFit /\ CleaningFits
  BY <1>2 DEF ForkInit, LogsFit, InOrder, LaunchFits, TodoFits, MergeFits, Merging, PicksFit, CleaningFits
<1>4. BranchWorkIsKept
  BY DEF ForkInit, BranchWorkIsKept, RemovedIsMerged, MergeIsComplete, MergedOnce, MergeIsOrdered,
         AppliedIsThere
<1> QED BY <1>1, <1>3, <1>4 DEF MergeInv

LEMMA MergeInvStep == MergeInv /\ [ForkNext \/ FanInRetried]_forkVars => MergeInv'
<1> SUFFICES ASSUME MergeInv, [ForkNext \/ FanInRetried]_forkVars PROVE MergeInv'
  OBVIOUS
<1> USE DEF MergeInv, BranchWorkIsKept
<1>1. MergeStepTaken
  BY DEF MergeStepTaken
<1>2. (ForkTypeOK /\ SomeToMerge)'
  BY ForkTypeStep
<1>3. LogsFit' /\ LaunchFits' /\ TodoFits' /\ CleaningFits'
  BY <1>1, LogsFitStep, LaunchFitsStep, TodoFitsStep, CleaningFitsStep
<1>4. MergeFits' /\ PicksFit'
  BY <1>1, MergeFitsStep, PicksFitStep
<1>5. MergeIsComplete' /\ RemovedIsMerged' /\ MergedOnce' /\ MergeIsOrdered' /\ AppliedIsThere'
  BY <1>1, CompleteStep, RemovedStep, OnceStep, OrderedStep, AppliedStep
<1> QED BY <1>2, <1>3, <1>4, <1>5

(* A merge alone: the work of branches is merged whole, once and in order, *)
(* and no worktree is removed before, whatever conflicts, dies and is      *)
(* tried again, for any branches, forks and number of commits.             *)
THEOREM MergesKeepWork == MergeSpec => []BranchWorkIsKept
<1>1. MergeInv => BranchWorkIsKept
  BY DEF MergeInv
<1> QED BY <1>1, MergeInvInit, MergeInvStep, PTL DEF MergeSpec

-----------------------------------------------------------------------------
(* The stages that StageCalls composes with a merge take its steps, and    *)
(* leave it alone otherwise.                                               *)
LEMMA StagesMerge == [Next]_vars => [ForkNext \/ FanInRetried]_forkVars
<1> SUFFICES ASSUME [Next]_vars PROVE ForkNext \/ FanInRetried \/ UNCHANGED forkVars
  OBVIOUS
<1>1. CASE MergeStep
  BY <1>1 DEF MergeStep, ForkNext
<1>2. CASE EnterFanIn \/ FanInDies
  BY <1>2 DEF EnterFanIn, FanInDies, ForkNext
<1>3. CASE EngineRetries
  BY <1>3 DEF EngineRetries
<1>4. CASE EnterCodergen \/ EnterTool \/ EnterCall \/ EnterNested \/ EnterManager
  BY <1>4 DEF EnterCodergen, EnterTool, EnterCall, EnterNested, EnterManager
<1>5. CASE MergeReturns \/ SendPrompt \/ AgentCommits \/ \E says \in Verdicts \union {"nothing"} : AgentWrites(says)
  BY <1>5 DEF MergeReturns, SendPrompt, AgentCommits, AgentWrites
<1>6. ASSUME NEW a \in Answers, AgentEnds(a) \/ ToolEnds(a) \/ NestedEnds(a) PROVE UNCHANGED forkVars
  BY <1>6 DEF AgentEnds, ToolEnds, NestedEnds
<1>7. ASSUME NEW a \in Answers, NEW known \in BOOLEAN,
             ProviderAnswers(a, known) \/ SearchEnds(a, known) \/ FetchEnds(a, known)
      PROVE  UNCHANGED forkVars
  BY <1>7 DEF ProviderAnswers, SearchEnds, FetchEnds
<1>8. ASSUME NEW sub, NEW met, RoundEnds(sub, met) PROVE UNCHANGED forkVars
  BY <1>8 DEF RoundEnds
<1>9. CASE EngineRecords \/ PartialAccepted \/ RunFails \/ EngineDies \/ StrayEnds \/ UNCHANGED vars
  BY <1>9 DEF EngineRecords, PartialAccepted, RunFails, EngineDies, StrayEnds, vars
<1> QED BY <1>1, <1>2, <1>3, <1>4, <1>5, <1>6, <1>7, <1>8, <1>9 DEF Next

(* Seen from the worktrees, the stages of a run do what a merge may do:    *)
(* what visits, retries and dying engines do to a fan-in is a merge that   *)
(* begins, goes on, dies or is tried again.                                *)
THEOREM StagesImplementMerge == Spec => MergeSpec
<1>1. Init => ForkInit
  BY DEF Init
<1> QED BY <1>1, StagesMerge, PTL DEF Spec, MergeSpec

(* What the branches of a run have committed is kept and merged whole, in  *)
(* order and once, whatever its stages do.                                 *)
THEOREM StagesKeepWork == Spec => []BranchWorkIsKept
BY StagesImplementMerge, MergesKeepWork, PTL

-----------------------------------------------------------------------------
(* What handlers make of an answer.                                        *)
LEMMA CallBounds ==
  /\ MaxRounds \in Nat /\ MaxDepth \in Nat /\ MaxVisits \in Nat /\ MaxLevels \in Nat \ {0} /\ MaxRetries \in Nat
BY CallsAssumption

LEMMA ResultType ==
  ASSUME NEW verdict \in Verdicts, NEW text \in BOOLEAN, NEW keys \in SUBSET Keys
  PROVE  Result(verdict, text, keys) \in Outcomes
BY CallBounds DEF Result, Outcomes

LEMMA ResultFields ==
  ASSUME NEW verdict, NEW text, NEW keys
  PROVE  Result(verdict, text, keys).verdict = verdict /\ Result(verdict, text, keys).keys = keys
BY DEF Result

LEMMA ErrorType == Error \in Outcomes
BY CallBounds DEF Error, Outcomes, Verdicts

LEMMA CliFacts ==
  ASSUME NEW a \in Answers
  PROVE  /\ CliOutcome(a) \in Outcomes
         /\ CliOutcome(a).keys \subseteq {"cli.timeout_kind", "session"}
         /\ CliOutcome(a).verdict = "SUCCESS" => a.end = "exit 0"
         /\ CliOutcome(a).ok => a.end # "unrunnable"
<1>1. a.end \in Ends /\ (a.out \/ a.err) \in BOOLEAN /\ a.out \in BOOLEAN
  BY DEF Answers
<1>2. /\ {"cli.timeout_kind", "session"} \subseteq Keys /\ {"session"} \subseteq Keys
      /\ "SUCCESS" \in Verdicts /\ "FAILURE" \in Verdicts /\ "RETRY" \in Verdicts
  BY DEF Keys, Verdicts
<1>3. CASE a.end = "unrunnable"
  <2>1. CliOutcome(a) = Error
    BY <1>3 DEF CliOutcome
  <2> QED BY <2>1, ErrorType DEF Error
<1>4. CASE a.end = "timeout"
  <2>1. PICK text \in BOOLEAN : CliOutcome(a) = Result("FAILURE", text, {"cli.timeout_kind", "session"})
    BY <1>4 DEF CliOutcome
  <2>2. CliOutcome(a) \in Outcomes
    BY <1>2, <2>1, ResultType
  <2>3. CliOutcome(a).keys \subseteq {"cli.timeout_kind", "session"} /\ CliOutcome(a).verdict = "FAILURE"
    BY <2>1, ResultFields
  <2> QED BY <1>4, <2>2, <2>3
<1>5. CASE a.end = "exit 0"
  <2>1. PICK text \in BOOLEAN : CliOutcome(a) = Result("SUCCESS", text, {"session"})
    BY <1>1, <1>5 DEF CliOutcome
  <2>2. CliOutcome(a) \in Outcomes
    BY <1>1, <1>2, <2>1, ResultType
  <2>3. CliOutcome(a).keys \subseteq {"cli.timeout_kind", "session"} /\ CliOutcome(a).verdict = "SUCCESS"
    BY <2>1, ResultFields
  <2> QED BY <1>5, <2>2, <2>3
<1>6. CASE a.end = "limit"
  <2>1. PICK text \in BOOLEAN : CliOutcome(a) = Result("RETRY", text, {"session"})
    BY <1>6 DEF CliOutcome
  <2>2. CliOutcome(a) \in Outcomes
    BY <1>2, <2>1, ResultType
  <2>3. CliOutcome(a).keys \subseteq {"cli.timeout_kind", "session"} /\ CliOutcome(a).verdict = "RETRY"
    BY <2>1, ResultFields
  <2> QED BY <1>6, <2>2, <2>3
<1>7. CASE a.end = "exit 1"
  <2>1. PICK text \in BOOLEAN : CliOutcome(a) = Result("FAILURE", text, {"session"})
    BY <1>1, <1>7 DEF CliOutcome
  <2>2. CliOutcome(a) \in Outcomes
    BY <1>1, <1>2, <2>1, ResultType
  <2>3. CliOutcome(a).keys \subseteq {"cli.timeout_kind", "session"} /\ CliOutcome(a).verdict = "FAILURE"
    BY <2>1, ResultFields
  <2> QED BY <1>7, <2>2, <2>3
<1> QED BY <1>1, <1>3, <1>4, <1>5, <1>6, <1>7 DEF Ends

-----------------------------------------------------------------------------
(* The invariant of the stages: where each kind of stage may be, and what  *)
(* an agent that is waited for may find and write.                         *)
PlaceFits ==
  /\ pc = "merging" => kind = "fan_in"
  /\ pc = "command" => kind \in Commanding
  /\ pc = "looping" => kind = "manager" /\ round < MaxRounds
  /\ pc \in {"idle", "merging"} => levels = <<>>
  /\ before <= heads[GitPlace]
AgentFits ==
  /\ pc = "calling" /\ kind \in Commanding =>
       /\ agent = visit /\ dir["prompt"] = visit /\ dir["debug"] = 0
       /\ status = NoStatus \/ (status.visit = visit /\ status.by = "agent")
  /\ pc = "returned" /\ outcome.ok /\ Commanded => agent = 0
StageInv == TypeOK /\ PlaceFits /\ AgentFits /\ StagesTellTheTruth

(* The keys that say how a nested run went, beside its outcome.            *)
Flags(o, a) ==
  /\ "success" \in o.keys => o.verdict = "SUCCESS" /\ a.end = "exit 0"
  /\ "failed" \in o.keys => o.verdict = "FAILURE"

LEMMA WithTextFacts ==
  ASSUME NEW o \in Outcomes
  PROVE  /\ WithText(o) \in Outcomes /\ WithText(o).ok = o.ok /\ WithText(o).verdict = o.verdict
         /\ WithText(o).keys = o.keys /\ WithText(o).commits = o.commits
         /\ WithText(o).verdict = "FAILURE" => WithText(o).text
BY DEF WithText, Outcomes

LEMMA WithGitStateFacts ==
  ASSUME CallTypeOK, PlaceFits, NEW o \in Outcomes
  PROVE  /\ WithGitState(o) \in Outcomes /\ WithGitState(o).ok = o.ok
         /\ WithGitState(o).verdict = o.verdict
         /\ o.keys \subseteq WithGitState(o).keys /\ WithGitState(o).keys \subseteq o.keys \union {"git_state"}
<1>1. heads[GitPlace] \in 0..MaxVisits /\ before \in 0..MaxVisits /\ before <= heads[GitPlace]
  BY DEF CallTypeOK, PlaceFits, GitPlace
<1>2. heads[GitPlace] - before \in 0..MaxVisits
  BY <1>1, CallBounds
<1>3. CASE o.ok /\ isRepo
  <2>1. WithGitState(o) = [o EXCEPT !.keys = @ \union {"git_state"}, !.commits = heads[GitPlace] - before]
    BY <1>3 DEF WithGitState
  <2>2. "git_state" \in Keys
    BY DEF Keys
  <2> QED BY <1>2, <2>1, <2>2 DEF Outcomes
<1>4. CASE ~ (o.ok /\ isRepo)
  BY <1>4 DEF WithGitState
<1> QED BY <1>3, <1>4

LEMMA OverruledFacts ==
  ASSUME NEW o \in Outcomes, NEW s \in Statuses
  PROVE  /\ Overruled(o, s) \in Outcomes /\ Overruled(o, s).ok = o.ok
         /\ Overruled(o, s).keys \subseteq o.keys \union {"said"}
         /\ \/ Overruled(o, s).verdict = o.verdict
            \/ s.visit # 0 /\ Overruled(o, s).verdict = s.says
<1>1. CASE s.visit = 0 \/ ~ o.ok
  BY <1>1 DEF Overruled
<1>2. CASE s.visit # 0 /\ o.ok
  <2>1. Overruled(o, s) =
          [o EXCEPT !.verdict = IF s.says = "nothing" THEN @ ELSE s.says, !.keys = @ \union {"said"}]
    BY <1>2 DEF Overruled
  <2>2. "said" \in Keys
    BY DEF Keys
  <2> QED BY <1>2, <2>1, <2>2 DEF Outcomes, Statuses
<1> QED BY <1>1, <1>2

(* What an agent's stage returns: a verdict of its own, or of the file.    *)
Earned(o, a, s) == o.ok /\ o.verdict = "SUCCESS" => a.end = "exit 0" \/ (s.visit # 0 /\ s.says = "SUCCESS")
NoFlags(o) == "success" \notin o.keys /\ "failed" \notin o.keys

LEMMA OverruledAnswers ==
  ASSUME NEW a \in Answers, NEW s \in Statuses
  PROVE  /\ Overruled(CliOutcome(a), s) \in Outcomes
         /\ Overruled(CliOutcome(a), s).ok => CliOutcome(a).ok
         /\ Overruled(CliOutcome(a), s).keys \subseteq {"cli.timeout_kind", "session", "said"}
         /\ Earned(Overruled(CliOutcome(a), s), a, s)
<1> DEFINE c == CliOutcome(a)
           o == Overruled(c, s)
<1>1. /\ c \in Outcomes /\ c.keys \subseteq {"cli.timeout_kind", "session"}
      /\ c.verdict = "SUCCESS" => a.end = "exit 0"
  BY CliFacts
<1> HIDE DEF c
<1>2. /\ o \in Outcomes /\ o.ok = c.ok /\ o.keys \subseteq c.keys \union {"said"}
      /\ o.verdict = c.verdict \/ (s.visit # 0 /\ o.verdict = s.says)
  BY <1>1, OverruledFacts
<1> HIDE DEF o
<1>3. o.ok => c.ok
  BY <1>2
<1>4. o.keys \subseteq {"cli.timeout_kind", "session", "said"}
  BY <1>1, <1>2
<1>5. Earned(o, a, s)
  BY <1>1, <1>2 DEF Earned
<1> QED BY <1>2, <1>3, <1>4, <1>5 DEF o, c

LEMMA CodergenFacts ==
  ASSUME NEW a \in Answers, NEW s \in Statuses
  PROVE  /\ CodergenOutcome(a, s) \in Outcomes /\ Earned(CodergenOutcome(a, s), a, s)
         /\ NoFlags(CodergenOutcome(a, s))
         /\ CodergenOutcome(a, s).ok => a.end # "unrunnable"
<1> DEFINE o == Overruled(CliOutcome(a), s)
<1>1. /\ o \in Outcomes /\ (o.ok => CliOutcome(a).ok)
      /\ o.keys \subseteq {"cli.timeout_kind", "session", "said"} /\ Earned(o, a, s)
  BY OverruledAnswers
<1>2. CodergenOutcome(a, s) = [o EXCEPT !.keys = IF o.ok /\ o.text THEN @ \union {"output"} ELSE @]
  BY DEF CodergenOutcome
<1>3. "output" \in Keys
  BY DEF Keys
<1> HIDE DEF o
<1>4. /\ CodergenOutcome(a, s).ok = o.ok /\ CodergenOutcome(a, s).verdict = o.verdict
      /\ CodergenOutcome(a, s).keys \subseteq o.keys \union {"output"}
      /\ CodergenOutcome(a, s) \in Outcomes
  BY <1>1, <1>2, <1>3 DEF Outcomes
<1> QED BY <1>1, <1>4, CliFacts DEF Earned, NoFlags

LEMMA FanInFacts ==
  ASSUME NEW a \in Answers, NEW s \in Statuses
  PROVE  /\ FanInOutcome(a, s) \in Outcomes /\ Earned(FanInOutcome(a, s), a, s)
         /\ NoFlags(FanInOutcome(a, s))
         /\ FanInOutcome(a, s).ok => a.end # "unrunnable" /\ "merged" \in FanInOutcome(a, s).keys
<1> DEFINE o == Overruled(CliOutcome(a), s)
<1>1. /\ o \in Outcomes /\ (o.ok => CliOutcome(a).ok)
      /\ o.keys \subseteq {"cli.timeout_kind", "session", "said"} /\ Earned(o, a, s)
  BY OverruledAnswers
<1>2. FanInOutcome(a, s) = [o EXCEPT !.keys = IF o.ok THEN @ \union {"output", "merged"} ELSE @]
  BY DEF FanInOutcome
<1>3. "output" \in Keys /\ "merged" \in Keys
  BY DEF Keys
<1> HIDE DEF o
<1>4. /\ FanInOutcome(a, s).ok = o.ok /\ FanInOutcome(a, s).verdict = o.verdict
      /\ FanInOutcome(a, s).keys \subseteq o.keys \union {"output", "merged"}
      /\ o.ok => "merged" \in FanInOutcome(a, s).keys
      /\ FanInOutcome(a, s) \in Outcomes
  BY <1>1, <1>2, <1>3 DEF Outcomes
<1> QED BY <1>1, <1>4, CliFacts DEF Earned, NoFlags

LEMMA ToolFacts ==
  ASSUME NEW a \in Answers
  PROVE  /\ ToolOutcome(a) \in Outcomes /\ NoFlags(ToolOutcome(a))
         /\ ToolOutcome(a).ok /\ ToolOutcome(a).verdict = "SUCCESS" => a.end = "exit 0"
<1> DEFINE keys == {"stdout"} \union (IF a.end = "timeout" THEN {"tool.timeout_kind"} ELSE {})
           verdict == IF a.end = "exit 0" THEN "SUCCESS" ELSE "FAILURE"
<1>1. keys \in SUBSET Keys /\ verdict \in Verdicts /\ a.out \in BOOLEAN
      /\ "success" \notin keys /\ "failed" \notin keys
  BY DEF Keys, Verdicts, Answers
<1>2. CASE a.end = "unrunnable"
  BY <1>2, ErrorType DEF ToolOutcome, Error, NoFlags
<1>3. CASE a.end # "unrunnable"
  <2>1. PICK text \in BOOLEAN : ToolOutcome(a) = Result(verdict, text, keys)
    BY <1>1, <1>3 DEF ToolOutcome
  <2> HIDE DEF keys, verdict
  <2>2. ToolOutcome(a) \in Outcomes
    BY <1>1, <2>1, ResultType
  <2>3. ToolOutcome(a).verdict = verdict /\ ToolOutcome(a).keys = keys
    BY <2>1, ResultFields
  <2> QED BY <1>1, <2>2, <2>3 DEF NoFlags, verdict
<1> QED BY <1>2, <1>3

LEMMA LLMKitFacts ==
  ASSUME NEW a \in Answers, NEW known \in BOOLEAN
  PROVE  /\ LLMKitOutcome(a, known) \in Outcomes /\ NoFlags(LLMKitOutcome(a, known))
         /\ LLMKitOutcome(a, known).ok /\ LLMKitOutcome(a, known).verdict = "SUCCESS" => a.end = "exit 0"
<1> DEFINE verdict == IF HttpText(a).ok THEN "SUCCESS" ELSE "FAILURE"
           text == HttpText(a).ok => HttpText(a).text
<1>1. verdict \in Verdicts /\ text \in BOOLEAN /\ {} \in SUBSET Keys
      /\ (verdict = "SUCCESS" => a.end = "exit 0")
  BY DEF Verdicts, Answers, Ends, HttpText
<1>2. CASE ~ known
  BY <1>2, ErrorType DEF LLMKitOutcome, Error, NoFlags
<1>3. CASE known
  <2>1. LLMKitOutcome(a, known) = Result(verdict, text, {})
    BY <1>3 DEF LLMKitOutcome
  <2> HIDE DEF text, verdict
  <2>2. LLMKitOutcome(a, known) \in Outcomes
    BY <1>1, <2>1, ResultType
  <2>3. LLMKitOutcome(a, known).verdict = verdict /\ LLMKitOutcome(a, known).keys = {}
    BY <2>1, ResultFields
  <2> QED BY <1>1, <2>2, <2>3 DEF NoFlags
<1> QED BY <1>2, <1>3

LEMMA FetchFacts ==
  ASSUME NEW o, NEW text \in BOOLEAN,
         o = Result("SUCCESS", TRUE, {"skipped", "content"}) \/ o = Result("SUCCESS", text, {"content"})
  PROVE  o \in Outcomes /\ o.verdict = "SUCCESS" /\ NoFlags(o)
<1>1. PICK t \in BOOLEAN, keys \in {{"skipped", "content"}, {"content"}} : o = Result("SUCCESS", t, keys)
  OBVIOUS
<1>2. keys \in SUBSET Keys /\ "SUCCESS" \in Verdicts /\ "success" \notin keys /\ "failed" \notin keys
  BY DEF Keys, Verdicts
<1>3. o \in Outcomes
  BY <1>1, <1>2, ResultType
<1>4. o.verdict = "SUCCESS" /\ o.keys = keys
  BY <1>1, ResultFields
<1> QED BY <1>2, <1>3, <1>4 DEF NoFlags

LEMMA NestedFacts ==
  ASSUME NEW a \in Answers
  PROVE  /\ NestedOutcome(a) \in Outcomes /\ Flags(NestedOutcome(a), a)
         /\ NestedOutcome(a).verdict = "SUCCESS" => a.end = "exit 0"
         /\ NestedOutcome(a).verdict = "FAILURE" => NestedOutcome(a).text
<1>1. /\ {"failed"} \in SUBSET Keys /\ {"success", "content"} \in SUBSET Keys
      /\ {"failed", "content"} \in SUBSET Keys /\ "SUCCESS" \in Verdicts /\ "FAILURE" \in Verdicts
      /\ a.out \in BOOLEAN
  BY DEF Keys, Verdicts, Answers
<1>2. CASE a.end # "exit 0"
  <2>0. PICK keys \in {{"failed"}, {"failed", "content"}} : NestedOutcome(a) = Result("FAILURE", TRUE, keys)
    BY <1>2 DEF NestedOutcome
  <2>1. PICK text \in BOOLEAN : NestedOutcome(a) = Result("FAILURE", text, keys)
    BY <2>0
  <2>2. NestedOutcome(a) \in Outcomes
    BY <1>1, <2>1, ResultType
  <2>3. NestedOutcome(a).verdict = "FAILURE" /\ NestedOutcome(a).keys = keys
    BY <2>1, ResultFields
  <2>4. NestedOutcome(a).text
    BY <2>0 DEF Result
  <2>5. Flags(NestedOutcome(a), a)
    BY <2>1, <2>3 DEF Flags
  <2> QED BY <2>2, <2>3, <2>4, <2>5
<1>3. CASE a.end = "exit 0"
  <2>1. NestedOutcome(a) = Result("SUCCESS", a.out, {"success", "content"})
    BY <1>3 DEF NestedOutcome
  <2>2. NestedOutcome(a) \in Outcomes
    BY <1>1, <2>1, ResultType
  <2>3. NestedOutcome(a).verdict = "SUCCESS" /\ NestedOutcome(a).keys = {"success", "content"}
    BY <2>1, ResultFields
  <2> QED BY <1>3, <2>2, <2>3 DEF Flags
<1> QED BY <1>2, <1>3

LEMMA RoundFacts ==
  ASSUME NEW sub, NEW met
  PROVE  /\ RoundOutcome(sub, met) \in Outcomes /\ NoFlags(RoundOutcome(sub, met))
         /\ RoundOutcome(sub, met).verdict = "SUCCESS" => met = Gates
<1>1. "SUCCESS" \in Verdicts /\ "FAILURE" \in Verdicts /\ {} \in SUBSET Keys /\ {"iterations"} \in SUBSET Keys
  BY DEF Keys, Verdicts
<1>2. CASE sub = "error"
  BY <1>2, ErrorType DEF RoundOutcome, Error, NoFlags
<1>3. CASE sub # "error" /\ met = Gates
  <2>1. PICK text \in BOOLEAN : RoundOutcome(sub, met) = Result("SUCCESS", text, {"iterations"})
    BY <1>3 DEF RoundOutcome
  <2>2. RoundOutcome(sub, met) \in Outcomes
    BY <1>1, <2>1, ResultType
  <2>3. RoundOutcome(sub, met).keys = {"iterations"}
    BY <2>1, ResultFields
  <2> QED BY <1>3, <2>2, <2>3 DEF NoFlags
<1>4. CASE sub # "error" /\ met # Gates
  <2>1. PICK text \in BOOLEAN : RoundOutcome(sub, met) = Result("FAILURE", text, {})
    BY <1>4 DEF RoundOutcome
  <2>2. RoundOutcome(sub, met) \in Outcomes
    BY <1>1, <2>1, ResultType
  <2>3. RoundOutcome(sub, met).keys = {} /\ RoundOutcome(sub, met).verdict = "FAILURE"
    BY <2>1, ResultFields
  <2> QED BY <2>2, <2>3 DEF NoFlags
<1> QED BY <1>2, <1>3, <1>4

LEMMA PlainFacts ==
  ASSUME NEW verdict \in {"SUCCESS", "FAILURE"}, NEW keys \in {{}, {"conflict"}}, NEW text \in BOOLEAN,
         NEW o, o = Result(verdict, text, keys)
  PROVE  o \in Outcomes /\ o.verdict = verdict /\ o.keys = keys /\ NoFlags(o)
<1>1. keys \in SUBSET Keys /\ verdict \in Verdicts /\ "success" \notin keys /\ "failed" \notin keys
  BY DEF Keys, Verdicts
<1>2. o \in Outcomes
  BY <1>1, ResultType
<1>3. o.verdict = verdict /\ o.keys = keys
  BY ResultFields
<1> QED BY <1>1, <1>2, <1>3 DEF NoFlags

LEMMA PlainText == ASSUME NEW verdict, NEW keys PROVE Result(verdict, TRUE, keys).text
BY DEF Result

(* What the handler of a commanded stage makes of the answer.              *)
AgentOutcome(a) ==
  IF kind = "codergen" THEN WithText(WithGitState(CodergenOutcome(a, status))) ELSE FanInOutcome(a, status)

LEMMA AgentOutcomeFacts ==
  ASSUME CallTypeOK, PlaceFits, NEW a \in Answers
  PROVE  /\ AgentOutcome(a) \in Outcomes /\ Earned(AgentOutcome(a), a, status) /\ NoFlags(AgentOutcome(a))
         /\ AgentOutcome(a).ok => a.end # "unrunnable"
         /\ kind = "codergen" /\ AgentOutcome(a).verdict = "FAILURE" => AgentOutcome(a).text
         /\ kind # "codergen" /\ AgentOutcome(a).ok => "merged" \in AgentOutcome(a).keys
<1>1. status \in Statuses
  BY DEF CallTypeOK
<1>2. CASE kind = "codergen"
  <2> DEFINE o == CodergenOutcome(a, status)
             g == WithGitState(o)
  <2>1. o \in Outcomes /\ Earned(o, a, status) /\ NoFlags(o)
    BY <1>1, CodergenFacts
  <2>2. o.ok => a.end # "unrunnable"
    BY <1>1, CodergenFacts
  <2> HIDE DEF o
  <2>3. g \in Outcomes /\ g.ok = o.ok /\ g.verdict = o.verdict /\ g.keys \subseteq o.keys \union {"git_state"}
    BY <2>1, WithGitStateFacts
  <2>4. NoFlags(g)
    BY <2>1, <2>3 DEF NoFlags
  <2> HIDE DEF g
  <2>5. AgentOutcome(a) = WithText(g)
    BY <1>2 DEF AgentOutcome, g, o
  <2>6. /\ WithText(g) \in Outcomes /\ WithText(g).ok = g.ok /\ WithText(g).verdict = g.verdict
        /\ WithText(g).keys = g.keys /\ (WithText(g).verdict = "FAILURE" => WithText(g).text)
    BY <2>3, WithTextFacts
  <2>7. Earned(WithText(g), a, status) /\ (WithText(g).ok => a.end # "unrunnable")
    BY <2>1, <2>2, <2>3, <2>6 DEF Earned
  <2>8. NoFlags(WithText(g))
    BY <2>4, <2>6 DEF NoFlags
  <2> QED BY <1>2, <2>5, <2>6, <2>7, <2>8
<1>3. CASE kind # "codergen"
  <2>1. AgentOutcome(a) = FanInOutcome(a, status)
    BY <1>3 DEF AgentOutcome
  <2>2. /\ FanInOutcome(a, status) \in Outcomes /\ Earned(FanInOutcome(a, status), a, status)
        /\ NoFlags(FanInOutcome(a, status))
    BY <1>1, FanInFacts
  <2>3. FanInOutcome(a, status).ok => a.end # "unrunnable" /\ "merged" \in FanInOutcome(a, status).keys
    BY <1>1, FanInFacts
  <2> QED BY <1>3, <2>1, <2>2, <2>3
<1> QED BY <1>2, <1>3

(* What a tool's stage returns: the same, but for the status file.         *)
LEMMA ToolOutcomeFacts ==
  ASSUME CallTypeOK, PlaceFits, NEW a \in Answers, NEW o, o = WithText(WithGitState(ToolOutcome(a)))
  PROVE  /\ o \in Outcomes /\ NoFlags(o)
         /\ o.ok /\ o.verdict = "SUCCESS" => a.end = "exit 0"
         /\ o.verdict = "FAILURE" => o.text
<1> DEFINE t == ToolOutcome(a)
           g == WithGitState(t)
<1>1. t \in Outcomes /\ NoFlags(t)
  BY ToolFacts
<1>2. t.ok /\ t.verdict = "SUCCESS" => a.end = "exit 0"
  BY ToolFacts
<1> HIDE DEF t
<1>3. g \in Outcomes /\ g.ok = t.ok /\ g.verdict = t.verdict /\ g.keys \subseteq t.keys \union {"git_state"}
  BY <1>1, WithGitStateFacts
<1>4. NoFlags(g)
  BY <1>1, <1>3 DEF NoFlags
<1> HIDE DEF g
<1>5. o = WithText(g)
  BY DEF g, t
<1>6. /\ o \in Outcomes /\ o.ok = g.ok /\ o.verdict = g.verdict
      /\ o.keys = g.keys /\ (o.verdict = "FAILURE" => o.text)
  BY <1>3, <1>5, WithTextFacts
<1>7. NoFlags(o)
  BY <1>4, <1>6 DEF NoFlags
<1> QED BY <1>2, <1>3, <1>6, <1>7

LEMMA ProviderOutcomeFacts ==
  ASSUME NEW a \in Answers, NEW known \in BOOLEAN, NEW o, o = WithText(LLMKitOutcome(a, known))
  PROVE  /\ o \in Outcomes /\ NoFlags(o)
         /\ o.ok /\ o.verdict = "SUCCESS" => a.end = "exit 0"
         /\ o.verdict = "FAILURE" => o.text
<1> DEFINE t == LLMKitOutcome(a, known)
<1>1. t \in Outcomes /\ NoFlags(t)
  BY LLMKitFacts
<1>2. t.ok /\ t.verdict = "SUCCESS" => a.end = "exit 0"
  BY LLMKitFacts
<1> HIDE DEF t
<1>3. /\ o \in Outcomes /\ o.ok = t.ok /\ o.verdict = t.verdict
      /\ o.keys = t.keys /\ (o.verdict = "FAILURE" => o.text)
  BY <1>1, WithTextFacts DEF t
<1>4. NoFlags(o)
  BY <1>1, <1>3 DEF NoFlags
<1> QED BY <1>2, <1>3, <1>4

LEMMA FetchOutcomeFacts ==
  ASSUME NEW a \in Answers, NEW known \in BOOLEAN,
         NEW o \in {WebSearchOutcome(a, known), DocFetchOutcome(a, known)}
  PROVE  o \in Outcomes /\ o.verdict = "SUCCESS" /\ NoFlags(o)
<1>1. a.out \in BOOLEAN
  BY DEF Answers
<1>2. o = Result("SUCCESS", TRUE, {"skipped", "content"}) \/ o = Result("SUCCESS", a.out, {"content"})
  BY DEF WebSearchOutcome, DocFetchOutcome
<1> QED BY <1>1, <1>2, FetchFacts

-----------------------------------------------------------------------------
(* The stages keep their types, whatever the call returns.                 *)
LEMMA LevelsFacts ==
  ASSUME CallTypeOK
  PROVE  /\ Len(levels) \in Nat
         /\ Depth < MaxDepth => Append(levels, Child) \in Seq(Contexts)
         /\ Len(Append(levels, Child)) = Len(levels) + 1
         /\ Front(levels) \in Seq(Contexts) /\ Len(Front(levels)) <= Len(levels)
<1>1. levels \in Seq(Contexts) /\ Len(levels) \in Nat /\ DOMAIN levels = 1..Len(levels)
  BY LenProperties DEF CallTypeOK
<1>2. Depth = 0
  <2>1. CASE levels = <<>>
    BY <2>1 DEF Depth
  <2>2. CASE levels # <<>>
    <3>1. levels[Len(levels)] \in Contexts
      BY <1>1, <2>2, EmptySeq, ElementOfSeq
    <3> QED BY <2>2, <3>1 DEF Depth, Contexts
  <2> QED BY <2>1, <2>2
<1>3. Depth < MaxDepth => Child \in Contexts
  BY <1>2, CallBounds DEF Child, Contexts
<1>4. Len(Append(levels, Child)) = Len(levels) + 1
  <2>1. levels \in Seq(Contexts \union {Child}) /\ Child \in Contexts \union {Child}
    BY <1>1
  <2> QED BY <2>1, AppendProperties
<1>5. Front(levels) \in Seq(Contexts) /\ Len(Front(levels)) <= Len(levels)
  <2>1. /\ SubSeq(levels, 1, Len(levels) - 1) \in Seq(Contexts)
        /\ Len(SubSeq(levels, 1, Len(levels) - 1)) =
             IF 1 <= Len(levels) - 1 THEN Len(levels) - 1 - 1 + 1 ELSE 0
    <3>1. \A i \in 1..Len(levels) - 1 : levels[i] \in Contexts
      BY <1>1, ElementOfSeq
    <3> QED BY <1>1, <3>1, SubSeqProperties
  <2> QED BY <1>1, <2>1 DEF Front
<1> QED BY <1>1, <1>3, <1>4, <1>5, AppendProperties

LEMMA EntersKeepTypes ==
  ASSUME CallTypeOK, PlaceFits,
         \/ EnterCodergen \/ EnterTool \/ EnterCall \/ EnterFanIn
         \/ EnterNested \/ EnterManager \/ MergeReturns
  PROVE  CallTypeOK'
<1> USE CallBounds DEF CallTypeOK, NodeIsStill, StageIsStill, LoopsAreStill, Returns
<1>1. Visits => visit' \in 0..MaxVisits
  BY DEF Visits
<1>2. Error \in Outcomes /\ NoStatus \in Statuses
  BY ErrorType DEF NoStatus, Statuses
<1>3. /\ Result("FAILURE", TRUE, {}) \in Outcomes /\ Result("SUCCESS", TRUE, {}) \in Outcomes
      /\ Result("FAILURE", TRUE, {"conflict"}) \in Outcomes
  BY PlainFacts
<1>4. CASE EnterCodergen
  <2>1. dir' \in [Files -> 0..MaxVisits]
    <3>1. dir \in [Files -> 0..MaxVisits] /\ 0 \in 0..MaxVisits /\ dir' = [dir EXCEPT !["response"] = 0]
      BY <1>4 DEF EnterCodergen
    <3> HIDE CallBounds DEF CallTypeOK
    <3> QED BY <3>1
  <2>2. before' \in 0..MaxVisits /\ status' \in Statuses
    BY <1>2, <1>4 DEF EnterCodergen
  <2> QED BY <1>1, <1>4, <2>1, <2>2 DEF EnterCodergen
<1>5. CASE EnterTool
  BY <1>1, <1>5 DEF EnterTool
<1>6. CASE EnterCall
  BY <1>1, <1>6 DEF EnterCall
<1>7. CASE EnterFanIn
  BY <1>1, <1>7 DEF EnterFanIn
<1>8. CASE EnterManager
  <2>1. outcome' \in Outcomes
    BY <1>2, <1>3, <1>8 DEF EnterManager
  <2>2. visit' \in 0..MaxVisits /\ round' \in 0..MaxRounds
    BY <1>1, <1>8 DEF EnterManager
  <2>3. pc' \in {"looping", "returned"}
    BY <1>8 DEF EnterManager
  <2> QED BY <1>8, <2>1, <2>2, <2>3 DEF EnterManager
<1>9. CASE EnterNested
  <2>1. outcome' \in Outcomes
    BY <1>2, <1>3, <1>9 DEF EnterNested
  <2>2. visit' \in 0..MaxVisits
    BY <1>1, <1>9 DEF EnterNested
  <2>3. Len(levels) < MaxLevels
    <3>1. CASE levels = <<>>
      BY <3>1, EmptySeq
    <3>2. CASE levels # <<>>
      BY <1>9, <3>2 DEF EnterNested, Visits, PlaceFits
    <3> QED BY <3>1, <3>2
  <2>4. levels' \in Seq(Contexts) /\ Len(levels') <= MaxLevels
    <3>1. levels' = levels \/ (Depth < MaxDepth /\ levels' = Append(levels, Child))
      BY <1>9 DEF EnterNested
    <3> QED BY <2>3, <3>1, LevelsFacts
  <2> QED BY <1>9, <2>1, <2>2, <2>4 DEF EnterNested
<1>10. CASE MergeReturns
  <2>1. outcome' \in Outcomes
    BY <1>2, <1>3, <1>10 DEF MergeReturns
  <2> QED BY <1>10, <2>1 DEF MergeReturns
<1> QED BY <1>4, <1>5, <1>6, <1>7, <1>8, <1>9, <1>10

LEMMA AgentsKeepTypes ==
  ASSUME CallTypeOK,
         SendPrompt \/ AgentCommits \/ (\E says \in Verdicts \union {"nothing"} : AgentWrites(says)) \/ StrayEnds
  PROVE  CallTypeOK'
<1> USE CallBounds DEF CallTypeOK, NodeIsStill, StageIsStill, LoopsAreStill, Returns
<1>1. Error \in Outcomes /\ NoStatus \in Statuses
  BY ErrorType DEF NoStatus, Statuses
<1>2. CASE SendPrompt
  <2>1. dir' \in [Files -> 0..MaxVisits]
    BY <1>2 DEF SendPrompt, Files
  <2> QED BY <1>1, <1>2, <2>1 DEF SendPrompt
<1>3. CASE AgentCommits
  <2>1. heads' \in [{"project", "branch"} -> 0..MaxVisits]
    BY <1>3 DEF AgentCommits
  <2> QED BY <1>3, <2>1 DEF AgentCommits
<1>4. ASSUME NEW says \in Verdicts \union {"nothing"}, AgentWrites(says) PROVE CallTypeOK'
  <2>1. status' \in Statuses
    BY <1>4 DEF AgentWrites, Statuses
  <2> QED BY <1>4, <2>1 DEF AgentWrites
<1>5. CASE StrayEnds
  BY <1>5 DEF StrayEnds
<1> QED BY <1>2, <1>3, <1>4, <1>5

LEMMA AnswersKeepTypes ==
  ASSUME CallTypeOK, PlaceFits, NEW a \in Answers, AgentEnds(a) \/ ToolEnds(a) \/ NestedEnds(a)
  PROVE  CallTypeOK'
<1> USE CallBounds DEF CallTypeOK, NodeIsStill, StageIsStill, LoopsAreStill, Returns
<1>1. CASE AgentEnds(a)
  <2>1. dir' \in [Files -> 0..MaxVisits]
    BY <1>1 DEF AgentEnds, Files
  <2>2. outcome' = AgentOutcome(a)
    BY <1>1 DEF AgentEnds, AgentOutcome
  <2>3. outcome' \in Outcomes
    BY <2>2, AgentOutcomeFacts
  <2> QED BY <1>1, <2>1, <2>3 DEF AgentEnds
<1>2. CASE ToolEnds(a)
  <2>1. outcome' \in Outcomes
    BY <1>2, ToolOutcomeFacts DEF ToolEnds
  <2> QED BY <1>2, <2>1 DEF ToolEnds
<1>3. CASE NestedEnds(a)
  <2>1. outcome' \in Outcomes
    BY <1>3, NestedFacts DEF NestedEnds
  <2>2. levels' \in Seq(Contexts) /\ Len(levels') <= MaxLevels
    BY <1>3, LevelsFacts, LenProperties DEF NestedEnds
  <2> QED BY <1>3, <2>1, <2>2 DEF NestedEnds
<1> QED BY <1>1, <1>2, <1>3

LEMMA FetchesKeepTypes ==
  ASSUME CallTypeOK, NEW a \in Answers, NEW known \in BOOLEAN,
         ProviderAnswers(a, known) \/ SearchEnds(a, known) \/ FetchEnds(a, known)
  PROVE  CallTypeOK'
<1> USE CallBounds DEF CallTypeOK, NodeIsStill, StageIsStill, LoopsAreStill, Returns
<1>1. CASE ProviderAnswers(a, known)
  <2>1. dir' \in [Files -> 0..MaxVisits]
    BY <1>1 DEF ProviderAnswers, Files
  <2>2. outcome' \in Outcomes
    BY <1>1, ProviderOutcomeFacts DEF ProviderAnswers
  <2> QED BY <1>1, <2>1, <2>2 DEF ProviderAnswers
<1>2. CASE SearchEnds(a, known)
  <2>1. outcome' \in Outcomes
    BY <1>2, FetchOutcomeFacts DEF SearchEnds
  <2> QED BY <1>2, <2>1 DEF SearchEnds
<1>3. CASE FetchEnds(a, known)
  <2>1. dir' \in [Files -> 0..MaxVisits]
    BY <1>3 DEF FetchEnds, Files
  <2>2. outcome' \in Outcomes
    BY <1>3, FetchOutcomeFacts DEF FetchEnds
  <2> QED BY <1>3, <2>1, <2>2 DEF FetchEnds
<1> QED BY <1>1, <1>2, <1>3

LEMMA RoundsKeepTypes ==
  ASSUME CallTypeOK, PlaceFits, NEW sub, NEW met \in SUBSET Gates, RoundEnds(sub, met)
  PROVE  CallTypeOK'
<1> USE CallBounds DEF CallTypeOK, NodeIsStill, StageIsStill, LoopsAreStill, Returns
<1>1. outcome' \in Outcomes
  BY RoundFacts DEF RoundEnds
<1>2. round' \in 0..MaxRounds /\ gates' \subseteq Gates /\ pc' \in {"looping", "returned"}
  BY DEF RoundEnds, PlaceFits
<1> QED BY <1>1, <1>2 DEF RoundEnds

LEMMA StageWrittenFacts ==
  ASSUME CallTypeOK, NEW o \in Outcomes, StageWritten(o)
  PROVE  status' \in Statuses /\ dir' \in [Files -> 0..MaxVisits]
<1>1. status' \in Statuses
  <2>1. PICK timeout \in BOOLEAN :
          status' = [visit |-> visit, by |-> "engine", says |-> o.verdict, timeout |-> timeout,
                     commits |-> o.commits]
    <3>1. ("tool.timeout_kind" \in o.keys) \in BOOLEAN
      OBVIOUS
    <3> QED BY <3>1, Zenon DEF StageWritten
  <2>2. visit \in 0..MaxVisits /\ o.verdict \in Verdicts /\ o.commits \in 0..MaxVisits
    BY DEF CallTypeOK, Outcomes
  <2> QED BY <2>1, <2>2 DEF Statuses
<1>2. dir' \in [Files -> 0..MaxVisits]
  <2>1. PICK p \in 0..MaxVisits, r \in 0..MaxVisits : dir' = [dir EXCEPT !["prompt"] = p, !["response"] = r]
    BY DEF StageWritten, CallTypeOK, Files
  <2>2. dir \in [Files -> 0..MaxVisits]
    BY DEF CallTypeOK
  <2> QED BY <2>1, <2>2
<1> QED BY <1>1, <1>2

LEMMA OverKeepsTypes ==
  ASSUME CallTypeOK, StageIsOver
  PROVE  /\ pc' = "idle" /\ outcome' \in Outcomes /\ call' \in Answers \union {NoAnswer}
         /\ before' \in 0..MaxVisits /\ round' \in 0..MaxRounds /\ gates' \subseteq Gates
         /\ levels' \in Seq(Contexts) /\ Len(levels') <= MaxLevels
<1>1. levels' \in Seq(Contexts) /\ Len(levels') = 0
  BY EmptySeq DEF StageIsOver
<1> QED BY <1>1, ErrorType, CallBounds DEF StageIsOver

LEMMA EngineKeepsTypes ==
  ASSUME CallTypeOK, EngineRecords \/ EngineRetries \/ PartialAccepted \/ RunFails \/ EngineDies
  PROVE  CallTypeOK'
<1>1. StageIsOver
  BY DEF EngineRecords, EngineRetries, PartialAccepted, RunFails, EngineDies
<1>2. NodeIsStill /\ visit' = visit /\ heads' = heads /\ agent' = agent
  BY DEF EngineRecords, EngineRetries, PartialAccepted, RunFails, EngineDies, StageIsStill
<1>3. attempts' \in 0..MaxRetries
  BY CallBounds DEF EngineRecords, EngineRetries, PartialAccepted, RunFails, EngineDies, CallTypeOK
<1>4. status' \in Statuses /\ dir' \in [Files -> 0..MaxVisits]
  <2>1. CASE EngineRecords
    BY <2>1, StageWrittenFacts DEF EngineRecords, CallTypeOK
  <2>2. CASE PartialAccepted
    <3>1. [outcome EXCEPT !.verdict = "PARTIAL_SUCCESS", !.text = TRUE] \in Outcomes
      BY DEF CallTypeOK, Outcomes, Verdicts
    <3> QED BY <2>2, <3>1, StageWrittenFacts DEF PartialAccepted
  <2>3. CASE EngineRetries \/ RunFails \/ EngineDies
    BY <2>3 DEF EngineRetries, RunFails, EngineDies, StageIsStill, CallTypeOK
  <2> QED BY <2>1, <2>2, <2>3
<1>5. pc' = "idle" /\ outcome' \in Outcomes /\ call' \in Answers \union {NoAnswer}
  BY <1>1, OverKeepsTypes
<1>6. /\ before' \in 0..MaxVisits /\ round' \in 0..MaxRounds /\ gates' \subseteq Gates
      /\ levels' \in Seq(Contexts) /\ Len(levels') <= MaxLevels
  BY <1>1, OverKeepsTypes
<1> QED BY <1>2, <1>3, <1>4, <1>5, <1>6 DEF CallTypeOK, NodeIsStill

LEMMA CallTypeStep == CallTypeOK /\ PlaceFits /\ [Next]_vars => CallTypeOK'
<1> SUFFICES ASSUME CallTypeOK, PlaceFits, [Next]_vars PROVE CallTypeOK'
  OBVIOUS
<1>1. CASE MergeStep
  BY <1>1 DEF MergeStep, CallTypeOK, callVars
<1>2. CASE FanInDies
  BY <1>2 DEF FanInDies, CallTypeOK, NodeIsStill, StageIsStill, LoopsAreStill
<1>3. CASE UNCHANGED vars
  BY <1>3 DEF vars, CallTypeOK, callVars
<1>4. CASE \/ EnterCodergen \/ EnterTool \/ EnterCall \/ EnterFanIn
           \/ EnterNested \/ EnterManager \/ MergeReturns
  BY <1>4, EntersKeepTypes
<1>5. CASE \/ SendPrompt \/ AgentCommits \/ StrayEnds
           \/ \E says \in Verdicts \union {"nothing"} : AgentWrites(says)
  BY <1>5, AgentsKeepTypes
<1>6. CASE \E a \in Answers : AgentEnds(a) \/ ToolEnds(a) \/ NestedEnds(a)
  BY <1>6, AnswersKeepTypes
<1>7. CASE \E a \in Answers, known \in BOOLEAN :
             ProviderAnswers(a, known) \/ SearchEnds(a, known) \/ FetchEnds(a, known)
  BY <1>7, FetchesKeepTypes
<1>8. CASE \E sub \in {"error", "SUCCESS", "PARTIAL_SUCCESS", "FAILURE"}, met \in SUBSET Gates :
             RoundEnds(sub, met)
  BY <1>8, RoundsKeepTypes
<1>9. CASE EngineRecords \/ EngineRetries \/ PartialAccepted \/ RunFails \/ EngineDies
  BY <1>9, EngineKeepsTypes
<1> QED BY <1>1, <1>2, <1>3, <1>4, <1>5, <1>6, <1>7, <1>8, <1>9 DEF Next

-----------------------------------------------------------------------------
(* The other parts of the invariant, one by one.                           *)
LEMMA PlaceStep == CallTypeOK /\ PlaceFits /\ [Next]_vars => PlaceFits'
<1> SUFFICES ASSUME CallTypeOK, PlaceFits, [Next]_vars PROVE PlaceFits'
  OBVIOUS
<1> USE CallBounds DEF PlaceFits, NodeIsStill, StageIsStill, LoopsAreStill, Returns, GitPlace
<1>0. heads \in [{"project", "branch"} -> 0..MaxVisits] /\ place \in {"project", "branch"}
  BY DEF CallTypeOK
<1>1. CASE MergeStep \/ UNCHANGED vars
  BY <1>1 DEF MergeStep, vars, callVars
<1>2. CASE FanInDies
  BY <1>2 DEF FanInDies
<1>3. CASE EnterCodergen
  BY <1>0, <1>3 DEF EnterCodergen, Visits, Commanding
<1>15. CASE EnterTool
  <2>1. pc' = "calling" /\ kind' = "tool" /\ place' = place /\ heads' = heads /\ before' = heads[place]
    BY <1>15 DEF EnterTool
  <2>2. before' \in Nat /\ before' = heads'[GitPlace']
    BY <1>0, <2>1
  <2> QED BY <2>1, <2>2
<1>4. CASE EnterCall \/ EnterFanIn
  BY <1>4 DEF EnterCall, EnterFanIn, Visits
<1>5. CASE EnterNested
  BY <1>5 DEF EnterNested, Visits
<1>6. CASE EnterManager
  BY <1>6 DEF EnterManager, Visits
<1>7. CASE MergeReturns
  BY <1>7 DEF MergeReturns, Commanding
<1>8. CASE SendPrompt \/ StrayEnds
  BY <1>8 DEF SendPrompt, StrayEnds
<1>9. CASE AgentCommits
  <2>1. heads'[GitPlace] >= heads[GitPlace] /\ kind' = kind /\ place' = place
    BY <1>0, <1>9 DEF AgentCommits
  <2>2. heads[GitPlace] \in Nat /\ before \in Nat /\ heads'[GitPlace] \in Nat
    BY <1>0, <1>9 DEF AgentCommits, CallTypeOK
  <2> QED BY <1>9, <2>1, <2>2 DEF AgentCommits
<1>10. ASSUME NEW says, AgentWrites(says) PROVE PlaceFits'
  BY <1>10 DEF AgentWrites
<1>11. ASSUME NEW a, AgentEnds(a) \/ ToolEnds(a) \/ NestedEnds(a) PROVE PlaceFits'
  BY <1>11 DEF AgentEnds, ToolEnds, NestedEnds
<1>12. ASSUME NEW a, NEW known, ProviderAnswers(a, known) \/ SearchEnds(a, known) \/ FetchEnds(a, known)
       PROVE  PlaceFits'
  BY <1>12 DEF ProviderAnswers, SearchEnds, FetchEnds
<1>13. ASSUME NEW sub, NEW met, RoundEnds(sub, met) PROVE PlaceFits'
  <2>1. pc' = "looping" => round + 1 # MaxRounds
    BY <1>13 DEF RoundEnds, IsLastRound
  <2>2. round < MaxRounds /\ kind = "manager" /\ round' = round + 1 /\ round \in Nat
    BY <1>13 DEF RoundEnds, CallTypeOK
  <2>3. pc' \in {"looping", "returned"}
    BY <1>13 DEF RoundEnds
  <2> QED BY <1>13, <2>1, <2>2, <2>3 DEF RoundEnds
<1>14. CASE EngineRecords \/ EngineRetries \/ PartialAccepted \/ RunFails \/ EngineDies
  <2>1. pc' = "idle" /\ before' = 0 /\ levels' = <<>>
    BY <1>14 DEF EngineRecords, EngineRetries, PartialAccepted, RunFails, EngineDies, StageIsOver
  <2>2. kind' = kind /\ place' = place /\ heads' = heads
    BY <1>14 DEF EngineRecords, EngineRetries, PartialAccepted, RunFails, EngineDies
  <2> QED BY <1>0, <2>1, <2>2
<1> QED BY <1>1, <1>2, <1>3, <1>4, <1>5, <1>6, <1>7, <1>8, <1>9, <1>10, <1>11, <1>12, <1>13, <1>14,
         <1>15 DEF Next

-----------------------------------------------------------------------------
(* What a stage may say, and the agents that may still say it.             *)
Rest == AgentFits /\ StagesTellTheTruth

LEMMA QuietRest == ASSUME pc' \notin {"calling", "returned"} PROVE Rest'
BY DEF Rest, AgentFits, StagesTellTheTruth, SuccessIsEarned, FilesAreOfTheVisit, FailuresSayWhy

LEMMA WaitingRest == ASSUME pc' = "calling", kind' \notin Commanding PROVE Rest'
BY DEF Rest, AgentFits, StagesTellTheTruth, SuccessIsEarned, FilesAreOfTheVisit, FailuresSayWhy

LEMMA StillRest ==
  ASSUME Rest, UNCHANGED <<kind, visit, pc, dir, status, agent, call, outcome, round, gates, phase>>
  PROVE  Rest'
BY DEF Rest, AgentFits, StagesTellTheTruth, SuccessIsEarned, FilesAreOfTheVisit, FailuresSayWhy, Commanded

LEMMA ErrorRest == ASSUME pc' = "returned", outcome' = Error PROVE Rest'
<1>1. ~ outcome'.ok /\ outcome'.text /\ outcome'.keys = {}
  BY DEF Error
<1> QED BY <1>1 DEF Rest, AgentFits, StagesTellTheTruth, SuccessIsEarned, FilesAreOfTheVisit, FailuresSayWhy

(* A handler without an agent of its own returns.                          *)
LEMMA ReturnedRest ==
  ASSUME pc' = "returned", ~ Commanded', Flags(outcome', call'),
         outcome'.verdict = "FAILURE" /\ kind' \notin {"fan_in", "manager"} => outcome'.text,
         outcome'.ok /\ outcome'.verdict = "SUCCESS" /\ kind' \notin Fetching =>
           \/ kind' = "manager" /\ gates' = Gates /\ round' > 0
           \/ kind' = "fan_in" /\ phase' = "merged"
           \/ call'.end = "exit 0"
  PROVE  Rest'
<1>1. FilesAreOfTheVisit' /\ AgentFits'
  BY DEF FilesAreOfTheVisit, AgentFits
<1>2. SuccessIsEarned'
  BY DEF SuccessIsEarned
<1>3. FailuresSayWhy'
  BY DEF FailuresSayWhy, Flags
<1> QED BY <1>1, <1>2, <1>3 DEF Rest, StagesTellTheTruth

LEMMA NoFlagsFlags == ASSUME NEW o, NEW a, NoFlags(o) PROVE Flags(o, a)
BY DEF NoFlags, Flags

LEMMA EntersRest ==
  ASSUME PlaceFits,
         \/ EnterCodergen \/ EnterTool \/ EnterCall \/ EnterFanIn
         \/ EnterNested \/ EnterManager \/ MergeReturns
  PROVE  Rest'
<1> USE DEF NodeIsStill, StageIsStill, LoopsAreStill, Returns
<1> DEFINE plain == Result("FAILURE", TRUE, {})
           conflict == Result("FAILURE", TRUE, {"conflict"})
           done == Result("SUCCESS", TRUE, {})
<1>1. plain.verdict = "FAILURE" /\ plain.keys = {} /\ NoFlags(plain)
  BY PlainFacts
<1>2. conflict.verdict = "FAILURE" /\ conflict.keys = {"conflict"} /\ NoFlags(conflict)
  BY PlainFacts
<1>3. done.verdict = "SUCCESS" /\ done.keys = {} /\ NoFlags(done)
  BY PlainFacts
<1>4. plain.text
  BY PlainText
<1> HIDE DEF plain, conflict, done
<1>5. CASE EnterCodergen \/ EnterFanIn
  <2>1. pc' \in {"command", "merging"}
    BY <1>5 DEF EnterCodergen, EnterFanIn
  <2> QED BY <2>1, QuietRest
<1>6. CASE EnterTool \/ EnterCall
  <2>1. pc' = "calling" /\ kind' \notin Commanding
    BY <1>6 DEF EnterTool, EnterCall, Commanding, Fetching
  <2> QED BY <2>1, WaitingRest
<1>7. CASE EnterNested
  <2>1. kind' = "nested"
    BY <1>7 DEF EnterNested
  <2>2. pc' = "calling" \/ (pc' = "returned" /\ outcome' \in {plain, Error})
    BY <1>7 DEF EnterNested, plain
  <2>3. CASE pc' = "calling"
    BY <2>1, <2>3, WaitingRest DEF Commanding
  <2>4. CASE pc' = "returned" /\ outcome' = plain
    <3>1. ~ Commanded' /\ outcome'.text
      BY <1>4, <2>1, <2>4 DEF Commanded
    <3>2. Flags(outcome', call') /\ outcome'.verdict = "FAILURE"
      BY <1>1, <2>4, NoFlagsFlags
    <3> QED BY <2>4, <3>1, <3>2, ReturnedRest
  <2> QED BY <2>2, <2>3, <2>4, ErrorRest
<1>8. CASE EnterManager
  <2>1. kind' = "manager"
    BY <1>8 DEF EnterManager
  <2>2. pc' = "looping" \/ (pc' = "returned" /\ outcome' \in {plain, Error})
    BY <1>8 DEF EnterManager, plain
  <2>3. CASE pc' = "returned" /\ outcome' = plain
    <3>1. ~ Commanded'
      BY <2>1 DEF Commanded
    <3>2. Flags(outcome', call') /\ outcome'.verdict = "FAILURE"
      BY <1>1, <2>3, NoFlagsFlags
    <3> QED BY <2>1, <2>3, <3>1, <3>2, ReturnedRest
  <2> QED BY <2>2, <2>3, QuietRest, ErrorRest
<1>9. CASE MergeReturns
  <2>1. kind' = "fan_in"
    BY <1>9 DEF MergeReturns, PlaceFits
  <2>2. \/ pc' = "command"
        \/ pc' = "returned" /\ outcome' = Error
        \/ pc' = "returned" /\ outcome' = conflict
        \/ pc' = "returned" /\ outcome' = done /\ phase' = "merged"
    BY <1>9 DEF MergeReturns, conflict, done, forkVars, mergeVars
  <2>3. CASE pc' = "returned" /\ outcome' = conflict
    <3>1. ~ Commanded'
      BY <1>2, <2>1, <2>3 DEF Commanded
    <3>2. Flags(outcome', call') /\ outcome'.verdict = "FAILURE"
      BY <1>2, <2>3, NoFlagsFlags
    <3> QED BY <2>1, <2>3, <3>1, <3>2, ReturnedRest
  <2>4. CASE pc' = "returned" /\ outcome' = done /\ phase' = "merged"
    <3>1. ~ Commanded'
      BY <1>3, <2>1, <2>4 DEF Commanded
    <3>2. Flags(outcome', call') /\ outcome'.verdict = "SUCCESS"
      BY <1>3, <2>4, NoFlagsFlags
    <3> QED BY <2>1, <2>4, <3>1, <3>2, ReturnedRest
  <2> QED BY <2>2, <2>3, <2>4, QuietRest, ErrorRest
<1> QED BY <1>5, <1>6, <1>7, <1>8, <1>9

LEMMA AgentsRest ==
  ASSUME CallTypeOK, PlaceFits, Rest,
         SendPrompt \/ AgentCommits \/ (\E says \in Verdicts \union {"nothing"} : AgentWrites(says)) \/ StrayEnds
  PROVE  Rest'
<1> USE DEF NodeIsStill, StageIsStill, LoopsAreStill, Returns
<1>1. CASE SendPrompt
  <2>1. CASE pc' = "calling"
    <3>1. /\ agent' = visit' /\ status' = NoStatus
          /\ dir' = [f \in Files |-> CASE f = "prompt" -> visit [] f = "repo" -> dir[f] [] OTHER -> 0]
          /\ visit' = visit
      BY <1>1, <2>1 DEF SendPrompt
    <3>2. dir'["prompt"] = visit' /\ dir'["debug"] = 0
      BY <3>1 DEF Files
    <3> QED BY <2>1, <3>1, <3>2 DEF Rest, AgentFits, StagesTellTheTruth, SuccessIsEarned, FilesAreOfTheVisit,
                                    FailuresSayWhy
  <2>2. pc' # "calling" => pc' = "returned" /\ outcome' = Error
    BY <1>1 DEF SendPrompt
  <2> QED BY <2>1, <2>2, ErrorRest
<1>2. CASE AgentCommits
  BY <1>2, StillRest DEF AgentCommits, forkVars, mergeVars
<1>3. ASSUME NEW says \in Verdicts \union {"nothing"}, AgentWrites(says) PROVE Rest'
  <2>1. /\ status'.visit = visit /\ status'.by = "agent" /\ agent # 0
        /\ UNCHANGED <<kind, visit, pc, dir, agent, call, outcome, round, gates, phase>>
    BY <1>3 DEF AgentWrites, forkVars, mergeVars
  <2>2. AgentFits'
    BY <2>1 DEF Rest, AgentFits, Commanded
  <2>3. SuccessIsEarned'
    BY <2>1 DEF Rest, AgentFits, StagesTellTheTruth, SuccessIsEarned, Commanded
  <2>4. FilesAreOfTheVisit' /\ FailuresSayWhy'
    BY <2>1 DEF Rest, StagesTellTheTruth, FilesAreOfTheVisit, FailuresSayWhy, Commanded
  <2> QED BY <2>2, <2>3, <2>4 DEF Rest, StagesTellTheTruth
<1>4. CASE StrayEnds
  <2>1. /\ agent # visit \/ pc = "idle"
        /\ agent' = 0
        /\ UNCHANGED <<kind, visit, pc, dir, status, call, outcome, round, gates, phase>>
    BY <1>4 DEF StrayEnds, forkVars, mergeVars
  <2>2. AgentFits'
    BY <2>1 DEF Rest, AgentFits, Commanded
  <2>3. StagesTellTheTruth'
    BY <2>1 DEF Rest, StagesTellTheTruth, SuccessIsEarned, FilesAreOfTheVisit, FailuresSayWhy, Commanded
  <2> QED BY <2>2, <2>3 DEF Rest
<1> QED BY <1>1, <1>2, <1>3, <1>4

(* The answer of an agent: its exit or its status file speak for this      *)
(* visit, since SendPrompt moved away what earlier ones had left.          *)
LEMMA AgentEndsRest ==
  ASSUME CallTypeOK, PlaceFits, Rest, NEW a \in Answers, AgentEnds(a)
  PROVE  Rest'
<1> USE DEF NodeIsStill, StageIsStill, LoopsAreStill, Returns
<1> DEFINE o == AgentOutcome(a)
<1>1. o \in Outcomes /\ Earned(o, a, status) /\ NoFlags(o)
  BY AgentOutcomeFacts
<1>2. o.ok => a.end # "unrunnable"
  BY AgentOutcomeFacts
<1>3. kind = "codergen" /\ o.verdict = "FAILURE" => o.text
  BY AgentOutcomeFacts
<1>4. kind # "codergen" /\ o.ok => "merged" \in o.keys
  BY AgentOutcomeFacts
<1>5. outcome' = o /\ pc' = "returned" /\ call' = a /\ kind' = kind /\ visit' = visit /\ status' = status
  BY DEF AgentEnds, AgentOutcome
<1> HIDE DEF o
<1>6. /\ pc = "calling" /\ kind \in Commanding /\ agent = visit
      /\ dir["prompt"] = visit /\ dir["debug"] = 0
      /\ status = NoStatus \/ (status.visit = visit /\ status.by = "agent")
  BY DEF AgentEnds, Rest, AgentFits
<1>7. agent' = 0
  BY <1>6 DEF AgentEnds
<1>8. status.visit # 0 => status.visit = visit /\ status.by = "agent"
  BY <1>6 DEF NoStatus
<1>9. AgentFits'
  BY <1>5, <1>7 DEF AgentFits
<1>10. SuccessIsEarned'
  <2>1. outcome'.ok => Commanded'
    BY <1>4, <1>5, <1>6 DEF Commanded, Commanding
  <2> QED BY <1>1, <1>5, <1>8, <2>1 DEF SuccessIsEarned, Earned
<1>11. FilesAreOfTheVisit'
  <2>1. SUFFICES ASSUME o.ok
                 PROVE  /\ dir'["prompt"] = visit /\ dir'["response"] = visit
                        /\ dir'["debug"] \in {0, visit} /\ status.visit \in {0, visit}
    BY <1>5 DEF FilesAreOfTheVisit
  <2>2. dir' = [dir EXCEPT !["response"] = visit, !["debug"] = IF a.err THEN visit ELSE @]
    BY <1>2, <2>1 DEF AgentEnds
  <2>3. dir \in [Files -> 0..MaxVisits]
    BY DEF CallTypeOK
  <2> QED BY <1>6, <1>8, <2>2, <2>3 DEF Files
<1>12. FailuresSayWhy'
  <2>1. kind = "codergen" \/ kind = "fan_in"
    BY <1>6 DEF Commanding
  <2> QED BY <1>1, <1>3, <1>5, <2>1 DEF FailuresSayWhy, NoFlags
<1> QED BY <1>9, <1>10, <1>11, <1>12 DEF Rest, StagesTellTheTruth

LEMMA AnswersRest ==
  ASSUME CallTypeOK, PlaceFits, NEW a \in Answers, ToolEnds(a) \/ NestedEnds(a)
  PROVE  Rest'
<1> USE DEF NodeIsStill, StageIsStill, LoopsAreStill, Returns
<1>1. CASE ToolEnds(a)
  <2> DEFINE o == WithText(WithGitState(ToolOutcome(a)))
  <2>1. outcome' = o /\ pc' = "returned" /\ kind' = "tool" /\ call' = a
    BY <1>1 DEF ToolEnds
  <2>2. NoFlags(o)
    BY ToolOutcomeFacts
  <2>3. o.ok /\ o.verdict = "SUCCESS" => a.end = "exit 0"
    BY ToolOutcomeFacts
  <2>4. o.verdict = "FAILURE" => o.text
    BY ToolOutcomeFacts
  <2> HIDE DEF o
  <2>5. ~ Commanded' /\ Flags(outcome', call')
    BY <2>1, <2>2, NoFlagsFlags DEF Commanded
  <2> QED BY <2>1, <2>3, <2>4, <2>5, ReturnedRest
<1>2. CASE NestedEnds(a)
  <2> DEFINE o == NestedOutcome(a)
  <2>1. kind' = "nested" /\ call' = a
    BY <1>2 DEF NestedEnds
  <2>2. pc' = "calling" \/ (pc' = "returned" /\ outcome' = o)
    BY <1>2 DEF NestedEnds
  <2>3. Flags(o, a)
    BY NestedFacts
  <2>4. o.verdict = "SUCCESS" => a.end = "exit 0"
    BY NestedFacts
  <2>5. o.verdict = "FAILURE" => o.text
    BY NestedFacts
  <2> HIDE DEF o
  <2>6. CASE pc' = "calling"
    BY <2>1, <2>6, WaitingRest DEF Commanding
  <2>7. CASE pc' = "returned" /\ outcome' = o
    <3>1. ~ Commanded'
      BY <2>1 DEF Commanded
    <3> QED BY <2>1, <2>3, <2>4, <2>5, <2>7, <3>1, ReturnedRest
  <2> QED BY <2>2, <2>6, <2>7
<1> QED BY <1>1, <1>2

LEMMA FetchesRest ==
  ASSUME CallTypeOK, NEW a \in Answers, NEW known \in BOOLEAN,
         ProviderAnswers(a, known) \/ SearchEnds(a, known) \/ FetchEnds(a, known)
  PROVE  Rest'
<1> USE DEF NodeIsStill, StageIsStill, LoopsAreStill, Returns
<1>1. CASE ProviderAnswers(a, known)
  <2> DEFINE o == WithText(LLMKitOutcome(a, known))
  <2>1. outcome' = o /\ pc' = "returned" /\ kind' = "llmkit" /\ call' = a
    BY <1>1 DEF ProviderAnswers
  <2>2. NoFlags(o)
    BY ProviderOutcomeFacts
  <2>3. o.ok /\ o.verdict = "SUCCESS" => a.end = "exit 0"
    BY ProviderOutcomeFacts
  <2>4. o.verdict = "FAILURE" => o.text
    BY ProviderOutcomeFacts
  <2> HIDE DEF o
  <2>5. ~ Commanded' /\ Flags(outcome', call')
    BY <2>1, <2>2, NoFlagsFlags DEF Commanded
  <2> QED BY <2>1, <2>3, <2>4, <2>5, ReturnedRest
<1>2. CASE SearchEnds(a, known) \/ FetchEnds(a, known)
  <2>1. PICK o \in {WebSearchOutcome(a, known), DocFetchOutcome(a, known)} :
          outcome' = o /\ pc' = "returned"
    BY <1>2 DEF SearchEnds, FetchEnds
  <2>2. kind' \in Fetching
    BY <1>2 DEF SearchEnds, FetchEnds, Fetching
  <2>3. o.verdict = "SUCCESS" /\ NoFlags(o)
    BY FetchOutcomeFacts
  <2>4. ~ Commanded' /\ Flags(outcome', call')
    BY <2>1, <2>2, <2>3, NoFlagsFlags DEF Commanded, Fetching
  <2> QED BY <2>1, <2>2, <2>3, <2>4, ReturnedRest
<1> QED BY <1>1, <1>2

LEMMA RoundsRest ==
  ASSUME CallTypeOK, PlaceFits, NEW sub, NEW met, RoundEnds(sub, met)
  PROVE  Rest'
<1> DEFINE o == RoundOutcome(sub, met)
<1>1. kind' = "manager" /\ gates' = met /\ round' > 0
  BY DEF RoundEnds, PlaceFits, NodeIsStill, CallTypeOK
<1>2. pc' = "looping" \/ (pc' = "returned" /\ outcome' = o)
  BY DEF RoundEnds, Returns
<1>3. NoFlags(o) /\ (o.verdict = "SUCCESS" => met = Gates)
  BY RoundFacts
<1> HIDE DEF o
<1>4. CASE pc' = "returned" /\ outcome' = o
  <2>1. ~ Commanded' /\ Flags(outcome', call')
    BY <1>1, <1>3, <1>4, NoFlagsFlags DEF Commanded
  <2> QED BY <1>1, <1>3, <1>4, <2>1, ReturnedRest
<1> QED BY <1>2, <1>4, QuietRest

LEMMA RestStep == CallTypeOK /\ PlaceFits /\ Rest /\ [Next]_vars => Rest'
<1> SUFFICES ASSUME CallTypeOK, PlaceFits, Rest, [Next]_vars PROVE Rest'
  OBVIOUS
<1>1. CASE MergeStep
  <2>1. CASE pc = "idle" \/ pc = "merging"
    BY <1>1, <2>1, QuietRest DEF MergeStep, callVars
  <2> QED BY <1>1, <2>1 DEF MergeStep
<1>2. CASE FanInDies
  BY <1>2, QuietRest DEF FanInDies
<1>3. CASE UNCHANGED vars
  BY <1>3, StillRest DEF vars, callVars, forkVars, mergeVars
<1>4. CASE \/ EnterCodergen \/ EnterTool \/ EnterCall \/ EnterFanIn
           \/ EnterNested \/ EnterManager \/ MergeReturns
  BY <1>4, EntersRest
<1>5. CASE \/ SendPrompt \/ AgentCommits \/ StrayEnds
           \/ \E says \in Verdicts \union {"nothing"} : AgentWrites(says)
  BY <1>5, AgentsRest
<1>6. CASE \E a \in Answers : AgentEnds(a) \/ ToolEnds(a) \/ NestedEnds(a)
  BY <1>6, AgentEndsRest, AnswersRest
<1>7. CASE \E a \in Answers, known \in BOOLEAN :
             ProviderAnswers(a, known) \/ SearchEnds(a, known) \/ FetchEnds(a, known)
  BY <1>7, FetchesRest
<1>8. CASE \E sub \in {"error", "SUCCESS", "PARTIAL_SUCCESS", "FAILURE"}, met \in SUBSET Gates :
             RoundEnds(sub, met)
  BY <1>8, RoundsRest
<1>9. CASE EngineRecords \/ EngineRetries \/ PartialAccepted \/ RunFails \/ EngineDies
  BY <1>9, QuietRest DEF EngineRecords, EngineRetries, PartialAccepted, RunFails, EngineDies, StageIsOver
<1> QED BY <1>1, <1>2, <1>3, <1>4, <1>5, <1>6, <1>7, <1>8, <1>9 DEF Next

-----------------------------------------------------------------------------
LEMMA StageInvInit == Init => MergeInv /\ StageInv
<1> SUFFICES ASSUME Init PROVE MergeInv /\ StageInv
  OBVIOUS
<1>1. MergeInv
  BY MergeInvInit DEF Init
<1>2. Error \in Outcomes /\ NoStatus \in Statuses
  BY CallBounds, ErrorType DEF NoStatus, Statuses
<1>3. <<>> \in Seq(Contexts) /\ Len(<<>>) = 0
  BY EmptySeq
<1>4. kind \in Kinds /\ isRepo \in BOOLEAN /\ place \in {"project", "branch"}
  BY DEF Init, CallInit
<1>5. CallTypeOK
  BY <1>2, <1>3, <1>4, CallBounds DEF Init, CallInit, CallTypeOK
<1>6. PlaceFits
  BY DEF Init, CallInit, PlaceFits, GitPlace
<1>7. Rest
  BY DEF Init, CallInit, Rest, AgentFits, StagesTellTheTruth, SuccessIsEarned, FilesAreOfTheVisit,
         FailuresSayWhy
<1> QED BY <1>1, <1>5, <1>6, <1>7 DEF StageInv, MergeInv, TypeOK, Rest

LEMMA StageInvStep == MergeInv /\ StageInv /\ [Next]_vars => (MergeInv /\ StageInv)'
<1> SUFFICES ASSUME MergeInv, StageInv, [Next]_vars PROVE MergeInv' /\ StageInv'
  OBVIOUS
<1>1. CallTypeOK /\ PlaceFits /\ Rest
  BY DEF StageInv, TypeOK, Rest
<1>2. MergeInv'
  BY StagesMerge, MergeInvStep
<1>3. CallTypeOK' /\ PlaceFits' /\ Rest'
  BY <1>1, CallTypeStep, PlaceStep, RestStep
<1> QED BY <1>2, <1>3 DEF StageInv, TypeOK, MergeInv, Rest

LEMMA StageInvariant == Spec => [](MergeInv /\ StageInv)
BY StageInvInit, StageInvStep, PTL DEF Spec

(* Type correctness of the stages, for any limits, gates and branches: the *)
(* rounds of a manager and the attempts of a stage keep to their limits.   *)
THEOREM TypeCorrect == Spec => []TypeOK
<1>1. StageInv => TypeOK
  BY DEF StageInv
<1> QED BY <1>1, StageInvariant, PTL

(* A stage's success, files and words are those of this visit, whatever    *)
(* earlier visits, retries, stray agents and dead engines have left: it    *)
(* succeeds by an exit with 0, by a status file of this visit, by its      *)
(* merge or by its gates; its directory holds what its agent has written;  *)
(* and when it fails, it says why.                                         *)
THEOREM StagesAreHonest == Spec => []StagesTellTheTruth
<1>1. StageInv => StagesTellTheTruth
  BY DEF StageInv
<1> QED BY <1>1, StageInvariant, PTL
-----------------------------------------------------------------------------
(* The agents of stages and the wait for their limits: AgentCommand.       *)
Command == INSTANCE AgentCommand

(* The larger, and the smaller, of two numbers.                            *)
LEMMA Larger ==
  ASSUME NEW n \in Int
  PROVE  /\ Command!Max({1000, n}) \in {1000, n}
         /\ Command!Max({1000, n}) >= 1000 /\ Command!Max({1000, n}) >= n
<1>1. \E x \in {1000, n} : \A y \in {1000, n} : x >= y
  OBVIOUS
<1> QED BY <1>1 DEF Command!Max

LEMMA Smaller ==
  ASSUME NEW n \in Int, NEW m \in Int
  PROVE  Command!Min({n, m}) = IF n <= m THEN n ELSE m
<1>1. \E x \in {n, m} : \A y \in {n, m} : x <= y
  OBVIOUS
<1> QED BY <1>1 DEF Command!Min

(* The times that an agent may name.                                       *)
LEMMA TimesAreNamed ==
  /\ DOMAIN Command!Relative = {"zero", "five", "day"}
  /\ Command!Relative \in [{"zero", "five", "day"} -> Nat]
  /\ DOMAIN Command!Dates = {"yesterday", "tomorrow", "someday"}
  /\ Command!Dates \in [{"yesterday", "tomorrow", "someday"} -> Int]
  /\ DOMAIN Command!TimesOfDay = {"morning", "evening"}
  /\ Command!TimesOfDay \in [{"morning", "evening"} -> Int]
BY DEF Command!Relative, Command!Dates, Command!TimesOfDay

(* Until a time that is named, a day at most, and at least a second.       *)
LEMMA Waits ==
  ASSUME NEW t, Command!IsClock(t)
  PROVE  /\ Command!Until(t) \in Int /\ Command!Until(t) >= 1000
         /\ Command!Until(t) >= 1000 * Command!Min({Command!Target(t), Command!Day})
<1>1. Command!Day = 86400
  BY DEF Command!Day
<1>2. Command!Target(t) \in Int
  BY <1>1, TimesAreNamed DEF Command!IsClock, Command!Target
<1>3. Command!Min({Command!Target(t), Command!Day})
        = IF Command!Target(t) <= Command!Day THEN Command!Target(t) ELSE Command!Day
  BY <1>1, <1>2, Smaller
<1> QED BY <1>1, <1>2, <1>3 DEF Command!Until

(* What is waited for a limited agent, whatever it has said.               *)
WaitsLong(span, moment) ==
  /\ Command!WaitFor(span, moment) \in Int /\ Command!WaitFor(span, moment) >= 1000
  /\ span \in DOMAIN Command!Relative =>
       Command!WaitFor(span, moment) >= Command!Relative[span] * 1000
  /\ span = "nothing" /\ Command!IsClock(moment) =>
       Command!WaitFor(span, moment) >= 1000 * Command!Min({Command!Target(moment), Command!Day})

LEMMA WaitsAsNamed == ASSUME NEW span, NEW moment PROVE WaitsLong(span, moment)
<1> USE DEF WaitsLong
<1>1. CASE span \in DOMAIN Command!Relative
  <2> DEFINE n == Command!Relative[span] * 1000 + 500
  <2>1. Command!Relative[span] \in Nat /\ n \in Int /\ span # "nothing"
    BY <1>1, TimesAreNamed
  <2>2. Command!WaitFor(span, moment) = Command!Max({1000, n})
    BY <1>1 DEF Command!WaitFor
  <2>3. /\ Command!Max({1000, n}) \in {1000, n}
        /\ Command!Max({1000, n}) >= 1000 /\ Command!Max({1000, n}) >= n
    <3> HIDE DEF n
    <3> QED BY <2>1, Larger
  <2> QED BY <2>1, <2>2, <2>3
<1>2. CASE span \notin DOMAIN Command!Relative /\ Command!IsClock(moment)
  BY <1>2, Waits DEF Command!WaitFor
<1>3. CASE span \notin DOMAIN Command!Relative /\ ~Command!IsClock(moment)
  BY <1>3 DEF Command!WaitFor
<1> QED BY <1>1, <1>2, <1>3

(* An agent of a stage that meets a rate limit, for any text: it is left   *)
(* alone for a second at least and until the time it has named, if that is *)
(* within a day, and one that meets none is not waited for                 *)
(* (detect_rate_limit of cli_backend.cpp).                                 *)
THEOREM LimitsHeard ==
  ASSUME NEW message
  PROVE  Command!LimitsAreWaitedFor(message)
<1> DEFINE span == Command!Behind(message, "try again in ")
           moment == Command!Behind(message, "try again at ")
<1>1. Command!WaitMs(message) =
        IF Command!IsLimited(message) THEN Command!WaitFor(span, moment) ELSE 0
  BY DEF Command!WaitMs
<1>2. WaitsLong(span, moment)
  <2> HIDE DEF span, moment
  <2> QED BY WaitsAsNamed
<1>3. Command!LimitsAreWaitedFor(message) <=>
        /\ Command!IsLimited(message) <=> Command!WaitMs(message) > 0
        /\ Command!IsLimited(message) => Command!WaitMs(message) >= 1000
        /\ Command!IsLimited(message) /\ span \in DOMAIN Command!Relative =>
             Command!WaitMs(message) >= Command!Relative[span] * 1000
        /\ Command!IsLimited(message) /\ span = "nothing" /\ Command!IsClock(moment) =>
             Command!WaitMs(message) >= 1000 * Command!Min({Command!Target(moment), Command!Day})
  BY DEF Command!LimitsAreWaitedFor
<1> HIDE DEF span, moment
<1> QED BY <1>1, <1>2, <1>3 DEF WaitsLong
=============================================================================
