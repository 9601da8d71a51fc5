------------------------ MODULE ParallelHandlerProofs ------------------------
(***************************************************************************)
(* Theorems about ParallelHandler, for every graph, every set of outcomes  *)
(* and any number of resumes that satisfy ForkAssumption, and for graphs   *)
(* whose forks are nested as NestingAssumption says.                       *)
(***************************************************************************)
EXTENDS ParallelHandler, WellFoundedInduction, FiniteSetTheorems, TLAPS

(* About edge selection, for any edges, outcome and context.               *)

(* The least-number principle, as well-foundedness of a set of pairs: the  *)
(* theorem of the library is stated with an operator.                      *)
Less == {p \in Nat \X Nat : p[1] < p[2]}

LEMMA LessIsWellFounded == IsWellFoundedOn(Less, Nat)
BY NatLessThanWellFounded DEF OpToRel, Less

LEMMA LeastElement ==
  ASSUME NEW S \in SUBSET Nat, S # {}
  PROVE  \E x \in S : \A y \in S : x <= y
<1>1. PICK x \in S : \A y \in S : <<y, x>> \notin Less
  BY LessIsWellFounded, WFMin
<1>2. \A y \in S : ~ (y < x)
  BY <1>1 DEF Less
<1> QED BY <1>2

LEMMA MinIsMember ==
  ASSUME NEW S \in SUBSET Nat, S # {}
  PROVE  Min(S) \in S
BY LeastElement DEF Min

(* Some position of a non-empty set leads to the first node in the order   *)
(* of the ids: the lexical tiebreak always yields an edge.                 *)
LEMMA TiebreakYields ==
  ASSUME NEW edges, NEW rank, NEW F \in SUBSET DOMAIN edges, F # {},
         \A i \in DOMAIN edges : rank[edges[i].to] \in Nat
  PROVE  LexicallyFirst(edges, F, rank) # {}
<1> DEFINE ranks == {rank[edges[i].to] : i \in F}
<1>1. ranks \in SUBSET Nat /\ ranks # {}
  OBVIOUS
<1>2. PICK x \in ranks : \A y \in ranks : x <= y
  BY <1>1, LeastElement
<1> QED BY <1>2 DEF LexicallyFirst

(* Edge selection fails, or yields an edge that passed the condition       *)
(* filter: EdgeSelector::select never returns an edge it filtered out.     *)
LEMMA SelectYieldsFiltered ==
  ASSUME NEW edges, NEW rank, NEW o, NEW cx,
         DOMAIN edges \subseteq Nat \ {0},
         \A i \in DOMAIN edges : rank[edges[i].to] \in Nat
  PROVE  \/ Select(edges, o, cx, rank) = 0
         \/ Select(edges, o, cx, rank) \in Filter(edges, o, cx)
<1> DEFINE F == Filter(edges, o, cx)
           byLabel == LabelMatches(edges, F, o)
           bySuggestion == Suggested(edges, F, o)
           top == Heaviest(edges, F)
           first == LexicallyFirst(edges, F, rank)
<1>1. F \in SUBSET DOMAIN edges
  BY DEF Filter
<1>2. F \in SUBSET Nat
  BY <1>1
<1>3. CASE F = {}
  BY <1>3 DEF Select
<1>4. CASE F # {}
  <2>1. Min(F) \in F
    BY <1>2, <1>4, MinIsMember
  <2>2. byLabel # {} => Min(byLabel) \in F
    <3>1. byLabel \in SUBSET F
      BY DEF LabelMatches
    <3> QED BY <3>1, <1>2, MinIsMember
  <2>3. bySuggestion # {} => Min(bySuggestion) \in F
    <3>1. bySuggestion \in SUBSET F
      BY DEF Suggested
    <3> QED BY <3>1, <1>2, MinIsMember
  <2>4. Cardinality(top) = 1 => Min(top) \in F
    <3>1. top \in SUBSET F
      BY DEF Heaviest
    <3>2. Cardinality(top) = 1 => top # {}
      BY FS_EmptySet
    <3> QED BY <3>1, <3>2, <1>2, MinIsMember
  <2>5. Min(first) \in F
    <3>1. first \in SUBSET F
      BY DEF LexicallyFirst
    <3>2. first # {}
      BY <1>1, <1>4, TiebreakYields
    <3> QED BY <3>1, <3>2, <1>2, MinIsMember
  <2>6. CASE Cardinality(F) = 1
    BY <1>4, <2>1, <2>6 DEF Select
  <2>7. CASE Cardinality(F) # 1
    <3>1. Select(edges, o, cx, rank) =
            Min(IF byLabel # {} THEN byLabel
                ELSE IF bySuggestion # {} THEN bySuggestion
                ELSE IF Cardinality(top) = 1 THEN top ELSE first)
      BY <1>4, <2>7 DEF Select
    <3> QED BY <3>1, <2>2, <2>3, <2>4, <2>5
  <2> QED BY <2>6, <2>7
<1> QED BY <1>3, <1>4

-----------------------------------------------------------------------------
States == {"idle", "head", "executing", "forked", "done", "ended", "crashed"}
Lasts == Statuses \union {"ERROR", "NOT_STARTED"}
Maps == [BranchStarts -> Statuses \union {""}]
Saved == [cur : Nodes, completed : SUBSET Nodes, status : Maps]

LEMMA ForkOfBranch ==
  ASSUME NEW f \in Parallels, NEW b \in Branches(f)
  PROVE  b \in BranchStarts /\ ForkOf[b] = f
<1>1. b \in BranchStarts
  BY DEF BranchStarts
<1>2. \A g \in Parallels : b \in Branches(g) => g = f
  BY ForkAssumption
<1> QED BY <1>1, <1>2 DEF ForkOf

LEMMA ForkOfType ==
  ASSUME NEW b \in BranchStarts
  PROVE  ForkOf[b] \in Parallels /\ b \in Branches(ForkOf[b])
BY DEF ForkOf, BranchStarts

(* The walkers, and the engine's among them.                               *)
LEMMA Names ==
  /\ BranchStarts \subseteq Nodes /\ Parallels \subseteq Nodes
  /\ Start \in Walkers /\ Start \notin BranchStarts /\ Start \in Nodes /\ Exit \in Nodes
  /\ BranchStarts \subseteq Walkers /\ Walkers \subseteq Nodes
  /\ \A w \in Walkers : w # Start => w \in BranchStarts
  /\ Exit \notin Parallels
  /\ \A f \in Parallels : Branches(f) \subseteq BranchStarts
<1>1. Parallels \subseteq Nodes
  BY DEF Parallels
<1>2. \A f \in Parallels : Branches(f) \subseteq Nodes
  BY <1>1, ForkAssumption DEF Branches, Successors
<1>3. BranchStarts \subseteq Nodes
  BY <1>2 DEF BranchStarts
<1>4. Exit \notin Parallels
  <2>1. Branches(Exit) = {}
    BY ForkAssumption DEF Branches
  <2> QED BY <2>1, ForkAssumption
<1> QED BY <1>1, <1>3, <1>4, ForkAssumption DEF Walkers, BranchStarts

LEMMA FanInType ==
  ASSUME NEW f \in Parallels
  PROVE  FanInOf[f] \in Nodes \union {NoNode}
BY DEF FanInOf, NearestFanIn

(* What follows a node is a target of one of its edges, or nothing.        *)
LEMMA TargetType ==
  ASSUME NEW n \in Nodes, NEW o
  PROVE  /\ Target(n, o) \in Successors(n) \union {NoNode}
         /\ Successors(n) \subseteq Nodes
<1>1. DOMAIN Out[n] \subseteq Nat \ {0} /\ Successors(n) \subseteq Nodes
  BY ForkAssumption
<1>2. \A i \in DOMAIN Out[n] : Out[n][i].to \in Successors(n)
  BY DEF Successors
<1>3. \A i \in DOMAIN Out[n] : Rank[Out[n][i].to] \in Nat
  BY <1>1, <1>2, ForkAssumption
<1>4. \/ Select(Out[n], o, <<>>, Rank) = 0
      \/ Select(Out[n], o, <<>>, Rank) \in DOMAIN Out[n]
  BY <1>1, <1>3, SelectYieldsFiltered DEF Filter
<1> QED BY <1>1, <1>2, <1>4 DEF Target, SelectTo

(* A branch stays among its nodes until it stops.                          *)
LEMMA RegionClosed ==
  ASSUME NEW b \in BranchStarts, NEW n \in Region[b], n # EndOf[b]
  PROVE  n \in Nodes /\ Successors(n) \subseteq Region[b] \union {EndOf[b]}
<1> DEFINE Hull == {m \in Nodes : \A S \in SUBSET Nodes : Closed(b, S) => m \in S}
<1>1. Region[b] = {b} \union (Hull \ {EndOf[b]})
  BY DEF Region
<1>2. n \in Hull
  BY <1>1, Names DEF Closed
<1>3. Successors(n) \subseteq Nodes
  BY <1>2, ForkAssumption
<1>4. \A S \in SUBSET Nodes : Closed(b, S) => Successors(n) \subseteq S
  BY <1>2 DEF Closed
<1>5. Successors(n) \subseteq Hull
  BY <1>3, <1>4
<1> QED BY <1>1, <1>2, <1>5

-----------------------------------------------------------------------------
(* Types.                                                                  *)
LEMMA Fields ==
  ASSUME NEW n, NEW done, NEW st
  PROVE  /\ Snapshot(n, done, st).completed = done /\ Snapshot(n, done, st).status = st
         /\ n \in Nodes /\ done \in SUBSET Nodes /\ st \in Maps => Snapshot(n, done, st) \in Saved
BY DEF Snapshot, Saved

LEMMA ResultType ==
  ASSUME TypeOK, NEW b \in BranchStarts
  PROVE  ResultOf(b) \in Lasts
<1>1. last[b] \in Lasts
  BY Names DEF TypeOK, Lasts
<1> QED BY <1>1 DEF ResultOf, Lasts, Statuses, Completions

LEMMA MergedType ==
  ASSUME TypeOK, NEW w \in Walkers
  PROVE  Merged(w) \in Maps /\ status[w] \in Maps
<1>1. status[w] \in Maps
  BY DEF TypeOK, Maps
<1>2. \A b \in BranchStarts : ResultOf(b) \in Lasts
  BY ResultType
<1> QED BY <1>1, <1>2 DEF Merged, Maps, Lasts, Statuses

LEMMA InitTypes == Init => TypeOK
<1> SUFFICES ASSUME Init PROVE TypeOK
  OBVIOUS
<1>1. NoStatus \in Maps /\ NoAttempts \in [Nodes -> Nat]
  BY DEF NoStatus, Maps, NoAttempts
<1>2. at \in [Walkers -> Nodes] /\ attempts \in [Walkers -> [Nodes -> Nat]]
  BY <1>1, Names DEF Init
<1>3. status \in [Walkers -> Maps]
  BY <1>1 DEF Init
<1>4. thread \in [Walkers -> States] /\ last \in [Walkers -> Lasts]
  BY DEF Init, States, Lasts, Statuses, Completions
<1>5. 0 \in 0..MaxResumes
  BY ForkAssumption
<1> QED BY <1>2, <1>3, <1>4, <1>5 DEF Init, TypeOK, States, Lasts, Maps

(* The outcomes a loop handles.                                            *)
Handled == Statuses \union {"RETRY", "ERROR"}

LEMMA RetryTypes ==
  ASSUME TypeOK, NEW w \in Walkers, NEW o, RetryStage(w, o)
  PROVE  TypeOK'
<1>1. attempts' \in [Walkers -> [Nodes -> Nat]]
  <2>1. at[w] \in Nodes /\ attempts[w] \in [Nodes -> Nat]
    BY DEF TypeOK
  <2>2. [attempts[w] EXCEPT ![at[w]] = @ + 1] \in [Nodes -> Nat]
    BY <2>1
  <2>3. attempts' = [attempts EXCEPT ![w] = [attempts[w] EXCEPT ![at[w]] = @ + 1]]
    BY DEF RetryStage, TypeOK
  <2> QED BY <2>2, <2>3 DEF TypeOK
<1>2. thread' \in [Walkers -> States]
  BY DEF TypeOK, RetryStage, Set, States
<1> QED BY <1>1, <1>2 DEF TypeOK, RetryStage, run, States

LEMMA AbortTypes ==
  ASSUME TypeOK, NEW o, AbortRun(o)
  PROVE  TypeOK'
<1>1. thread' \in [Walkers -> States]
  BY DEF TypeOK, AbortRun, EndRun, Set, States
<1> QED BY <1>1 DEF TypeOK, AbortRun, EndRun, walk, States

LEMMA SaveTypes ==
  ASSUME TypeOK, NEW o, NEW st \in Maps, at[Start] \in Nodes,
         FailRun(o, st) \/ CompleteStage(o, st)
  PROVE  TypeOK'
<1>1. status' \in [Walkers -> Maps]
  BY Names DEF TypeOK, FailRun, CompleteStage, Set, Maps
<1>2. kept' \subseteq BranchStarts
  <2>1. at[Start] \in Parallels => Branches(at[Start]) \subseteq BranchStarts
    BY Names
  <2> QED BY <2>1 DEF TypeOK, FailRun, CompleteStage, Keeping
<1>3. thread' \in [Walkers -> States] /\ result' \in {"none", "ok", "failed"}
  <2>1. thread \in [Walkers -> States] /\ result \in {"none", "ok", "failed"}
    BY DEF TypeOK, States
  <2>2. /\ \E s \in {"head", "ended"} : thread' = [thread EXCEPT ![Start] = s]
        /\ result' = result \/ result' = "failed"
    BY DEF FailRun, CompleteStage, EndRun, Set
  <2>3. {"head", "ended"} \subseteq States
    BY DEF States
  <2> QED BY <2>1, <2>2, <2>3
<1>4. completed' \in SUBSET Nodes /\ checkpoint' \in Saved
  <2>1. completed' \in SUBSET Nodes /\ completed \in SUBSET Nodes
    BY DEF TypeOK, FailRun, CompleteStage
  <2>2. CASE FailRun(o, st)
    BY <2>1, <2>2, Fields DEF FailRun, FailureSaved
  <2>3. CASE CompleteStage(o, st)
    BY <2>1, <2>3, Fields DEF CompleteStage
  <2> QED BY <2>1, <2>2, <2>3
<1>5. at' \in [Walkers -> Nodes]
  <2>1. Following(o) \in Nodes \union {NoNode}
    BY FanInType, TargetType DEF Following
  <2> QED BY <2>1 DEF TypeOK, FailRun, CompleteStage, Set
<1> QED BY <1>1, <1>2, <1>3, <1>4, <1>5
        DEF TypeOK, FailRun, CompleteStage, States, Maps, Saved, Statuses, Completions

LEMMA BranchTypes ==
  ASSUME TypeOK, NEW w \in Walkers, NEW o, NEW st \in Maps,
         FailBranch(w, o) \/ AdvanceBranch(w, o, st)
  PROVE  TypeOK'
<1>1. thread' \in [Walkers -> States]
  BY DEF TypeOK, FailBranch, AdvanceBranch, Set, States
<1>2. last' \in [Walkers -> Lasts]
  BY DEF TypeOK, FailBranch, AdvanceBranch, Set, Lasts, Statuses
<1>3. status' \in [Walkers -> Maps]
  BY DEF TypeOK, FailBranch, AdvanceBranch, Set, Maps
<1>4. at' \in [Walkers -> Nodes] /\ completed' \subseteq Nodes
  <2>1. at[w] \in Nodes
    BY DEF TypeOK
  <2>2. Target(at[w], o) \in Nodes \union {NoNode}
    BY <2>1, TargetType
  <2>3. at \in [Walkers -> Nodes] /\ completed \subseteq Nodes
    BY DEF TypeOK
  <2>4. CASE FailBranch(w, o)
    BY <2>3, <2>4 DEF FailBranch, run
  <2>5. CASE AdvanceBranch(w, o, st)
    BY <2>1, <2>2, <2>3, <2>5 DEF AdvanceBranch, Set
  <2> QED BY <2>4, <2>5
<1> QED BY <1>1, <1>2, <1>3, <1>4
        DEF TypeOK, FailBranch, AdvanceBranch, run, States, Lasts, Maps

LEMMA HandleTypes ==
  ASSUME TypeOK, NEW w \in Walkers, NEW o, NEW st \in Maps, Handle(w, o, st)
  PROVE  TypeOK'
<1>1. at[Start] \in Nodes
  BY Names DEF TypeOK
<1> QED BY <1>1, RetryTypes, AbortTypes, SaveTypes, BranchTypes DEF Handle

LEMMA ForkTypes ==
  ASSUME TypeOK, NEW w \in Walkers, Fork(w)
  PROVE  TypeOK'
<1>1. PICK bad \in SUBSET (ToRun(w) \intersect Worktrees) : Fork(w)!2!(bad)
  BY DEF Fork
<1> DEFINE go == ToRun(w) \ bad
<1>2. status[w] \in Maps /\ NoAttempts \in [Nodes -> Nat]
  BY MergedType DEF NoAttempts
<1>3. thread' \in [Walkers -> States] /\ at' \in [Walkers -> Nodes]
  BY <1>1, Names DEF TypeOK, States
<1>4. last' \in [Walkers -> Lasts]
  BY <1>1 DEF TypeOK, Lasts, Statuses, Completions
<1>5. status' \in [Walkers -> Maps] /\ attempts' \in [Walkers -> [Nodes -> Nat]]
  BY <1>1, <1>2 DEF TypeOK, Maps
<1> QED BY <1>3, <1>4, <1>5 DEF TypeOK, Fork, run, States, Lasts, Maps

(* What an action of a walker does is one of these.                        *)
LEMMA WalkSteps ==
  ASSUME TypeOK, NEW w \in Walkers, Walk(w)
  PROVE  \/ BeginStage(w) \/ EndBranch(w) \/ Fork(w)
         \/ /\ thread[w] = "executing" /\ at[w] \notin Parallels
            /\ \E o \in Outcomes[at[w]] : Handle(w, o, status[w])
         \/ /\ thread[w] = "executing"
            /\ Handle(w, [Succeeded EXCEPT !.status = "ERROR"], status[w])
         \/ /\ thread[w] = "forked" /\ Joined(w)
            /\ Handle(w, [Succeeded EXCEPT !.status = JoinStatus(at[w])], Merged(w))
BY DEF Walk, StageReturns, ForkFails, Join

LEMMA NextTypes ==
  ASSUME TypeOK, [Next]_vars
  PROVE  TypeOK'
<1>0. Start \in Walkers /\ Exit \in Nodes /\ Walkers \subseteq Nodes
  BY Names
<1>1. CASE StartRun
  BY <1>0, <1>1 DEF StartRun, TypeOK, Set, walk, run
<1>2. CASE Resume
  <2>1. checkpoint \in Saved
    BY <1>2 DEF Resume, TypeOK, Saved, Maps
  <2>2. checkpoint.cur \in Nodes /\ checkpoint.completed \in SUBSET Nodes /\ checkpoint.status \in Maps
    BY <2>1 DEF Saved
  <2>3. ResumeTarget(checkpoint) \in Nodes
    BY <2>2, TargetType DEF ResumeTarget
  <2>4. NoAttempts \in [Nodes -> Nat]
    BY DEF NoAttempts
  <2>5. resumes' \in 0..MaxResumes
    <3>1. resumes \in 0..MaxResumes /\ resumes < MaxResumes /\ resumes' = resumes + 1
      BY <1>2 DEF Resume, TypeOK
    <3> QED BY <3>1, ForkAssumption
  <2>6. thread' \in [Walkers -> States] /\ at' \in [Walkers -> Nodes]
    BY <1>2, <2>3 DEF Resume, TypeOK, Set, States
  <2>7. status' \in [Walkers -> Maps] /\ attempts' \in [Walkers -> [Nodes -> Nat]]
    BY <1>2, <2>2, <2>4 DEF Resume, TypeOK, Set, Maps
  <2> QED BY <1>2, <2>2, <2>5, <2>6, <2>7 DEF Resume, TypeOK, States, Maps
<1>3. CASE StopCancelled
  BY <1>0, <1>3 DEF StopCancelled, EndRun, TypeOK, Set, walk
<1>4. CASE ReachExit
  <2>1. completed' \in SUBSET Nodes /\ status[Start] \in Maps
    BY <1>0, <1>4, MergedType DEF ReachExit, TypeOK
  <2>2. checkpoint' \in Saved
    BY <1>0, <1>4, <2>1, Fields DEF ReachExit
  <2> QED BY <1>0, <1>4, <2>1, <2>2 DEF ReachExit, EndRun, TypeOK, Set, walk, Saved, Maps
<1>5. CASE \E w \in Walkers : Walk(w)
  <2>1. PICK w \in Walkers : Walk(w)
    BY <1>5
  <2>2. CASE BeginStage(w)
    BY <2>2 DEF BeginStage, TypeOK, Set, walk, run
  <2>3. CASE EndBranch(w)
    <3>1. w \in BranchStarts
      BY <2>3, Names DEF EndBranch
    <3> QED BY <2>3, <3>1 DEF EndBranch, TypeOK, Set, walk
  <2> QED BY <2>1, <2>2, <2>3, WalkSteps, HandleTypes, ForkTypes, MergedType
<1>6. CASE Cancel
  BY <1>6 DEF Cancel, TypeOK, walk
<1>7. CASE Crash
  <2>1. NoStatus \in Maps /\ NoAttempts \in [Nodes -> Nat]
    BY DEF NoStatus, Maps, NoAttempts
  <2>2. status' \in [Walkers -> Maps] /\ attempts' \in [Walkers -> [Nodes -> Nat]]
    BY <1>7, <2>1 DEF Crash
  <2>3. thread' \in [Walkers -> States] /\ at' \in [Walkers -> Nodes] /\ last' \in [Walkers -> Lasts]
    BY <1>7, <1>0 DEF Crash, States, Lasts, Statuses, Completions
  <2> QED BY <1>7, <2>2, <2>3 DEF Crash, TypeOK, Maps, States, Lasts
<1>8. CASE UNCHANGED vars
  BY <1>8 DEF vars, TypeOK
<1> QED BY <1>1, <1>2, <1>3, <1>4, <1>5, <1>6, <1>7, <1>8 DEF Next

(* For every graph: every variable holds a value of its type, and every    *)
(* thread always stands at a node, whatever edges are selected.            *)
THEOREM TypeCorrect == Spec => []TypeOK
BY InitTypes, NextTypes, PTL DEF Spec

-----------------------------------------------------------------------------
(* Nesting. Who walks within whom: the fork of branch b is in branch c, or b is c.  *)
Under(b, c) == b = c \/ ForkOf[b] \in ForksIn(c)
Inside(b, w) == thread[w] = "forked" /\ \E c \in Branches(at[w]) : Under(b, c)
Apart(a, b) ==
  \E g \in Parallels : FanInOf[g] # NoNode /\
    \E c, d \in Branches(g) : c # d /\ Under(a, c) /\ Under(b, d)

(* Where a branch stands, and where a thread that has forked does.         *)
PlaceInv ==
  /\ \A b \in BranchStarts :
       /\ at[b] \in Region[b] \union {EndOf[b]}
       /\ thread[b] \in {"executing", "forked"} => at[b] \in Region[b] \ {EndOf[b]}
       /\ thread[b] \notin {"ended", "crashed"}
  /\ \A w \in Walkers : thread[w] = "forked" =>
       at[w] \in Parallels /\ FanInOf[at[w]] # NoNode
  /\ thread[Start] # "done"

(* The threads form a tree: each branch in execution has the thread that   *)
(* forked it, all are below the engine's, two of them are one below the    *)
(* other or below different branches of a fork, and a branch in which one  *)
(* still runs has not ended.                                               *)
ParentInv ==
  \A b \in BranchStarts : Active(b) => \E w \in Walkers \ {b} : thread[w] = "forked" /\ at[w] = ForkOf[b]
BelowStart == \A b \in BranchStarts : Active(b) => Inside(b, Start)
Ordered ==
  \A a, b \in BranchStarts : a # b /\ Active(a) /\ Active(b) =>
    Inside(a, b) \/ Inside(b, a) \/ Apart(a, b)
StillOpen ==
  \A w \in Walkers : thread[w] = "forked" => \A b \in BranchStarts, c \in Branches(at[w]) :
    Active(b) /\ Under(b, c) => Active(c)
TreeInv == ParentInv /\ BelowStart /\ Ordered /\ StillOpen

(* A branch that is counted as completed has come to the fan-in, or to the *)
(* place where a cancel has met it.                                        *)
Back == reached \union cut
AllBack(st, S) == \A b \in BranchStarts : st[b] \in Completions => b \in S
AllEnough(done, S) == \A f \in done \intersect Parallels : Enough(f, S)
BackInv ==
  /\ \A b \in BranchStarts : thread[b] = "done" /\ last[b] \in Completions => b \in Back
  /\ \A w \in Walkers : thread[w] = "forked" =>
       \A b \in Branches(at[w]) : thread[b] = "idle" => b \in Back
  /\ \A w \in Walkers : AllBack(status[w], Back)
  /\ AllEnough(completed, Back)
  /\ checkpoint # NoCheckpoint =>
       AllBack(checkpoint.status, Back) /\ AllEnough(checkpoint.completed, Back)

(* A saved success is known to every thread, and to every checkpoint.      *)
KeptInv ==
  /\ thread[Start] = "idle" => kept = {}
  /\ \A b \in kept :
       /\ \A w \in Walkers : Active(w) => status[w][b] = "SUCCESS"
       /\ \A w \in Walkers : thread[w] = "forked" /\ b \in Branches(at[w]) => thread[b] = "idle"
       /\ checkpoint # NoCheckpoint => checkpoint.status[b] = "SUCCESS"

(* A branch is joinable when its fork has a fan-in.               *)
Joinable == {b \in BranchStarts : FanInOf[ForkOf[b]] # NoNode}

LEMMA BranchesJoinable ==
  ASSUME NEW f \in Parallels, FanInOf[f] # NoNode, NEW b \in Branches(f)
  PROVE  b \in Joinable /\ ForkOf[b] = f
BY ForkOfBranch DEF Joinable

LEMMA UnderTransitive ==
  ASSUME NEW a \in BranchStarts, NEW b \in BranchStarts, NEW c \in Joinable,
         Under(a, b), Under(b, c)
  PROVE  Under(a, c)
<1>1. CASE a = b \/ b = c
  BY <1>1 DEF Under
<1>2. CASE a # b /\ b # c
  <2>1. ForkOf[a] \in ForksIn(b) /\ ForkOf[b] \in ForksIn(c)
    BY <1>2 DEF Under
  <2>2. ForkOf[c] \in Parallels /\ c \in Branches(ForkOf[c]) /\ FanInOf[ForkOf[c]] # NoNode
    BY ForkOfType DEF Joinable
  <2>3. b \in Branches(ForkOf[b])
    BY ForkOfType
  <2>4. ForksIn(b) \subseteq ForksIn(c)
    BY <2>1, <2>2, <2>3, NestingAssumption
  <2> QED BY <2>1, <2>4 DEF Under
<1> QED BY <1>1, <1>2

(* No branch is below two branches of one fork.                            *)
LEMMA SiblingsApart ==
  ASSUME NEW g \in Parallels, FanInOf[g] # NoNode,
         NEW c \in Branches(g), NEW d \in Branches(g), c # d, NEW a \in BranchStarts
  PROVE  ~ (Under(a, c) /\ Under(a, d))
<1>1. ForkOf[c] = g /\ ForkOf[d] = g
  BY ForkOfBranch
<1>2. g \notin ForksIn(c) /\ g \notin ForksIn(d)
  BY NestingAssumption DEF ForksIn
<1>3. ForksIn(c) \intersect ForksIn(d) = {}
  BY NestingAssumption
<1> QED BY <1>1, <1>2, <1>3 DEF Under

(* A fork in a branch has its branches below it, and never above.          *)
LEMMA ForkBelow ==
  ASSUME NEW b \in Joinable, NEW g \in ForksIn(b), NEW c \in Branches(g)
  PROVE  /\ c \in Joinable /\ g \in Parallels /\ FanInOf[g] # NoNode
         /\ Under(c, b) /\ ~ Under(b, c)
<1>1. g \in Parallels /\ FanInOf[g] # NoNode
  BY DEF ForksIn
<1>2. c \in Joinable /\ ForkOf[c] = g
  BY <1>1, BranchesJoinable
<1>3. ForkOf[b] \in Parallels /\ b \in Branches(ForkOf[b]) /\ FanInOf[ForkOf[b]] # NoNode
  BY ForkOfType DEF Joinable
<1>4. ForkOf[b] \notin ForksIn(b) /\ ForksIn(c) \subseteq ForksIn(b)
  BY <1>3, NestingAssumption DEF ForksIn
<1> QED BY <1>1, <1>2, <1>4 DEF Under

LEMMA UnderAntisymmetric ==
  ASSUME NEW a \in Joinable, NEW b \in Joinable, a # b, Under(a, b)
  PROVE  ~ Under(b, a)
<1>1. a \in Branches(ForkOf[a]) /\ ForkOf[a] \in ForksIn(b)
  BY ForkOfType DEF Under, Joinable
<1> QED BY <1>1, ForkBelow

LEMMA ApartLaws ==
  ASSUME NEW a \in BranchStarts, NEW b \in BranchStarts, Apart(a, b)
  PROVE  /\ Apart(b, a)
         /\ a \in Joinable /\ b \in Joinable => ~ Under(a, b) /\ ~ Under(b, a)
         /\ \A c \in BranchStarts : Under(c, a) => Apart(c, b)
         /\ \A c \in BranchStarts : ~ (Under(c, a) /\ Under(c, b))
<1>1. PICK g \in Parallels : FanInOf[g] # NoNode /\
        \E c, d \in Branches(g) : c # d /\ Under(a, c) /\ Under(b, d)
  BY DEF Apart
<1>2. PICK c \in Branches(g), d \in Branches(g) : c # d /\ Under(a, c) /\ Under(b, d)
  BY <1>1
<1>3. c \in Joinable /\ d \in Joinable
  BY <1>1, <1>2, BranchesJoinable
<1>4. Apart(b, a)
  BY <1>1, <1>2 DEF Apart
<1>5. \A e \in BranchStarts : Under(e, a) => Under(e, c)
  BY <1>2, <1>3, UnderTransitive
<1>6. \A e \in BranchStarts : Under(e, b) => Under(e, d)
  BY <1>2, <1>3, UnderTransitive
<1>7. \A e \in BranchStarts : Under(e, a) => Apart(e, b)
  BY <1>1, <1>2, <1>5 DEF Apart
<1>8. \A e \in BranchStarts : ~ (Under(e, a) /\ Under(e, b))
  BY <1>1, <1>2, <1>5, <1>6, SiblingsApart
<1>9. Under(a, a) /\ Under(b, b)
  BY DEF Under
<1> QED BY <1>4, <1>7, <1>8, <1>9

(* A thread within a branch is below it, and never above.                  *)
LEMMA InsideIsBelow ==
  ASSUME PlaceInv, NEW w \in Joinable, NEW b \in BranchStarts, Inside(b, w)
  PROVE  Under(b, w) /\ ~ Under(w, b)
<1>1. PICK c \in Branches(at[w]) : Under(b, c)
  BY DEF Inside
<1>2. at[w] \in ForksIn(w)
  <2>1. w \in BranchStarts /\ w \in Walkers /\ thread[w] = "forked"
    BY Names DEF Inside, Joinable
  <2> QED BY <2>1 DEF PlaceInv, ForksIn
<1>3. c \in Joinable /\ Under(c, w) /\ ~ Under(w, c)
  BY <1>2, ForkBelow
<1>4. c \in BranchStarts /\ w \in BranchStarts
  BY <1>3 DEF Joinable
<1> QED BY <1>1, <1>3, <1>4, UnderTransitive

LEMMA ActiveJoinable ==
  ASSUME PlaceInv, ParentInv, NEW b \in BranchStarts, Active(b)
  PROVE  b \in Joinable
BY DEF ParentInv, PlaceInv, Joinable

(* Two branches in execution, one below the other by the graph, are so by  *)
(* their threads.                                                          *)
LEMMA BelowIsInside ==
  ASSUME PlaceInv, TreeInv, NEW a \in BranchStarts, NEW b \in BranchStarts,
         a # b, Active(a), Active(b), Under(a, b)
  PROVE  Inside(a, b)
<1>1. a \in Joinable /\ b \in Joinable
  BY ActiveJoinable DEF TreeInv
<1>2. ~ Under(b, a)
  BY <1>1, UnderAntisymmetric
<1>3. ~ Apart(a, b) /\ ~ Inside(b, a)
  BY <1>1, <1>2, ApartLaws, InsideIsBelow
<1> QED BY <1>3 DEF TreeInv, Ordered

-----------------------------------------------------------------------------
(* The tree is kept by every thread that goes on, ends or joins.           *)
Childless(w) == \A b \in BranchStarts : Active(b) => ~ Inside(b, w)

LEMMA LeaveKeepsTree ==
  ASSUME PlaceInv, TreeInv, NEW w \in Walkers, Childless(w),
         \A x \in Walkers \ {w} : thread'[x] = thread[x] /\ at'[x] = at[x],
         thread'[w] # "forked",
         w \in BranchStarts /\ Active(w)' => Active(w)
  PROVE  TreeInv'
<1>0. BranchStarts \subseteq Walkers /\ Start \in Walkers /\ Start \notin BranchStarts
  BY Names
<1>1. \A b \in BranchStarts : Active(b)' => Active(b)
  BY <1>0 DEF Active
<1>2. \A b \in BranchStarts, x \in Walkers : x # w => (Inside(b, x)' <=> Inside(b, x))
  BY DEF Inside
<1>3. ParentInv'
  <2> SUFFICES ASSUME NEW b \in BranchStarts, Active(b)'
               PROVE  \E v \in Walkers \ {b} : thread'[v] = "forked" /\ at'[v] = ForkOf[b]
    BY DEF ParentInv
  <2>1. PICK v \in Walkers \ {b} : thread[v] = "forked" /\ at[v] = ForkOf[b]
    BY <1>1 DEF TreeInv, ParentInv
  <2>2. Inside(b, v)
    BY <2>1, ForkOfType DEF Inside, Under
  <2>3. v # w
    BY <1>1, <2>2 DEF Childless
  <2> QED BY <2>1, <2>3
<1>4. BelowStart'
  <2> SUFFICES ASSUME NEW b \in BranchStarts, Active(b)' PROVE Inside(b, Start)'
    BY DEF BelowStart
  <2>1. Inside(b, Start) /\ Start # w
    BY <1>1 DEF TreeInv, BelowStart, Childless
  <2> QED BY <2>1, <1>0, <1>2
<1>5. Ordered'
  <2> SUFFICES ASSUME NEW a \in BranchStarts, NEW b \in BranchStarts, a # b, Active(a)', Active(b)'
               PROVE  Inside(a, b)' \/ Inside(b, a)' \/ Apart(a, b)
    BY DEF Ordered, Apart, Under
  <2>1. Inside(a, b) \/ Inside(b, a) \/ Apart(a, b)
    BY <1>1 DEF TreeInv, Ordered
  <2>2. Inside(a, b) => b # w
    BY <1>1 DEF Childless
  <2>3. Inside(b, a) => a # w
    BY <1>1 DEF Childless
  <2> QED BY <2>1, <2>2, <2>3, <1>0, <1>2
<1>6. StillOpen'
  <2> SUFFICES ASSUME NEW x \in Walkers, thread'[x] = "forked", NEW b \in BranchStarts,
                      NEW c \in Branches(at'[x]), Active(b)', Under(b, c)
               PROVE  Active(c)'
    BY DEF StillOpen, Under
  <2>1. x # w /\ thread[x] = "forked" /\ at'[x] = at[x]
    OBVIOUS
  <2>2. Active(b) /\ Active(c)
    BY <1>1, <2>1 DEF TreeInv, StillOpen
  <2>3. c \in BranchStarts
    BY <2>1, Names DEF PlaceInv
  <2>4. CASE c # w
    BY <2>2, <2>3, <2>4, <1>0 DEF Active
  <2>5. CASE c = w
    <3>1. b # w => Inside(b, w)
      BY <2>2, <2>3, <2>5, BelowIsInside
    <3> QED BY <3>1, <2>2, <2>5 DEF Childless
  <2> QED BY <2>4, <2>5
<1> QED BY <1>3, <1>4, <1>5, <1>6 DEF TreeInv

LEMMA NotForkedChildless ==
  ASSUME NEW w, thread[w] # "forked"
  PROVE  Childless(w)
BY DEF Childless, Inside

LEMMA JoinedChildless ==
  ASSUME TreeInv, NEW w \in Walkers, Joined(w)
  PROVE  Childless(w)
<1> SUFFICES ASSUME NEW b \in BranchStarts, Active(b), Inside(b, w) PROVE FALSE
  BY DEF Childless
<1>1. PICK c \in Branches(at[w]) : Under(b, c)
  BY DEF Inside
<1>2. Active(c)
  BY <1>1 DEF TreeInv, StillOpen, Inside
<1> QED BY <1>2 DEF Joined, Active

-----------------------------------------------------------------------------
(* What a fork does: its branches go are started, of the others the failed *)
(* ones are done and those that had succeeded have no thread.              *)
Starts(w, go) ==
  /\ go \subseteq Branches(at[w]) /\ \A b \in go : status[w][b] # "SUCCESS"
  /\ w \notin Branches(at[w]) /\ Branches(at[w]) \subseteq BranchStarts
  /\ thread'[w] = "forked" /\ at'[w] = at[w] /\ last'[w] = last[w] /\ status'[w] = status[w]
  /\ \A b \in go : /\ thread'[b] = "head" /\ at'[b] = b
                   /\ last'[b] = "SUCCESS" /\ status'[b] = status[w]
  /\ \A b \in Branches(at[w]) \ go :
       /\ \/ thread'[b] = "idle" /\ status[w][b] = "SUCCESS" /\ last'[b] = last[b]
          \/ thread'[b] = "done" /\ status[w][b] # "SUCCESS" /\ last'[b] = "NOT_STARTED"
       /\ at'[b] = at[b] /\ status'[b] = status[b]
  /\ \A x \in Walkers \ {w} : x \notin Branches(at[w]) =>
       /\ thread'[x] = thread[x] /\ at'[x] = at[x]
       /\ last'[x] = last[x] /\ status'[x] = status[x]

LEMMA ForkStarts ==
  ASSUME TypeOK, PlaceInv, NEW w \in Walkers, Fork(w)
  PROVE  /\ \E go \in SUBSET Branches(at[w]) : Starts(w, go)
         /\ thread[w] = "executing" /\ at[w] \in Parallels /\ FanInOf[at[w]] # NoNode
<1>1. thread[w] = "executing" /\ at[w] \in Parallels /\ FanInOf[at[w]] # NoNode
  BY DEF Fork
<1>2. Branches(at[w]) \subseteq BranchStarts /\ BranchStarts \subseteq Walkers
  BY <1>1, Names
<1>3. w \notin Branches(at[w])
  <2> SUFFICES ASSUME w \in Branches(at[w]) PROVE FALSE
    OBVIOUS
  <2>1. w \in BranchStarts /\ at[w] \in Region[w]
    BY <1>1, <1>2 DEF PlaceInv
  <2> QED BY <1>1, <2>1, NestingAssumption
<1>4. PICK bad \in SUBSET (ToRun(w) \intersect Worktrees) : Fork(w)!2!(bad)
  BY DEF Fork
<1> DEFINE go == ToRun(w) \ bad
<1>5. /\ go \subseteq Branches(at[w]) /\ \A b \in go : status[w][b] # "SUCCESS"
      /\ bad \subseteq Branches(at[w]) /\ \A b \in bad : status[w][b] # "SUCCESS"
      /\ \A b \in Branches(at[w]) \ (go \union bad) : status[w][b] = "SUCCESS"
  BY DEF ToRun, AlreadyDone
<1> HIDE DEF go
<1>6. \A x \in Walkers :
        /\ thread'[x] = IF x = w THEN "forked" ELSE IF x \in go THEN "head"
                        ELSE IF x \in bad THEN "done"
                        ELSE IF x \in Branches(at[w]) THEN "idle" ELSE thread[x]
        /\ at'[x] = IF x \in go THEN x ELSE at[x]
        /\ last'[x] = IF x \in go THEN "SUCCESS" ELSE IF x \in bad THEN "NOT_STARTED" ELSE last[x]
        /\ status'[x] = IF x \in go THEN status[w] ELSE status[x]
  BY <1>4 DEF go
<1>7. Starts(w, go)
  <2>1. w \notin go /\ w \notin bad
    BY <1>3, <1>5
  <2>2. thread'[w] = "forked" /\ at'[w] = at[w] /\ last'[w] = last[w] /\ status'[w] = status[w]
    BY <1>6, <2>1
  <2>3. ASSUME NEW b \in go
        PROVE  thread'[b] = "head" /\ at'[b] = b /\ last'[b] = "SUCCESS" /\ status'[b] = status[w]
    <3>1. b \in Walkers /\ b # w
      BY <1>2, <1>5, <2>1
    <3> QED BY <1>6, <3>1
  <2>4. ASSUME NEW b \in Branches(at[w]) \ go
        PROVE  /\ \/ thread'[b] = "idle" /\ status[w][b] = "SUCCESS" /\ last'[b] = last[b]
                  \/ thread'[b] = "done" /\ status[w][b] # "SUCCESS" /\ last'[b] = "NOT_STARTED"
               /\ at'[b] = at[b] /\ status'[b] = status[b]
    <3>1. b \in Walkers /\ b # w /\ b \notin go
      BY <1>2, <1>3
    <3>2. /\ thread'[b] = IF b \in bad THEN "done" ELSE "idle"
          /\ last'[b] = IF b \in bad THEN "NOT_STARTED" ELSE last[b]
          /\ at'[b] = at[b] /\ status'[b] = status[b]
      BY <1>6, <3>1
    <3>3. CASE b \in bad
      BY <1>5, <3>2, <3>3
    <3>4. CASE b \notin bad
      <4>1. status[w][b] = "SUCCESS"
        BY <1>5, <2>4, <3>4
      <4> QED BY <3>2, <3>4, <4>1
    <3> QED BY <3>3, <3>4
  <2>5. ASSUME NEW x \in Walkers \ {w}, x \notin Branches(at[w])
        PROVE  /\ thread'[x] = thread[x] /\ at'[x] = at[x]
               /\ last'[x] = last[x] /\ status'[x] = status[x]
    <3>1. x \notin go /\ x \notin bad
      BY <1>5, <2>5
    <3> QED BY <1>6, <2>5, <3>1
  <2> QED BY <1>2, <1>3, <1>5, <2>2, <2>3, <2>4, <2>5 DEF Starts
<1> QED BY <1>1, <1>5, <1>7

(* Before a fork none of its branches is in execution, and nothing is      *)
(* below its thread but the thread itself.                                 *)
LEMMA ForkIsFresh ==
  ASSUME TypeOK, PlaceInv, TreeInv, NEW w \in Walkers, thread[w] = "executing",
         at[w] \in Parallels, FanInOf[at[w]] # NoNode
  PROVE  /\ w = Start => \A b \in BranchStarts : ~ Active(b)
         /\ w # Start => /\ w \in Joinable /\ at[w] \in ForksIn(w) /\ Inside(w, Start)
                         /\ \A b \in BranchStarts : b # w /\ Active(b) =>
                              ~ Under(b, w) /\ (Inside(w, b) \/ Apart(w, b))
         /\ \A c \in Branches(at[w]) : ~ Active(c)
<1>1. w = Start => \A b \in BranchStarts : ~ Active(b)
  BY DEF TreeInv, BelowStart, Inside
<1>2. ASSUME w # Start
      PROVE  /\ w \in Joinable /\ at[w] \in ForksIn(w) /\ Inside(w, Start)
             /\ \A b \in BranchStarts : b # w /\ Active(b) =>
                  ~ Under(b, w) /\ (Inside(w, b) \/ Apart(w, b))
  <2>1. w \in BranchStarts /\ Active(w)
    BY <1>2, Names DEF Active
  <2>2. w \in Joinable /\ Inside(w, Start)
    BY <2>1, ActiveJoinable DEF TreeInv, BelowStart
  <2>3. at[w] \in ForksIn(w)
    BY <2>1 DEF PlaceInv, ForksIn
  <2>4. ASSUME NEW b \in BranchStarts, b # w, Active(b)
        PROVE  ~ Under(b, w) /\ (Inside(w, b) \/ Apart(w, b))
    <3>1. ~ Inside(b, w)
      BY DEF Inside
    <3>2. Inside(w, b) \/ Apart(w, b)
      BY <2>1, <2>4, <3>1 DEF TreeInv, Ordered
    <3>3. ~ Under(b, w)
      BY <2>1, <2>4, <3>1, BelowIsInside
    <3> QED BY <3>2, <3>3
  <2> QED BY <2>2, <2>3, <2>4
<1>3. ASSUME NEW c \in Branches(at[w]), Active(c)
      PROVE  FALSE
  <2>1. c \in BranchStarts /\ w # Start
    BY <1>1, <1>3, Names
  <2>2. Under(c, w) /\ ~ Under(w, c)
    BY <1>2, <2>1, ForkBelow
  <2>3. c # w
    BY <2>2 DEF Under
  <2> QED BY <1>2, <1>3, <2>1, <2>2, <2>3
<1> QED BY <1>1, <1>2, <1>3

LEMMA ForkKeepsTree ==
  ASSUME TypeOK, PlaceInv, TreeInv, NEW w \in Walkers, Fork(w)
  PROVE  TreeInv'
<1>1. PICK go \in SUBSET Branches(at[w]) : Starts(w, go)
  BY ForkStarts
<1>2. thread[w] = "executing" /\ at[w] \in Parallels /\ FanInOf[at[w]] # NoNode
  BY ForkStarts
<1>0. BranchStarts \subseteq Walkers /\ Start \in Walkers /\ Start \notin BranchStarts
  BY Names
<1>3. go \subseteq Joinable /\ go \subseteq BranchStarts /\ Branches(at[w]) \subseteq Joinable
      /\ \A c \in Branches(at[w]) : ForkOf[c] = at[w]
  BY <1>1, <1>2, BranchesJoinable DEF Joinable
<1>4. \A c \in Branches(at[w]) : ~ Active(c)
  BY <1>2, ForkIsFresh
<1>5. \A b \in BranchStarts : Active(b)' <=> (Active(b) \/ b \in go)
  <2> TAKE b \in BranchStarts
  <2>1. CASE b = w
    BY <1>1, <1>2, <2>1 DEF Starts, Active
  <2>2. CASE b # w /\ b \in Branches(at[w])
    BY <1>1, <1>4, <2>2 DEF Starts, Active
  <2>3. CASE b # w /\ b \notin Branches(at[w])
    BY <1>0, <1>1, <2>3 DEF Starts, Active
  <2> QED BY <2>1, <2>2, <2>3
<1>6. \A x \in Walkers : thread[x] = "forked" =>
        x # w /\ thread'[x] = "forked" /\ at'[x] = at[x]
  <2> SUFFICES ASSUME NEW x \in Walkers, thread[x] = "forked"
               PROVE  x # w /\ thread'[x] = "forked" /\ at'[x] = at[x]
    OBVIOUS
  <2>1. x # w /\ x \notin Branches(at[w])
    BY <1>2, <1>4 DEF Active
  <2> QED BY <2>1, <1>1 DEF Starts
<1>7. \A x \in Walkers : thread'[x] = "forked" => x = w \/ thread[x] = "forked"
  BY <1>1 DEF Starts
<1>8. \A b \in BranchStarts, x \in Walkers : Inside(b, x) => Inside(b, x)'
  BY <1>6 DEF Inside, Under
<1>9. \A c \in go : Inside(c, w)'
  BY <1>1 DEF Starts, Inside, Under
<1>10. ASSUME w # Start
       PROVE  /\ w \in Joinable /\ w \in BranchStarts /\ at[w] \in ForksIn(w)
              /\ \A c \in Branches(at[w]) : Under(c, w) /\ ~ Under(w, c)
  <2>1. w \in Joinable /\ at[w] \in ForksIn(w)
    BY <1>2, <1>10, ForkIsFresh
  <2> QED BY <2>1, ForkBelow DEF Joinable
<1>11. \A c \in go, x \in BranchStarts : w # Start /\ Inside(w, x) => Inside(c, x)
  <2> SUFFICES ASSUME NEW c \in go, NEW x \in BranchStarts, w # Start, Inside(w, x)
               PROVE  Inside(c, x)
    OBVIOUS
  <2>1. PICK d \in Branches(at[x]) : Under(w, d)
    BY DEF Inside
  <2>2. d \in Joinable
    BY <1>0, BranchesJoinable DEF PlaceInv, Inside
  <2>3. Under(c, d)
    BY <1>3, <1>10, <2>1, <2>2, UnderTransitive
  <2> QED BY <2>3 DEF Inside
<1>12. ParentInv'
  <2> SUFFICES ASSUME NEW b \in BranchStarts, Active(b)'
               PROVE  \E v \in Walkers \ {b} : thread'[v] = "forked" /\ at'[v] = ForkOf[b]
    BY DEF ParentInv
  <2>1. CASE b \in go
    <3>1. thread'[w] = "forked" /\ at'[w] = ForkOf[b] /\ w # b
      BY <1>1, <1>3, <2>1 DEF Starts
    <3> QED BY <3>1
  <2>2. CASE Active(b)
    <3>1. PICK v \in Walkers \ {b} : thread[v] = "forked" /\ at[v] = ForkOf[b]
      BY <2>2 DEF TreeInv, ParentInv
    <3> QED BY <3>1, <1>6
  <2> QED BY <1>5, <2>1, <2>2
<1>13. BelowStart'
  <2> SUFFICES ASSUME NEW b \in BranchStarts, Active(b)' PROVE Inside(b, Start)'
    BY DEF BelowStart
  <2>1. CASE b \in go
    <3>1. CASE w = Start
      BY <1>9, <2>1, <3>1
    <3>2. CASE w # Start
      <4>1. PICK d \in Branches(at[Start]) : Under(w, d)
        BY <1>2, <3>2, ForkIsFresh DEF Inside
      <4>2. thread[Start] = "forked"
        BY <1>2, <3>2, ForkIsFresh DEF Inside
      <4>3. d \in Joinable
        BY <1>0, <4>2, BranchesJoinable DEF PlaceInv
      <4>4. Under(b, d)
        BY <1>3, <1>10, <2>1, <3>2, <4>1, <4>3, UnderTransitive
      <4> QED BY <1>0, <1>8, <4>2, <4>4 DEF Inside
    <3> QED BY <3>1, <3>2
  <2>2. CASE Active(b)
    BY <1>0, <1>8, <2>2 DEF TreeInv, BelowStart
  <2> QED BY <1>5, <2>1, <2>2
<1>14. \A b \in BranchStarts, c \in go : b # c /\ Active(b) =>
         Inside(c, b)' \/ Apart(c, b)
  <2> SUFFICES ASSUME NEW b \in BranchStarts, NEW c \in go, b # c, Active(b)
               PROVE  Inside(c, b)' \/ Apart(c, b)
    OBVIOUS
  <2>1. w # Start
    BY <1>2, ForkIsFresh
  <2>2. CASE b = w
    BY <1>9, <2>2
  <2>3. CASE b # w
    <3>1. Inside(w, b) \/ Apart(w, b)
      BY <1>2, <2>1, <2>3, ForkIsFresh
    <3>2. Apart(w, b) => Apart(c, b)
      BY <1>3, <1>10, <2>1, ApartLaws
    <3> QED BY <1>0, <1>3, <1>8, <1>11, <2>1, <3>1, <3>2
  <2> QED BY <2>2, <2>3
<1>15. \A c, d \in go : c # d => Apart(c, d)
  BY <1>2 DEF Apart, Under
<1>16. Ordered'
  <2> SUFFICES ASSUME NEW a \in BranchStarts, NEW b \in BranchStarts, a # b, Active(a)', Active(b)'
               PROVE  Inside(a, b)' \/ Inside(b, a)' \/ Apart(a, b)
    BY DEF Ordered, Apart, Under
  <2>1. CASE Active(a) /\ Active(b)
    BY <1>0, <1>8, <2>1 DEF TreeInv, Ordered
  <2>2. CASE a \in go /\ b \in go
    BY <1>15, <2>2
  <2>3. CASE a \in go /\ Active(b)
    BY <1>14, <2>3
  <2>4. CASE Active(a) /\ b \in go
    BY <1>3, <1>14, <2>4, ApartLaws
  <2> QED BY <1>5, <2>1, <2>2, <2>3, <2>4
<1>17. StillOpen'
  <2> SUFFICES ASSUME NEW x \in Walkers, thread'[x] = "forked", NEW b \in BranchStarts,
                      NEW c \in Branches(at'[x]), Active(b)', Under(b, c)
               PROVE  Active(c)'
    BY DEF StillOpen, Under
  <2>1. CASE x = w
    <3>1. c \in Branches(at[w]) /\ c \in Joinable /\ c \in BranchStarts
      BY <1>1, <1>3, <2>1 DEF Starts
    <3>2. CASE b \in go
      <4>1. b = c
        BY <1>2, <1>3, <3>1, <3>2, SiblingsApart DEF Under
      <4> QED BY <1>5, <3>1, <3>2, <4>1
    <3>3. CASE Active(b)
      <4>1. w # Start
        BY <1>2, <3>3, ForkIsFresh
      <4>2. Under(b, w) /\ b # w
        BY <1>10, <3>1, <4>1, UnderTransitive
      <4> QED BY <1>2, <3>3, <4>1, <4>2, ForkIsFresh
    <3> QED BY <1>5, <3>2, <3>3
  <2>2. CASE x # w
    <3>1. thread[x] = "forked" /\ c \in Branches(at[x])
      BY <1>6, <1>7, <2>2
    <3>2. c \in Joinable /\ c \in BranchStarts /\ at[x] \in Parallels /\ FanInOf[at[x]] # NoNode
      BY <3>1, BranchesJoinable DEF PlaceInv, Joinable
    <3>3. CASE Active(b)
      BY <1>5, <3>1, <3>2, <3>3 DEF TreeInv, StillOpen
    <3>4. CASE b \in go
      <4>1. w # Start
        <5>1. x # Start => Active(x) /\ x \in BranchStarts
          BY <3>1, Names DEF Active
        <5> QED BY <5>1, <1>2, <2>2, ForkIsFresh
      <4>2. Under(b, w)
        BY <1>10, <3>4, <4>1
      <4>3. Inside(w, x)
        <5>1. CASE x = Start
          BY <1>2, <4>1, <5>1, ForkIsFresh
        <5>2. CASE x # Start
          <6>1. x \in BranchStarts /\ Active(x)
            BY <3>1, <5>2, Names DEF Active
          <6>2. x \in Joinable /\ at[x] \in ForksIn(x)
            BY <3>1, <3>2, <6>1, ActiveJoinable DEF PlaceInv, ForksIn, TreeInv
          <6>3. Under(b, x)
            BY <1>3, <3>1, <3>2, <3>4, <6>1, <6>2, ForkBelow, UnderTransitive
          <6>4. ~ Apart(w, x)
            BY <1>3, <1>10, <3>4, <4>1, <4>2, <6>1, <6>3, ApartLaws
          <6> QED BY <1>2, <2>2, <4>1, <6>1, <6>4, ForkIsFresh
        <5> QED BY <5>1, <5>2
      <4>4. PICK d \in Branches(at[x]) : Under(w, d)
        BY <4>3 DEF Inside
      <4>5. d \in Joinable
        BY <3>2, <4>4, BranchesJoinable
      <4>6. Under(b, d)
        BY <1>3, <1>10, <3>4, <4>1, <4>2, <4>4, <4>5, UnderTransitive
      <4>7. c = d
        BY <1>3, <3>1, <3>2, <3>4, <4>6, SiblingsApart
      <4>8. Active(w)
        BY <1>2 DEF Active
      <4>9. Active(c)
        BY <1>10, <3>1, <4>1, <4>4, <4>7, <4>8 DEF TreeInv, StillOpen
      <4> QED BY <1>5, <3>2, <4>9
    <3> QED BY <1>5, <3>3, <3>4
  <2> QED BY <2>1, <2>2
<1> QED BY <1>12, <1>13, <1>16, <1>17 DEF TreeInv

-----------------------------------------------------------------------------
(* What a loop does with an outcome, as far as the invariants go.          *)
Handles(w, o, st) ==
  /\ \A x \in Walkers \ {w} : /\ thread'[x] = thread[x] /\ at'[x] = at[x]
                              /\ last'[x] = last[x] /\ status'[x] = status[x]
  /\ thread'[w] = "head" \/ thread'[w] = IF w = Start THEN "ended" ELSE "done"
  /\ w # Start => at'[w] = at[w] \/ at'[w] \in Successors(at[w])
  /\ thread'[w] = "done" => last'[w] \notin Completions
  /\ status'[w] = status[w] \/ status'[w] = st
  /\ reached' = reached /\ cut' = cut
  /\ \/ completed' = completed
     \/ o.status \in Completions /\ completed' = completed \union {at[w]}
  /\ \/ checkpoint' = checkpoint
     \/ checkpoint'.completed = completed' /\ checkpoint'.status = st
  /\ \/ kept' = kept
     \/ /\ w = Start /\ status'[w] = st /\ checkpoint'.status = st
        /\ kept' = kept \union {b \in Branches(at[w]) : st[b] = "SUCCESS"}

LEMMA HandleEffects ==
  ASSUME TypeOK, NEW w \in Walkers, NEW o, NEW st, Handle(w, o, st)
  PROVE  Handles(w, o, st)
<1>0. /\ thread \in [Walkers -> States] /\ at \in [Walkers -> Nodes]
      /\ last \in [Walkers -> Lasts] /\ status \in [Walkers -> Maps]
  BY DEF TypeOK, States, Lasts, Maps
<1>1. CASE RetryStage(w, o)
  BY <1>0, <1>1 DEF RetryStage, Set, run, Handles
<1>2. CASE w = Start /\ AbortRun(o)
  BY <1>0, <1>2 DEF AbortRun, EndRun, Set, walk, Handles
<1>3. CASE w = Start /\ FailRun(o, st)
  <2>1. checkpoint'.completed = completed' /\ checkpoint'.status = st
    BY <1>3, Fields DEF FailRun, FailureSaved
  <2>2. \/ kept' = kept
        \/ /\ at[w] \in Parallels
           /\ kept' = kept \union {b \in Branches(at[w]) : st[b] = "SUCCESS"}
    BY <1>3 DEF FailRun, Keeping
  <2>3. /\ thread' = [thread EXCEPT ![w] = "ended"] /\ status' = [status EXCEPT ![w] = st]
        /\ at' = at /\ last' = last /\ completed' = completed /\ reached' = reached /\ cut' = cut
    BY <1>3 DEF FailRun, EndRun, Set
  <2> QED BY <1>0, <1>3, <2>1, <2>2, <2>3 DEF Handles
<1>4. CASE w = Start /\ CompleteStage(o, st)
  <2>1. checkpoint'.completed = completed' /\ checkpoint'.status = st
    BY <1>4, Fields DEF CompleteStage
  <2>2. \/ kept' = kept
        \/ /\ at[w] \in Parallels
           /\ kept' = kept \union {b \in Branches(at[w]) : st[b] = "SUCCESS"}
    BY <1>4 DEF CompleteStage, Keeping
  <2>3. /\ \E s \in {"head", "ended"} : thread' = [thread EXCEPT ![w] = s]
        /\ \A x \in Walkers \ {w} : at'[x] = at[x]
    BY <1>0, <1>4 DEF CompleteStage, EndRun, Set
  <2>4. /\ status' = [status EXCEPT ![w] = st] /\ last' = last
        /\ reached' = reached /\ cut' = cut
        /\ o.status \in Completions /\ completed' = completed \union {at[w]}
    BY <1>4 DEF CompleteStage, Set
  <2> QED BY <1>0, <1>4, <2>1, <2>2, <2>3, <2>4 DEF Handles
<1>5. CASE w # Start /\ FailBranch(w, o)
  BY <1>0, <1>5 DEF FailBranch, Set, run, Handles, Completions
<1>6. CASE w # Start /\ AdvanceBranch(w, o, st)
  <2>1. at[w] \in Nodes
    BY <1>0
  <2>2. Target(at[w], o) # NoNode => Target(at[w], o) \in Successors(at[w])
    BY <2>1, TargetType
  <2>3. /\ status' = [status EXCEPT ![w] = st] /\ checkpoint' = checkpoint /\ kept' = kept
        /\ reached' = reached /\ cut' = cut
        /\ o.status \in Completions /\ completed' = completed \union {at[w]}
    BY <1>6 DEF AdvanceBranch, Set
  <2>4. CASE Target(at[w], o) = NoNode
    <3>1. thread' = [thread EXCEPT ![w] = "done"] /\ last' = [last EXCEPT ![w] = "ERROR"] /\ at' = at
      BY <1>6, <2>4 DEF AdvanceBranch, Set
    <3> QED BY <1>0, <1>6, <2>3, <3>1 DEF Handles, Completions
  <2>5. CASE Target(at[w], o) # NoNode
    <3>1. /\ thread' = [thread EXCEPT ![w] = "head"] /\ last' = [last EXCEPT ![w] = o.status]
          /\ at' = [at EXCEPT ![w] = Target(at[w], o)]
      BY <1>6, <2>5 DEF AdvanceBranch, Set
    <3> QED BY <1>0, <1>6, <2>2, <2>3, <2>5, <3>1 DEF Handles
  <2> QED BY <2>4, <2>5
<1> QED BY <1>1, <1>2, <1>3, <1>4, <1>5, <1>6 DEF Handle

LEMMA HandleKeepsPlaces ==
  ASSUME TypeOK, PlaceInv, NEW w \in Walkers, thread[w] \in {"executing", "forked"},
         NEW o, NEW st, Handles(w, o, st)
  PROVE  PlaceInv'
<1>0. BranchStarts \subseteq Walkers /\ Start \in Walkers /\ Start \notin BranchStarts
      /\ \A x \in Walkers : x # Start => x \in BranchStarts
  BY Names
<1>1. ASSUME NEW b \in BranchStarts
      PROVE  /\ at'[b] \in Region[b] \union {EndOf[b]}
             /\ thread'[b] \in {"executing", "forked"} => at'[b] \in Region[b] \ {EndOf[b]}
             /\ thread'[b] \notin {"ended", "crashed"}
  <2>1. CASE b # w
    BY <1>0, <2>1 DEF Handles, PlaceInv
  <2>2. CASE b = w
    <3>1. at[b] \in Region[b] /\ at[b] # EndOf[b] /\ b # Start
      BY <1>0, <2>2 DEF PlaceInv
    <3>2. at'[b] \in Region[b] \union {EndOf[b]}
      BY <2>2, <3>1, RegionClosed DEF Handles
    <3> QED BY <2>2, <3>1, <3>2 DEF Handles
  <2> QED BY <2>1, <2>2
<1>2. ASSUME NEW x \in Walkers, thread'[x] = "forked"
      PROVE  at'[x] \in Parallels /\ FanInOf[at'[x]] # NoNode
  BY <1>2 DEF Handles, PlaceInv
<1>3. thread'[Start] # "done"
  BY <1>0 DEF Handles, PlaceInv
<1> QED BY <1>1, <1>2, <1>3 DEF PlaceInv

LEMMA ForkKeepsPlaces ==
  ASSUME TypeOK, PlaceInv, NEW w \in Walkers, Fork(w)
  PROVE  PlaceInv'
<1>0. BranchStarts \subseteq Walkers /\ Start \in Walkers /\ Start \notin BranchStarts
  BY Names
<1>1. PICK go \in SUBSET Branches(at[w]) : Starts(w, go)
  BY ForkStarts
<1>2. thread[w] = "executing" /\ at[w] \in Parallels /\ FanInOf[at[w]] # NoNode
  BY ForkStarts
<1>3. ASSUME NEW b \in BranchStarts
      PROVE  /\ at'[b] \in Region[b] \union {EndOf[b]}
             /\ thread'[b] \in {"executing", "forked"} => at'[b] \in Region[b] \ {EndOf[b]}
             /\ thread'[b] \notin {"ended", "crashed"}
  <2>1. CASE b = w
    BY <1>1, <1>2, <2>1 DEF Starts, PlaceInv
  <2>2. CASE b \in go
    BY <1>1, <2>2 DEF Starts, Region
  <2>3. CASE b \in Branches(at[w]) \ go
    BY <1>1, <2>3 DEF Starts, PlaceInv
  <2>4. CASE b # w /\ b \notin Branches(at[w])
    BY <1>0, <1>1, <2>4 DEF Starts, PlaceInv
  <2> QED BY <2>1, <2>2, <2>3, <2>4
<1>4. ASSUME NEW x \in Walkers, thread'[x] = "forked"
      PROVE  at'[x] \in Parallels /\ FanInOf[at'[x]] # NoNode
  <2>1. CASE x = w
    BY <1>1, <1>2, <2>1 DEF Starts
  <2>2. CASE x # w /\ x \notin Branches(at[w])
    BY <1>1, <1>4, <2>2 DEF Starts, PlaceInv
  <2>3. CASE x \in Branches(at[w])
    BY <1>1, <1>4, <2>3 DEF Starts
  <2> QED BY <2>1, <2>2, <2>3
<1>5. thread'[Start] # "done"
  BY <1>0, <1>1 DEF Starts, PlaceInv
<1> QED BY <1>3, <1>4, <1>5 DEF PlaceInv

(* The steps of a walker, by what the invariants need to know of them.     *)
LEMMA WalkHandles ==
  ASSUME TypeOK, NEW w \in Walkers, Walk(w)
  PROVE  \/ BeginStage(w) \/ EndBranch(w) \/ Fork(w)
         \/ \E o : /\ thread[w] = "executing" /\ Handles(w, o, status[w])
                   /\ at[w] \in Parallels => o.status \notin Completions
         \/ \E o : /\ thread[w] = "forked" /\ Joined(w) /\ Handles(w, o, Merged(w))
                   /\ o.status = JoinStatus(at[w])
<1>1. ASSUME thread[w] = "executing", at[w] \notin Parallels,
             \E o \in Outcomes[at[w]] : Handle(w, o, status[w])
      PROVE  \E o : /\ thread[w] = "executing" /\ Handles(w, o, status[w])
                    /\ at[w] \in Parallels => o.status \notin Completions
  BY <1>1, HandleEffects
<1>2. ASSUME thread[w] = "executing", NEW o, o = [Succeeded EXCEPT !.status = "ERROR"],
             Handle(w, o, status[w])
      PROVE  \E p : /\ thread[w] = "executing" /\ Handles(w, p, status[w])
                    /\ at[w] \in Parallels => p.status \notin Completions
  <2>1. o.status = "ERROR"
    BY <1>2 DEF Succeeded
  <2>2. Handles(w, o, status[w])
    BY <1>2, HandleEffects
  <2> QED BY <1>2, <2>1, <2>2 DEF Completions
<1>3. ASSUME thread[w] = "forked", Joined(w), NEW o,
             o = [Succeeded EXCEPT !.status = JoinStatus(at[w])], Handle(w, o, Merged(w))
      PROVE  \E p : /\ thread[w] = "forked" /\ Joined(w) /\ Handles(w, p, Merged(w))
                    /\ p.status = JoinStatus(at[w])
  <2>1. o.status = JoinStatus(at[w])
    BY <1>3 DEF Succeeded
  <2>2. Handles(w, o, Merged(w))
    BY <1>3, HandleEffects
  <2> QED BY <1>3, <2>1, <2>2
<1> QED BY <1>1, <1>2, <1>3, WalkSteps

-----------------------------------------------------------------------------
(* The places and the tree are kept.                                       *)
LEMMA InitTree == Init => PlaceInv /\ TreeInv
<1> SUFFICES ASSUME Init PROVE PlaceInv /\ TreeInv
  OBVIOUS
<1>1. \A w \in Walkers : thread[w] = "idle" /\ at[w] = w
  BY DEF Init
<1>2. PlaceInv
  BY <1>1, Names DEF PlaceInv, Region
<1>3. TreeInv
  BY <1>1, Names DEF TreeInv, ParentInv, BelowStart, Ordered, StillOpen, Active
<1> QED BY <1>2, <1>3

LEMMA NextPlaces ==
  ASSUME TypeOK, PlaceInv, [Next]_vars
  PROVE  PlaceInv'
<1>0. /\ BranchStarts \subseteq Walkers /\ Start \in Walkers /\ Start \notin BranchStarts
      /\ \A x \in Walkers : x # Start => x \in BranchStarts
      /\ thread \in [Walkers -> States] /\ at \in [Walkers -> Nodes]
  BY Names DEF TypeOK, States
<1>1. ASSUME NEW s \in {"head", "ended"}, thread' = [thread EXCEPT ![Start] = s],
             \A b \in BranchStarts : at'[b] = at[b]
      PROVE  PlaceInv'
  BY <1>0, <1>1 DEF PlaceInv
<1>2. CASE StartRun
  BY <1>0, <1>1, <1>2 DEF StartRun, Set, walk
<1>3. CASE Resume
  BY <1>0, <1>1, <1>3 DEF Resume, Set
<1>4. CASE StopCancelled \/ ReachExit
  BY <1>0, <1>1, <1>4 DEF StopCancelled, ReachExit, EndRun, Set, walk
<1>5. CASE \E w \in Walkers : Walk(w)
  <2>1. PICK w \in Walkers : Walk(w)
    BY <1>5
  <2>2. CASE BeginStage(w)
    <3>1. /\ thread' = [thread EXCEPT ![w] = "executing"] /\ at' = at
          /\ thread[w] = "head" /\ at[w] # EndOf[w]
      BY <2>2 DEF BeginStage, Set, walk
    <3> QED BY <1>0, <3>1 DEF PlaceInv
  <2>3. CASE EndBranch(w)
    <3>1. thread' = [thread EXCEPT ![w] = "done"] /\ at' = at /\ w # Start
      BY <2>3 DEF EndBranch, Set, walk
    <3> QED BY <1>0, <3>1 DEF PlaceInv
  <2> QED BY <2>1, <2>2, <2>3, WalkHandles, HandleKeepsPlaces, ForkKeepsPlaces
<1>6. CASE Cancel
  BY <1>6 DEF Cancel, walk, PlaceInv
<1>7. CASE Crash
  <2>1. /\ \A w \in Walkers : at'[w] = w
        /\ \A b \in BranchStarts : thread'[b] = "idle"
        /\ thread'[Start] = "crashed"
    BY <1>0, <1>7 DEF Crash
  <2> QED BY <1>0, <2>1 DEF PlaceInv, Region
<1>8. CASE UNCHANGED vars
  BY <1>8 DEF vars, PlaceInv
<1> QED BY <1>2, <1>3, <1>4, <1>5, <1>6, <1>7, <1>8 DEF Next

LEMMA NextTree ==
  ASSUME TypeOK, PlaceInv, TreeInv, [Next]_vars
  PROVE  TreeInv'
<1>0. /\ BranchStarts \subseteq Walkers /\ Start \in Walkers /\ Start \notin BranchStarts
      /\ thread \in [Walkers -> States] /\ at \in [Walkers -> Nodes]
  BY Names DEF TypeOK, States
<1>1. ASSUME NEW s \in {"head", "ended"}, thread' = [thread EXCEPT ![Start] = s],
             thread[Start] # "forked", \A b \in BranchStarts : at'[b] = at[b]
      PROVE  TreeInv'
  <2>1. \A x \in Walkers \ {Start} : thread'[x] = thread[x] /\ at'[x] = at[x]
    BY <1>0, <1>1, Names
  <2>2. thread'[Start] # "forked"
    BY <1>0, <1>1
  <2> QED BY <1>0, <1>1, <2>1, <2>2, NotForkedChildless, LeaveKeepsTree
<1>2. CASE StartRun
  BY <1>0, <1>1, <1>2 DEF StartRun, Set, walk
<1>3. CASE Resume
  BY <1>0, <1>1, <1>3 DEF Resume, Set
<1>4. CASE StopCancelled \/ ReachExit
  BY <1>0, <1>1, <1>4 DEF StopCancelled, ReachExit, EndRun, Set, walk
<1>5. CASE \E w \in Walkers : Walk(w)
  <2>1. PICK w \in Walkers : Walk(w)
    BY <1>5
  <2>2. CASE BeginStage(w) \/ EndBranch(w)
    <3>1. /\ \E s \in {"executing", "done"} : thread' = [thread EXCEPT ![w] = s]
          /\ at' = at /\ thread[w] = "head"
      BY <2>2 DEF BeginStage, EndBranch, Set, walk
    <3>2. \A x \in Walkers \ {w} : thread'[x] = thread[x] /\ at'[x] = at[x]
      BY <3>1
    <3>3. thread'[w] # "forked" /\ Active(w)
      BY <1>0, <3>1 DEF Active
    <3> QED BY <3>1, <3>2, <3>3, NotForkedChildless, LeaveKeepsTree
  <2>3. ASSUME NEW o, NEW st, Handles(w, o, st), Childless(w), thread[w] \in {"executing", "forked"}
        PROVE  TreeInv'
    <3>1. \A x \in Walkers \ {w} : thread'[x] = thread[x] /\ at'[x] = at[x]
      BY <2>3 DEF Handles
    <3>2. thread'[w] # "forked" /\ Active(w)
      BY <2>3 DEF Handles, Active
    <3> QED BY <2>3, <3>1, <3>2, LeaveKeepsTree
  <2>4. CASE Fork(w)
    BY <2>4, ForkKeepsTree
  <2>5. thread[w] = "executing" => Childless(w)
    BY NotForkedChildless
  <2>6. Joined(w) => Childless(w)
    BY JoinedChildless
  <2> QED BY <2>1, <2>2, <2>3, <2>4, <2>5, <2>6, WalkHandles
<1>6. CASE Cancel
  BY <1>6 DEF Cancel, walk, TreeInv, ParentInv, BelowStart, Ordered, StillOpen, Active,
              Inside, Under, Apart
<1>7. CASE Crash
  <2>1. \A w \in Walkers : thread'[w] \in {"idle", "crashed"}
    BY <1>7 DEF Crash
  <2> QED BY <1>0, <2>1 DEF TreeInv, ParentInv, BelowStart, Ordered, StillOpen, Active
<1>8. CASE UNCHANGED vars
  BY <1>8 DEF vars, TreeInv, ParentInv, BelowStart, Ordered, StillOpen, Active,
              Inside, Under, Apart
<1> QED BY <1>2, <1>3, <1>4, <1>5, <1>6, <1>7, <1>8 DEF Next

(* For every graph with nested forks: a branch thread lives only while the *)
(* thread that forked it waits for it.                                     *)
THEOREM ForksAreStructured == Spec => []BranchesAreJoined
<1>1. TreeInv => BranchesAreJoined
  BY DEF TreeInv, ParentInv, BranchesAreJoined
<1> QED BY <1>1, InitTypes, InitTree, NextTypes, NextPlaces, NextTree, PTL DEF Spec

-----------------------------------------------------------------------------
(* Join policies.                                                          *)
LEMMA EnoughMonotone ==
  ASSUME NEW f \in Parallels, NEW S, NEW T, S \subseteq T, Enough(f, S)
  PROVE  Enough(f, T)
<1>1. Branches(f) \subseteq Nodes /\ f \in Nodes
  BY Names
<1>2. IsFiniteSet(T \intersect Branches(f)) /\ IsFiniteSet(S \intersect Branches(f))
  <2>1. IsFiniteSet(Nodes)
    BY ForkAssumption
  <2> QED BY <1>1, <2>1, FS_Subset
<1>3. Cardinality(S \intersect Branches(f)) <= Cardinality(T \intersect Branches(f))
  <2>1. S \intersect Branches(f) \subseteq T \intersect Branches(f)
    OBVIOUS
  <2> QED BY <1>2, <2>1, FS_Subset
<1>4. /\ Cardinality(S \intersect Branches(f)) \in Nat
      /\ Cardinality(T \intersect Branches(f)) \in Nat
      /\ JoinThreshold[f] \in Int
  BY <1>1, <1>2, FS_CardinalityType, ForkAssumption
<1> QED BY <1>3, <1>4 DEF Enough

LEMMA LedgerMonotone ==
  ASSUME NEW S, NEW T, S \subseteq T
  PROVE  /\ \A st : AllBack(st, S) => AllBack(st, T)
         /\ \A done : AllEnough(done, S) => AllEnough(done, T)
BY EnoughMonotone DEF AllBack, AllEnough

(* What a join takes for a completed branch has come back.                 *)
LEMMA ResultBack ==
  ASSUME BackInv, PlaceInv, NEW w \in Walkers, thread[w] = "forked", Joined(w),
         NEW b \in Branches(at[w]), ResultOf(b) \in Completions
  PROVE  b \in Back
<1>1. b \in BranchStarts
  BY Names DEF PlaceInv
<1>2. CASE thread[b] = "idle"
  BY <1>2 DEF BackInv
<1>3. CASE thread[b] # "idle"
  BY <1>1, <1>3 DEF BackInv, Joined, ResultOf
<1> QED BY <1>2, <1>3

LEMMA MergedBack ==
  ASSUME BackInv, PlaceInv, NEW w \in Walkers, thread[w] = "forked", Joined(w)
  PROVE  AllBack(Merged(w), Back)
<1> SUFFICES ASSUME NEW b \in BranchStarts, Merged(w)[b] \in Completions PROVE b \in Back
  BY DEF AllBack
<1>1. CASE b \notin Branches(at[w]) \/ ResultOf(b) = "ERROR"
  BY <1>1 DEF Merged, BackInv, AllBack
<1>2. CASE b \in Branches(at[w]) /\ ResultOf(b) # "ERROR"
  <2>1. ResultOf(b) \in Completions
    BY <1>2 DEF Merged, Completions
  <2> QED BY <1>2, <2>1, ResultBack
<1> QED BY <1>1, <1>2

LEMMA JoinEnough ==
  ASSUME TypeOK, BackInv, PlaceInv, NEW w \in Walkers, thread[w] = "forked", Joined(w),
         JoinStatus(at[w]) \in Completions
  PROVE  Enough(at[w], Back)
<1> DEFINE f == at[w]
           with(S) == {b \in Branches(f) : ResultOf(b) \in S}
<1>1. f \in Parallels /\ Branches(f) \subseteq BranchStarts /\ f \in Nodes
  BY Names DEF PlaceInv
<1>2. \A b \in Branches(f) : ResultOf(b) \in Completions => b \in Back
  BY ResultBack
<1>3. \A b \in Branches(f) : ResultOf(b) \in Lasts
  BY <1>1, ResultType
<1>4. JoinStatus(f) # "FAILURE"
  BY DEF Completions
<1>5. CASE JoinPolicy[f] = "first_success"
  <2>1. with({"SUCCESS"}) # {}
    BY <1>4, <1>5 DEF JoinStatus
  <2> QED BY <1>2, <1>5, <2>1 DEF Enough, Completions
<1>6. CASE JoinPolicy[f] = "threshold"
  <2>1. Cardinality(with({"SUCCESS", "PARTIAL_SUCCESS"})) >= JoinThreshold[f]
    BY <1>4, <1>6 DEF JoinStatus
  <2>2. with({"SUCCESS", "PARTIAL_SUCCESS"}) \subseteq Back \intersect Branches(f)
    BY <1>2 DEF Completions
  <2>3. IsFiniteSet(Back \intersect Branches(f))
    <3>1. IsFiniteSet(Nodes) /\ Back \intersect Branches(f) \subseteq Nodes
      BY <1>1, Names, ForkAssumption
    <3> QED BY <3>1, FS_Subset
  <2>4. /\ IsFiniteSet(with({"SUCCESS", "PARTIAL_SUCCESS"}))
        /\ Cardinality(with({"SUCCESS", "PARTIAL_SUCCESS"})) <= Cardinality(Back \intersect Branches(f))
    BY <2>2, <2>3, FS_Subset
  <2>5. /\ Cardinality(Back \intersect Branches(f)) \in Nat
        /\ Cardinality(with({"SUCCESS", "PARTIAL_SUCCESS"})) \in Nat
        /\ JoinThreshold[f] \in Int
    BY <1>1, <2>3, <2>4, FS_CardinalityType, ForkAssumption
  <2> HIDE DEF with
  <2>6. Cardinality(Back \intersect Branches(f)) >= JoinThreshold[f]
    BY <2>1, <2>4, <2>5
  <2> QED BY <1>6, <2>6 DEF Enough
<1>7. CASE JoinPolicy[f] # "first_success" /\ JoinPolicy[f] # "threshold"
  <2>1. with({"FAILURE", "ERROR", "NOT_STARTED"}) = {}
    BY <1>4, <1>7 DEF JoinStatus
  <2>2. \A b \in Branches(f) : ResultOf(b) \in Completions
    BY <1>3, <2>1 DEF Lasts, Statuses
  <2> QED BY <1>2, <1>7, <2>2 DEF Enough
<1> QED BY <1>5, <1>6, <1>7

LEMMA HandleKeepsBack ==
  ASSUME TypeOK, BackInv, PlaceInv, NEW w \in Walkers, thread[w] \in {"executing", "forked"},
         NEW o, NEW st, Handles(w, o, st), AllBack(st, Back),
         o.status \in Completions /\ at[w] \in Parallels => Enough(at[w], Back)
  PROVE  BackInv'
<1>0. BranchStarts \subseteq Walkers
  BY Names
<1>1. Back' = Back
  BY DEF Handles, Back
<1>2. \A b \in BranchStarts : thread'[b] = "done" /\ last'[b] \in Completions => b \in Back
  BY <1>0 DEF Handles, BackInv
<1>3. ASSUME NEW x \in Walkers, thread'[x] = "forked",
             NEW b \in Branches(at'[x]), thread'[b] = "idle"
      PROVE  b \in Back
  <2>1. x # w /\ thread[x] = "forked" /\ at'[x] = at[x]
    BY <1>3 DEF Handles
  <2>2. b \in Walkers /\ b # w
    BY <1>0, <1>3, <2>1, Names DEF PlaceInv, Handles
  <2> QED BY <1>3, <2>1, <2>2 DEF Handles, BackInv
<1>4. \A x \in Walkers : AllBack(status'[x], Back)
  BY DEF Handles, BackInv
<1>5. AllEnough(completed', Back)
  BY DEF Handles, BackInv, AllEnough
<1>6. checkpoint' # NoCheckpoint =>
        AllBack(checkpoint'.status, Back) /\ AllEnough(checkpoint'.completed, Back)
  BY <1>5 DEF Handles, BackInv
<1> QED BY <1>1, <1>2, <1>3, <1>4, <1>5, <1>6 DEF BackInv, AllBack, AllEnough

LEMMA ForkKeepsBack ==
  ASSUME TypeOK, BackInv, PlaceInv, NEW w \in Walkers, Fork(w)
  PROVE  BackInv'
<1>0. BranchStarts \subseteq Walkers
  BY Names
<1>1. PICK go \in SUBSET Branches(at[w]) : Starts(w, go)
  BY ForkStarts
<1>2. /\ Back' = Back /\ completed' = completed /\ checkpoint' = checkpoint
  BY DEF Fork, run, Back
<1>3. \A b \in Branches(at[w]) : status[w][b] = "SUCCESS" => b \in Back
  BY <1>1 DEF Starts, BackInv, AllBack, Completions
<1>4. ASSUME NEW b \in BranchStarts, thread'[b] = "done", last'[b] \in Completions
      PROVE  b \in Back
  <2>1. b # w /\ b \notin go
    BY <1>1, <1>4 DEF Starts
  <2>2. b \notin Branches(at[w])
    BY <1>1, <1>4, <2>1 DEF Starts, Completions
  <2> QED BY <1>0, <1>1, <1>4, <2>1, <2>2 DEF Starts, BackInv
<1>5. ASSUME NEW x \in Walkers, thread'[x] = "forked",
             NEW b \in Branches(at'[x]), thread'[b] = "idle"
      PROVE  b \in Back
  <2>1. CASE b \in Branches(at[w])
    BY <1>1, <1>3, <1>5, <2>1 DEF Starts
  <2>2. CASE b \notin Branches(at[w])
    <3>1. x # w /\ x \notin Branches(at[w])
      BY <1>1, <1>5, <2>2 DEF Starts
    <3>2. thread[x] = "forked" /\ at'[x] = at[x]
      BY <1>1, <1>5, <3>1 DEF Starts
    <3>3. b \in Walkers /\ b # w
      BY <1>0, <1>1, <1>5, <3>2, Names DEF PlaceInv, Starts
    <3>4. thread[b] = "idle"
      BY <1>1, <1>5, <2>2, <3>3 DEF Starts
    <3> QED BY <1>5, <3>2, <3>4 DEF BackInv
  <2> QED BY <2>1, <2>2
<1>6. ASSUME NEW x \in Walkers
      PROVE  AllBack(status'[x], Back)
  <2>1. status'[x] = status[x] \/ status'[x] = status[w]
    BY <1>1 DEF Starts
  <2> QED BY <2>1 DEF BackInv
<1> QED BY <1>2, <1>4, <1>5, <1>6 DEF BackInv, AllBack, AllEnough

LEMMA NextBack ==
  ASSUME TypeOK, PlaceInv, BackInv, [Next]_vars
  PROVE  BackInv'
<1>0. /\ BranchStarts \subseteq Walkers /\ Start \in Walkers /\ Start \notin BranchStarts
      /\ Exit \notin Parallels
      /\ thread \in [Walkers -> States] /\ status \in [Walkers -> Maps]
  BY Names DEF TypeOK, States, Maps
<1>1. ASSUME NEW s \in {"head", "ended"}, thread' = [thread EXCEPT ![Start] = s],
             \A x \in Walkers \ {Start} : at'[x] = at[x], UNCHANGED <<last, reached, cut>>,
             \A x \in Walkers : AllBack(status'[x], Back), AllEnough(completed', Back),
             checkpoint' # NoCheckpoint =>
               AllBack(checkpoint'.status, Back) /\ AllEnough(checkpoint'.completed, Back)
      PROVE  BackInv'
  <2>1. Back' = Back
    BY <1>1 DEF Back
  <2>2. \A b \in BranchStarts : thread'[b] = thread[b] /\ last'[b] = last[b]
    BY <1>0, <1>1
  <2>3. ASSUME NEW x \in Walkers, thread'[x] = "forked"
        PROVE  \A b \in Branches(at'[x]) : thread'[b] = "idle" => b \in Back
    <3>1. x # Start /\ thread[x] = "forked" /\ at'[x] = at[x]
      BY <1>0, <1>1, <2>3
    <3>2. Branches(at[x]) \subseteq BranchStarts
      BY <3>1, Names DEF PlaceInv
    <3> QED BY <2>2, <3>1, <3>2 DEF BackInv
  <2> QED BY <1>1, <2>1, <2>2, <2>3 DEF BackInv, AllBack, AllEnough
<1>2. CASE StartRun \/ StopCancelled
  <2>1. /\ \E s \in {"head", "ended"} : thread' = [thread EXCEPT ![Start] = s]
        /\ UNCHANGED <<at, last, reached, cut, status, completed, checkpoint>>
    BY <1>2 DEF StartRun, StopCancelled, EndRun, Set, walk, run
  <2> QED BY <1>1, <2>1 DEF BackInv
<1>3. CASE Resume
  <2>1. /\ thread' = [thread EXCEPT ![Start] = "head"]
        /\ \A x \in Walkers \ {Start} : at'[x] = at[x]
        /\ UNCHANGED <<last, reached, cut, checkpoint>> /\ checkpoint # NoCheckpoint
        /\ completed' = checkpoint.completed
        /\ status' = [status EXCEPT ![Start] = checkpoint.status]
    BY <1>3 DEF Resume, Set, TypeOK
  <2>2. AllBack(checkpoint.status, Back) /\ AllEnough(checkpoint.completed, Back)
    BY <2>1 DEF BackInv
  <2>3. \A x \in Walkers : AllBack(status'[x], Back)
    BY <1>0, <2>1, <2>2 DEF BackInv
  <2> QED BY <1>1, <2>1, <2>2, <2>3
<1>4. CASE ReachExit
  <2>1. /\ thread' = [thread EXCEPT ![Start] = "ended"]
        /\ UNCHANGED <<at, last, reached, cut, status>>
        /\ completed' = completed \union {Exit}
        /\ checkpoint' = Snapshot(Exit, completed', status[Start])
    BY <1>4 DEF ReachExit, EndRun, Set, walk
  <2>2. AllEnough(completed', Back) /\ \A x \in Walkers : AllBack(status[x], Back)
    BY <1>0, <2>1 DEF AllEnough, BackInv
  <2>3. checkpoint'.completed = completed' /\ checkpoint'.status = status[Start]
    BY <2>1, Fields
  <2> QED BY <1>0, <1>1, <2>1, <2>2, <2>3
<1>5. CASE \E w \in Walkers : Walk(w)
  <2>1. PICK w \in Walkers : Walk(w)
    BY <1>5
  <2>2. CASE BeginStage(w)
    <3>1. /\ thread' = [thread EXCEPT ![w] = "executing"] /\ thread[w] = "head"
          /\ UNCHANGED <<at, last, reached, cut, status, completed, checkpoint>>
      BY <2>2 DEF BeginStage, Set, walk, run
    <3>2. ASSUME NEW x \in Walkers, thread'[x] = "forked"
          PROVE  \A b \in Branches(at[x]) : thread'[b] = "idle" => b \in Back
      <4>1. thread[x] = "forked"
        BY <1>0, <3>1, <3>2
      <4>2. Branches(at[x]) \subseteq BranchStarts
        BY <4>1, Names DEF PlaceInv
      <4> QED BY <1>0, <3>1, <4>1, <4>2 DEF BackInv
    <3>3. \A b \in BranchStarts : thread'[b] = "done" => thread[b] = "done"
      BY <1>0, <3>1
    <3> QED BY <3>1, <3>2, <3>3 DEF BackInv, Back, AllBack, AllEnough
  <2>3. CASE EndBranch(w)
    <3>1. /\ thread' = [thread EXCEPT ![w] = "done"]
          /\ UNCHANGED <<at, last, status, completed, checkpoint>>
          /\ Back' = Back \union {w}
      BY <2>3 DEF EndBranch, Set, walk, Back
    <3>2. Back \subseteq Back'
      BY <3>1
    <3>3. ASSUME NEW x \in Walkers, thread'[x] = "forked"
          PROVE  \A b \in Branches(at[x]) : thread'[b] = "idle" => b \in Back'
      <4>1. thread[x] = "forked"
        BY <1>0, <3>1, <3>3
      <4>2. Branches(at[x]) \subseteq BranchStarts
        BY <4>1, Names DEF PlaceInv
      <4> QED BY <1>0, <3>1, <3>2, <4>1, <4>2 DEF BackInv
    <3>4. \A b \in BranchStarts : thread'[b] = "done" /\ last[b] \in Completions => b \in Back'
      BY <1>0, <3>1 DEF BackInv
    <3>5. /\ \A x \in Walkers : AllBack(status[x], Back') /\ AllEnough(completed, Back')
          /\ checkpoint # NoCheckpoint =>
               AllBack(checkpoint.status, Back') /\ AllEnough(checkpoint.completed, Back')
      <4> HIDE DEF Back
      <4> QED BY <1>0, <3>2, LedgerMonotone DEF BackInv
    <3>6. AllEnough(completed, Back')
      BY <1>0, <3>5
    <3> QED BY <3>1, <3>3, <3>4, <3>5, <3>6 DEF BackInv, AllBack, AllEnough
  <2>4. CASE Fork(w)
    BY <2>4, ForkKeepsBack
  <2>5. ASSUME NEW o, thread[w] = "executing", Handles(w, o, status[w]),
               at[w] \in Parallels => o.status \notin Completions
        PROVE  BackInv'
    BY <2>5, HandleKeepsBack DEF BackInv
  <2>6. ASSUME NEW o, thread[w] = "forked", Joined(w), Handles(w, o, Merged(w)),
               o.status = JoinStatus(at[w])
        PROVE  BackInv'
    BY <2>6, HandleKeepsBack, MergedBack, JoinEnough
  <2> QED BY <2>1, <2>2, <2>3, <2>4, <2>5, <2>6, WalkHandles
<1>6. CASE Cancel
  BY <1>6 DEF Cancel, walk, BackInv, Back, AllBack, AllEnough
<1>7. CASE Crash
  <2>1. /\ \A x \in Walkers : thread'[x] \in {"idle", "crashed"} /\ status'[x] = NoStatus
        /\ completed' = {} /\ UNCHANGED <<checkpoint, reached, cut>>
    BY <1>7 DEF Crash
  <2>2. AllBack(NoStatus, Back) /\ AllEnough({}, Back)
    BY DEF AllBack, AllEnough, NoStatus, Completions
  <2> QED BY <1>0, <2>1, <2>2 DEF BackInv, Back, AllBack, AllEnough
<1>8. CASE UNCHANGED vars
  BY <1>8 DEF vars, BackInv, Back, AllBack, AllEnough
<1> QED BY <1>2, <1>3, <1>4, <1>5, <1>6, <1>7, <1>8 DEF Next

LEMMA InitBack == Init => BackInv
<1> SUFFICES ASSUME Init PROVE BackInv
  OBVIOUS
<1>1. /\ \A w \in Walkers : thread[w] = "idle" /\ status[w] = NoStatus
      /\ completed = {} /\ checkpoint = NoCheckpoint
  BY DEF Init
<1>2. AllBack(NoStatus, Back) /\ AllEnough({}, Back)
  BY DEF AllBack, AllEnough, NoStatus, Completions
<1> QED BY <1>1, <1>2, Names DEF BackInv

(* For every graph with nested forks: a fan-in runs only behind as many    *)
(* branches as the join policy asks for, over failures, worktrees that     *)
(* cannot be set up, crashes, resumes and loops back to the fork.          *)
THEOREM PoliciesAreHonoured == Spec => []JoinPolicyHonoured
<1>1. BackInv => JoinPolicyHonoured
  BY DEF BackInv, AllEnough, JoinPolicyHonoured, Merging, Back
<1> QED BY <1>1, InitTypes, InitTree, InitBack, NextTypes, NextPlaces, NextBack, PTL DEF Spec

-----------------------------------------------------------------------------
(* Saved successes.                                                        *)
LEMMA MergedKeeps ==
  ASSUME KeptInv, NEW w \in Walkers, thread[w] = "forked", NEW b \in kept \intersect BranchStarts
  PROVE  Merged(w)[b] = "SUCCESS"
<1>1. status[w][b] = "SUCCESS"
  BY DEF KeptInv, Active
<1>2. b \in Branches(at[w]) => ResultOf(b) = "SUCCESS"
  BY DEF KeptInv, ResultOf
<1> QED BY <1>1, <1>2 DEF Merged

LEMMA HandleKeepsKept ==
  ASSUME TypeOK, KeptInv, PlaceInv, TreeInv, NEW w \in Walkers,
         thread[w] \in {"executing", "forked"}, Childless(w), NEW o, NEW st, Handles(w, o, st),
         \A b \in kept : st[b] = "SUCCESS"
  PROVE  KeptInv'
<1>0. /\ BranchStarts \subseteq Walkers /\ Start \in Walkers /\ kept \subseteq BranchStarts
      /\ \A x \in Walkers : x # Start => x \in BranchStarts
  BY Names DEF TypeOK
<1>1. \/ thread'[Start] # "idle"
      \/ thread'[Start] = thread[Start] /\ w # Start
  BY <1>0 DEF Handles
<1>2. \A x \in Walkers : Active(x)' => Active(x)
  BY DEF Handles, Active
<1>3. \A x \in Walkers : thread'[x] = "forked" => x # w /\ thread[x] = "forked" /\ at'[x] = at[x]
  BY DEF Handles
<1>4. \A b \in kept : status'[w][b] = "SUCCESS"
  BY DEF Handles, KeptInv, Active
<1>5. \A b \in kept, x \in Walkers : Active(x)' => status'[x][b] = "SUCCESS"
  <2> SUFFICES ASSUME NEW b \in kept, NEW x \in Walkers, Active(x)'
               PROVE  status'[x][b] = "SUCCESS"
    OBVIOUS
  <2>1. CASE x = w
    BY <1>4, <2>1
  <2>2. CASE x # w
    BY <1>2, <2>2 DEF Handles, KeptInv
  <2> QED BY <2>1, <2>2
<1>6. \A b \in kept, x \in Walkers :
        thread'[x] = "forked" /\ b \in Branches(at'[x]) => thread'[b] = "idle"
  <2> SUFFICES ASSUME NEW b \in kept, NEW x \in Walkers, thread'[x] = "forked",
                      b \in Branches(at'[x])
               PROVE  thread'[b] = "idle"
    OBVIOUS
  <2>1. thread[b] = "idle" /\ b \in Walkers
    BY <1>0, <1>3 DEF KeptInv
  <2> QED BY <2>1 DEF Handles
<1>7. \A b \in kept : checkpoint' # NoCheckpoint => checkpoint'.status[b] = "SUCCESS"
  BY DEF Handles, KeptInv
<1>8. CASE kept' = kept
  BY <1>0, <1>1, <1>5, <1>6, <1>7, <1>8 DEF KeptInv, Active
<1>9. CASE /\ w = Start /\ status'[w] = st /\ checkpoint'.status = st
           /\ kept' = kept \union {b \in Branches(at[w]) : st[b] = "SUCCESS"}
  <2>1. \A b \in BranchStarts : ~ Active(b)
    BY <1>9 DEF Childless, TreeInv, BelowStart
  <2>2. \A x \in Walkers : Active(x)' => x = Start
    BY <1>0, <1>2, <2>1
  <2>3. \A x \in Walkers : thread'[x] # "forked"
    <3>1. \A x \in Walkers : thread'[x] = "forked" => Active(x)'
      BY DEF Active
    <3> QED BY <1>3, <1>9, <2>2, <3>1
  <2>4. \A b \in kept' : st[b] = "SUCCESS"
    BY <1>9
  <2>5. thread'[Start] # "idle"
    BY <1>1, <1>9
  <2> QED BY <1>9, <2>2, <2>3, <2>4, <2>5 DEF KeptInv, Active
<1> QED BY <1>8, <1>9 DEF Handles

LEMMA ForkKeepsKept ==
  ASSUME TypeOK, KeptInv, PlaceInv, NEW w \in Walkers, Fork(w)
  PROVE  /\ KeptInv'
         /\ \A b \in BranchStarts : Starting(b) => b \notin kept
<1>0. BranchStarts \subseteq Walkers /\ Start \in Walkers /\ kept \subseteq BranchStarts
      /\ Start \notin BranchStarts
  BY Names DEF TypeOK
<1>1. PICK go \in SUBSET Branches(at[w]) : Starts(w, go)
  BY ForkStarts
<1>2. thread[w] = "executing" /\ kept' = kept /\ checkpoint' = checkpoint
  BY DEF Fork, run
<1>3. \A b \in kept : status[w][b] = "SUCCESS"
  BY <1>2 DEF KeptInv, Active
<1>4. \A b \in kept : b \notin go
  BY <1>1, <1>3 DEF Starts
<1>5. \A b \in BranchStarts : Starting(b) => b \in go
  <2> SUFFICES ASSUME NEW b \in BranchStarts, Starting(b), b \notin go PROVE FALSE
    OBVIOUS
  <2>1. thread'[b] = "head" /\ thread[b] # "head"
    BY DEF Starting, Active
  <2>2. b # w /\ b \notin Branches(at[w])
    BY <1>1, <2>1 DEF Starts
  <2> QED BY <1>0, <1>1, <2>1, <2>2 DEF Starts
<1>6. thread'[Start] = "idle" => kept = {}
  BY <1>0, <1>1, <1>2 DEF Starts, KeptInv
<1>7. ASSUME NEW b \in kept, NEW x \in Walkers, Active(x)'
      PROVE  status'[x][b] = "SUCCESS"
  <2>1. CASE x = w \/ x \in go
    BY <1>1, <1>3, <2>1 DEF Starts
  <2>2. CASE x # w /\ x \notin go
    <3>1. x \notin Branches(at[w])
      BY <1>1, <1>7, <2>2 DEF Starts, Active
    <3> QED BY <1>1, <1>7, <2>2, <3>1 DEF Starts, KeptInv, Active
  <2> QED BY <2>1, <2>2
<1>8. ASSUME NEW b \in kept, NEW x \in Walkers, thread'[x] = "forked", b \in Branches(at'[x])
      PROVE  thread'[b] = "idle"
  <2>1. CASE b \in Branches(at[w])
    BY <1>1, <1>3, <1>4, <2>1 DEF Starts
  <2>2. CASE b \notin Branches(at[w])
    <3>1. x # w /\ x \notin Branches(at[w])
      BY <1>1, <1>8, <2>2 DEF Starts
    <3>2. thread[x] = "forked" /\ at'[x] = at[x]
      BY <1>1, <1>8, <3>1 DEF Starts
    <3>3. thread[b] = "idle"
      BY <1>8, <3>2 DEF KeptInv
    <3> QED BY <1>0, <1>1, <1>2, <2>2, <3>3 DEF Starts
  <2> QED BY <2>1, <2>2
<1>9. KeptInv'
  BY <1>2, <1>6, <1>7, <1>8 DEF KeptInv, Active
<1> QED BY <1>4, <1>5, <1>9

LEMMA NextKept ==
  ASSUME TypeOK, PlaceInv, TreeInv, KeptInv, [Next]_vars
  PROVE  /\ KeptInv'
         /\ \A b \in BranchStarts : Starting(b) => b \notin kept
<1>0. /\ BranchStarts \subseteq Walkers /\ Start \in Walkers /\ Start \notin BranchStarts
      /\ kept \subseteq BranchStarts /\ \A x \in Walkers : x # Start => x \in BranchStarts
      /\ thread \in [Walkers -> States] /\ status \in [Walkers -> Maps]
  BY Names DEF TypeOK, States, Maps
<1>1. ASSUME NEW s \in {"head", "ended"}, thread' = [thread EXCEPT ![Start] = s],
             thread[Start] # "forked", kept' = kept,
             \A b \in kept : Active(Start)' => status'[Start][b] = "SUCCESS",
             \A b \in kept : checkpoint' # NoCheckpoint => checkpoint'.status[b] = "SUCCESS"
      PROVE  /\ KeptInv'
             /\ \A b \in BranchStarts : Starting(b) => b \notin kept
  <2>1. \A b \in BranchStarts : ~ Active(b) /\ thread'[b] = thread[b]
    BY <1>0, <1>1 DEF TreeInv, BelowStart, Inside
  <2>2. \A x \in Walkers : Active(x)' => x = Start
    BY <1>0, <2>1 DEF Active
  <2>3. \A x \in Walkers : thread'[x] # "forked"
    BY <1>0, <1>1, <2>1 DEF Active
  <2>4. thread'[Start] # "idle"
    BY <1>0, <1>1
  <2>5. \A b \in BranchStarts : ~ Starting(b)
    BY <2>1 DEF Starting, Active
  <2> QED BY <1>1, <2>2, <2>3, <2>4, <2>5 DEF KeptInv, Active
<1>2. CASE StartRun
  <2>1. thread' = [thread EXCEPT ![Start] = "head"] /\ thread[Start] = "idle" /\ kept' = kept
    BY <1>2 DEF StartRun, Set, run
  <2>2. kept = {}
    BY <2>1 DEF KeptInv
  <2> QED BY <1>1, <2>1, <2>2
<1>3. CASE Resume
  <2>1. /\ thread' = [thread EXCEPT ![Start] = "head"] /\ thread[Start] # "forked"
        /\ UNCHANGED <<kept, checkpoint>> /\ checkpoint # NoCheckpoint
        /\ status' = [status EXCEPT ![Start] = checkpoint.status]
    BY <1>3 DEF Resume, Set
  <2>2. \A b \in kept : checkpoint.status[b] = "SUCCESS"
    BY <2>1 DEF KeptInv
  <2>3. status'[Start] = checkpoint.status
    BY <1>0, <2>1
  <2> QED BY <1>1, <2>1, <2>2, <2>3
<1>4. CASE StopCancelled
  <2>1. /\ thread' = [thread EXCEPT ![Start] = "ended"] /\ thread[Start] = "head"
        /\ UNCHANGED <<kept, checkpoint, status>>
    BY <1>4 DEF StopCancelled, EndRun, Set, walk
  <2> QED BY <1>0, <1>1, <2>1 DEF KeptInv, Active
<1>5. CASE ReachExit
  <2>1. /\ thread' = [thread EXCEPT ![Start] = "ended"] /\ thread[Start] = "head"
        /\ UNCHANGED <<kept, status>> /\ checkpoint'.status = status[Start]
    BY <1>5, Fields DEF ReachExit, EndRun, Set, walk
  <2>2. \A b \in kept : status[Start][b] = "SUCCESS"
    BY <1>0, <2>1 DEF KeptInv, Active
  <2> QED BY <1>1, <2>1, <2>2
<1>6. CASE \E w \in Walkers : Walk(w)
  <2>1. PICK w \in Walkers : Walk(w)
    BY <1>6
  <2>2. CASE BeginStage(w) \/ EndBranch(w)
    <3>1. /\ \E s \in {"executing", "done"} : thread' = [thread EXCEPT ![w] = s]
          /\ thread[w] = "head" /\ UNCHANGED <<at, kept, status, checkpoint>>
      BY <2>2 DEF BeginStage, EndBranch, Set, walk, run
    <3>2. \A x \in Walkers : Active(x)' => Active(x)
      BY <3>1 DEF Active
    <3>3. \A x \in Walkers : thread'[x] = "forked" => thread[x] = "forked"
      BY <1>0, <3>1
    <3>4. \A x \in Walkers : thread[x] = "idle" => thread'[x] = "idle"
      BY <3>1
    <3>5. thread'[Start] = "idle" => thread[Start] = "idle"
      BY <1>0, <3>1
    <3>6. \A b \in BranchStarts : ~ Starting(b)
      BY <1>0, <3>1 DEF Starting, Active
    <3> QED BY <1>0, <3>1, <3>2, <3>3, <3>4, <3>5, <3>6 DEF KeptInv, Active
  <2>3. ASSUME NEW o, NEW st, Handles(w, o, st), thread[w] \in {"executing", "forked"}
        PROVE  \A b \in BranchStarts : ~ Starting(b)
    BY <1>0, <2>3 DEF Handles, Starting, Active
  <2>4. ASSUME NEW o, thread[w] = "executing", Handles(w, o, status[w])
        PROVE  KeptInv' /\ \A b \in BranchStarts : ~ Starting(b)
    <3>1. \A b \in kept : status[w][b] = "SUCCESS"
      BY <2>4 DEF KeptInv, Active
    <3> QED BY <2>3, <2>4, <3>1, NotForkedChildless, HandleKeepsKept
  <2>5. ASSUME NEW o, thread[w] = "forked", Joined(w), Handles(w, o, Merged(w))
        PROVE  KeptInv' /\ \A b \in BranchStarts : ~ Starting(b)
    <3>1. \A b \in kept : Merged(w)[b] = "SUCCESS"
      BY <1>0, <2>5, MergedKeeps
    <3> QED BY <2>3, <2>5, <3>1, JoinedChildless, HandleKeepsKept
  <2>6. CASE Fork(w)
    BY <2>6, ForkKeepsKept
  <2> QED BY <2>1, <2>2, <2>4, <2>5, <2>6, WalkHandles
<1>7. CASE Cancel
  BY <1>7 DEF Cancel, walk, KeptInv, Active, Starting
<1>8. CASE Crash
  <2>1. /\ \A x \in Walkers : thread'[x] \in {"idle", "crashed"}
        /\ thread'[Start] = "crashed" /\ UNCHANGED <<checkpoint, kept>>
    BY <1>0, <1>8 DEF Crash
  <2> QED BY <1>0, <2>1 DEF KeptInv, Active, Starting
<1>9. CASE UNCHANGED vars
  BY <1>9 DEF vars, KeptInv, Active, Starting
<1> QED BY <1>2, <1>3, <1>4, <1>5, <1>6, <1>7, <1>8, <1>9 DEF Next

LEMMA InitKept == Init => KeptInv
BY DEF Init, KeptInv

(* For every graph with nested forks and any number of resumes: a branch   *)
(* whose success the engine has saved is not started again.                *)
THEOREM SavedBranchesRest == Spec => KeptBranchNotRestarted
<1>1. TypeOK /\ PlaceInv /\ TreeInv /\ KeptInv /\ [Next]_vars =>
        [\A b \in BranchStarts : Starting(b) => b \notin kept]_vars
  BY NextKept
<1>2. TypeOK /\ PlaceInv /\ TreeInv /\ KeptInv /\ [Next]_vars => KeptInv'
  BY NextKept
<1> QED BY <1>1, <1>2, InitTypes, InitTree, InitKept, NextTypes, NextPlaces, NextTree, PTL
        DEF Spec, KeptBranchNotRestarted

-----------------------------------------------------------------------------
(* The walkers implement ForkJoin.                                         *)
TreeStep == [Tree!Next]_Tree!vars

LEMMA WalkerWaits ==
  ASSUME NEW w \in Walkers
  PROVE  /\ w \in Live <=> Active(w)
         /\ thread[w] # "forked" => Waits[w] = {}
         /\ thread[w] = "forked" => Waits[w] = Branches(at[w])
BY DEF Live, Waits

LEMMA WalkersWait ==
  /\ Live \subseteq Walkers
  /\ Waits = [w \in Walkers |-> Waits[w]]
BY DEF Live, Waits

(* A thread that forks, alone among the threads, is one; nothing is awaited *)
(* while it does not wait.                                                 *)
LEMMA StartAlone ==
  ASSUME TreeInv, thread[Start] # "forked"
  PROVE  /\ \A b \in BranchStarts : ~ Active(b)
         /\ \A w \in Walkers : Waits[w] = {}
         /\ Live \subseteq {Start}
<1>1. \A b \in BranchStarts : ~ Active(b)
  BY DEF TreeInv, BelowStart, Inside
<1>2. \A w \in Walkers : w # Start => ~ Active(w)
  BY <1>1, Names
<1>3. \A w \in Walkers : thread[w] # "forked"
  BY <1>2 DEF Active
<1> QED BY <1>1, <1>2, <1>3, WalkerWaits DEF Live

(* A step of one walker that is not a fork.                                *)
LEMMA WalkerGoes ==
  ASSUME NEW w \in Walkers,
         \A x \in Walkers \ {w} : thread'[x] = thread[x] /\ at'[x] = at[x],
         thread'[w] # "forked"
  PROVE  /\ Live' = IF thread'[w] \in {"head", "executing"} THEN Live \union {w} ELSE Live \ {w}
         /\ Waits' = [Waits EXCEPT ![w] = {}]
<1>1. \A x \in Walkers \ {w} : Active(x)' <=> Active(x)
  BY DEF Active
<1>2. Active(w)' <=> thread'[w] \in {"head", "executing"}
  BY DEF Active
<1>3. Live' = {x \in Walkers : Active(x)'}
  BY DEF Live
<1>4. Waits' = [x \in Walkers |-> IF x = w THEN {} ELSE Waits[x]]
  BY DEF Waits
<1>5. Live' = IF thread'[w] \in {"head", "executing"} THEN Live \union {w} ELSE Live \ {w}
  BY <1>1, <1>2, <1>3 DEF Live
<1> QED BY <1>4, <1>5, WalkersWait

(* The fork it is at is waited at by no other thread.                      *)
LEMMA ForkIsItsOwn ==
  ASSUME TypeOK, PlaceInv, TreeInv, NEW w \in Walkers, thread[w] = "executing",
         at[w] \in Parallels, FanInOf[at[w]] # NoNode,
         NEW x \in Walkers, thread[x] = "forked"
  PROVE  at[x] # at[w]
<1> SUFFICES ASSUME at[x] = at[w] PROVE FALSE
  OBVIOUS
<1>0. x # w /\ Active(x)
  BY DEF Active
<1>1. w # Start
  <2>1. CASE w = Start
    <3>1. x \in BranchStarts
      BY <1>0, <2>1, Names
    <3> QED BY <1>0, <2>1, <3>1, ForkIsFresh
  <2> QED BY <2>1
<1>2. w \in BranchStarts /\ w \in Joinable /\ at[w] \in ForksIn(w) /\ Inside(w, Start)
  BY <1>1, Names, ForkIsFresh
<1>3. \A c \in Branches(at[w]) : c \in BranchStarts /\ Under(c, w) /\ ~ Under(w, c)
  BY <1>2, ForkBelow DEF Joinable
<1>4. ~ Inside(w, x)
  BY <1>3 DEF Inside
<1>5. x # Start
  BY <1>2, <1>4
<1>6. x \in BranchStarts
  BY <1>5, Names
<1>7. x \in Joinable /\ at[x] \in ForksIn(x)
  BY <1>0, <1>6, ActiveJoinable DEF PlaceInv, ForksIn, TreeInv
<1>8. \A c \in Branches(at[w]) : Under(c, x)
  BY <1>7, ForkBelow
<1>9. Apart(w, x)
  BY <1>0, <1>1, <1>4, <1>6, ForkIsFresh
<1>10. PICK c \in Branches(at[w]) : TRUE
  BY ForkAssumption
<1> QED BY <1>2, <1>3, <1>6, <1>8, <1>9, <1>10, ApartLaws

(* What a handler of an executing stage, and a join, is to the tree.       *)
LEMMA StageStep ==
  ASSUME TypeOK, TreeInv, NEW w \in Walkers, thread[w] \in {"head", "executing"},
         \A x \in Walkers \ {w} : thread'[x] = thread[x] /\ at'[x] = at[x],
         thread'[w] # "forked"
  PROVE  TreeStep
<1>1. w \in Live /\ Waits[w] = {} /\ Waits' = [Waits EXCEPT ![w] = {}]
  BY WalkerWaits, WalkerGoes DEF Active
<1>2. Waits' = Waits
  BY <1>1, WalkersWait
<1>3. CASE thread'[w] \in {"head", "executing"}
  BY <1>1, <1>2, <1>3, WalkerGoes DEF TreeStep, Tree!vars
<1>4. CASE thread'[w] \notin {"head", "executing"}
  <2>1. Live' = Live \ {w}
    BY <1>4, WalkerGoes
  <2>2. w = Start => Live = {Start}
    BY <1>1, StartAlone
  <2>3. Tree!End(w)
    BY <1>1, <1>2, <2>1, <2>2 DEF Tree!End
  <2> QED BY <2>3 DEF TreeStep, Tree!Next
<1> QED BY <1>3, <1>4

LEMMA JoinStep ==
  ASSUME TypeOK, PlaceInv, TreeInv, NEW w \in Walkers, thread[w] = "forked", Joined(w),
         \A x \in Walkers \ {w} : thread'[x] = thread[x] /\ at'[x] = at[x],
         thread'[w] # "forked"
  PROVE  TreeStep
<1>1. w \in Live /\ Waits[w] = Branches(at[w]) /\ Waits' = [Waits EXCEPT ![w] = {}]
  BY WalkerWaits, WalkerGoes DEF Active
<1>2. at[w] \in Parallels /\ Branches(at[w]) # {} /\ Branches(at[w]) \subseteq BranchStarts
  BY Names, ForkAssumption DEF PlaceInv
<1>3. Branches(at[w]) \intersect Live = {}
  BY <1>2, Names, WalkerWaits DEF Joined, Active
<1>4. Live' = Live \/ Live' = Live \ {w}
  BY <1>1, WalkerGoes
<1>5. w = Start => Live = {Start}
  <2>1. ASSUME w = Start, NEW b \in Walkers, b # Start, Active(b)
        PROVE  FALSE
    <3>1. b \in BranchStarts /\ Inside(b, w)
      BY <2>1, Names DEF TreeInv, BelowStart
    <3> QED BY <2>1, <3>1, JoinedChildless DEF Childless
  <2> QED BY <1>1, <2>1, WalkersWait DEF Live
<1>6. Tree!Join(w)
  BY <1>1, <1>2, <1>3, <1>4, <1>5 DEF Tree!Join
<1> QED BY <1>6 DEF TreeStep, Tree!Next

LEMMA ForkStep ==
  ASSUME TypeOK, PlaceInv, TreeInv, NEW w \in Walkers, Fork(w)
  PROVE  TreeStep
<1>0. thread[w] = "executing" /\ at[w] \in Parallels /\ FanInOf[at[w]] # NoNode
  BY ForkStarts
<1>1. PICK go \in SUBSET Branches(at[w]) : Starts(w, go)
  BY ForkStarts
<1> DEFINE group == Branches(at[w])
<1>2. /\ group \subseteq BranchStarts /\ group \subseteq Walkers /\ w \notin group
      /\ \A c \in group : ~ Active(c)
  BY <1>0, <1>1, Names, ForkIsFresh DEF Starts
<1>3. w \in Live /\ Waits[w] = {} /\ group \intersect Live = {}
  BY <1>0, <1>2, WalkerWaits DEF Active
<1>4. ASSUME NEW x \in Walkers
      PROVE  Waits[x] \intersect group = {}
  <2>1. CASE thread[x] # "forked"
    BY <2>1, WalkerWaits
  <2>2. CASE thread[x] = "forked"
    <3>1. at[x] \in Parallels /\ at[x] # at[w] /\ Waits[x] = Branches(at[x])
      BY <1>0, <2>2, ForkIsItsOwn, WalkerWaits DEF PlaceInv
    <3> QED BY <1>0, <3>1, ForkAssumption
  <2> QED BY <2>1, <2>2
<1>5. \A x \in Walkers : Active(x)' <=> (Active(x) \/ x \in go)
  <2> TAKE x \in Walkers
  <2>1. CASE x = w
    BY <1>0, <1>1, <2>1 DEF Starts, Active
  <2>2. CASE x # w /\ x \in group
    BY <1>1, <1>2, <2>2 DEF Starts, Active
  <2>3. CASE x # w /\ x \notin group
    BY <1>1, <2>3 DEF Starts, Active
  <2> QED BY <2>1, <2>2, <2>3
<1>6. Live \subseteq Live' /\ Live' \subseteq Live \union group
  BY <1>5 DEF Live
<1>7. \A x \in Walkers : IF x = w THEN thread'[x] = "forked" /\ at'[x] = at[x]
                          ELSE IF x \in group THEN thread'[x] # "forked" /\ thread[x] # "forked"
                          ELSE thread'[x] = thread[x] /\ at'[x] = at[x]
  BY <1>1, <1>2 DEF Starts, Active
<1>8. Waits' = [x \in Walkers |-> IF x = w THEN group ELSE Waits[x]]
  BY <1>7 DEF Waits
<1>9. Waits' = [Waits EXCEPT ![w] = group]
  BY <1>8, WalkersWait
<1>10. Tree!Fork(w, group)
  BY <1>2, <1>3, <1>4, <1>6, <1>9 DEF Tree!Fork
<1> QED BY <1>0, <1>10 DEF TreeStep, Tree!Next

LEMMA StartStep ==
  ASSUME TreeInv, thread[Start] \notin {"head", "executing", "forked"}, thread'[Start] = "head",
         \A x \in Walkers \ {Start} : thread'[x] = thread[x] /\ at'[x] = at[x]
  PROVE  TreeStep
<1>1. Live = {} /\ Start \in Walkers
  BY StartAlone, Names, WalkerWaits DEF Active
<1>2. Live' = {Start} /\ Waits' = [Waits EXCEPT ![Start] = {}]
  BY <1>1, WalkerGoes
<1>3. Waits[Start] = {} /\ Waits' = Waits
  BY <1>1, <1>2, StartAlone, WalkersWait
<1>4. Tree!Enter
  BY <1>1, <1>2, <1>3 DEF Tree!Enter
<1> QED BY <1>4 DEF TreeStep, Tree!Next

LEMMA TreeSteps ==
  ASSUME TypeOK, PlaceInv, TreeInv, [Next]_vars
  PROVE  TreeStep
<1>0. /\ Start \in Walkers /\ thread \in [Walkers -> States] /\ at \in [Walkers -> Nodes]
  BY Names DEF TypeOK, States
<1>1. CASE StartRun \/ Resume
  <2>1. /\ thread' = [thread EXCEPT ![Start] = "head"]
        /\ \A x \in Walkers \ {Start} : at'[x] = at[x]
        /\ thread[Start] \notin {"head", "executing", "forked"}
    BY <1>0, <1>1 DEF StartRun, Resume, Set, walk
  <2> QED BY <1>0, <2>1, StartStep
<1>2. CASE StopCancelled \/ ReachExit
  <2>1. thread' = [thread EXCEPT ![Start] = "ended"] /\ at' = at /\ thread[Start] = "head"
    BY <1>2 DEF StopCancelled, ReachExit, EndRun, Set, walk
  <2> QED BY <1>0, <2>1, StageStep
<1>3. CASE \E w \in Walkers : Walk(w)
  <2>1. PICK w \in Walkers : Walk(w)
    BY <1>3
  <2>2. CASE BeginStage(w) \/ EndBranch(w)
    <3>1. /\ \E s \in {"executing", "done"} : thread' = [thread EXCEPT ![w] = s]
          /\ at' = at /\ thread[w] = "head"
      BY <2>2 DEF BeginStage, EndBranch, Set, walk
    <3> QED BY <1>0, <3>1, StageStep
  <2>3. ASSUME NEW o, NEW st, Handles(w, o, st), thread[w] = "executing"
        PROVE  TreeStep
    <3>1. thread'[w] # "forked"
      BY <2>3 DEF Handles
    <3> QED BY <2>3, <3>1, StageStep DEF Handles
  <2>4. ASSUME NEW o, NEW st, Handles(w, o, st), thread[w] = "forked", Joined(w)
        PROVE  TreeStep
    <3>1. thread'[w] # "forked"
      BY <2>4 DEF Handles
    <3> QED BY <2>4, <3>1, JoinStep DEF Handles
  <2> QED BY <2>1, <2>2, <2>3, <2>4, ForkStep, WalkHandles
<1>4. CASE Cancel \/ UNCHANGED vars
  <2>1. thread' = thread /\ at' = at
    BY <1>4 DEF Cancel, walk, vars
  <2>2. Live' = Live /\ Waits' = Waits
    BY <2>1 DEF Live, Waits, Active
  <2> QED BY <2>2 DEF TreeStep, Tree!vars
<1>5. CASE Crash
  <2>1. \A w \in Walkers : thread'[w] \in {"idle", "crashed"}
    BY <1>5 DEF Crash
  <2>2. Live' = {} /\ Waits' = [w \in Walkers |-> {}]
    BY <2>1 DEF Live, Waits, Active
  <2>3. Start \in Live
    BY <1>0, <1>5, WalkerWaits DEF Crash, Alive, Active
  <2> QED BY <2>2, <2>3 DEF TreeStep, Tree!Next, Tree!Crash
<1> QED BY <1>1, <1>2, <1>3, <1>4, <1>5 DEF Next

(* For every graph with nested forks: the threads of parallel nodes are a  *)
(* tree at all times. A fork has one thread that waits for it, the threads *)
(* it started are its own, it goes on when the last of them has ended, and *)
(* the engine's thread is the last to end.                                 *)
THEOREM WalkersImplementForkJoin == Spec => ImplementsForkJoin
<1>1. Init => Tree!Init
  BY DEF Init, Tree!Init, Live, Waits, Active
<1> QED BY <1>1, InitTypes, InitTree, NextTypes, NextPlaces, NextTree, TreeSteps, PTL
        DEF Spec, ImplementsForkJoin, Tree!Spec, TreeStep
=============================================================================
