------------------------ MODULE PipelineEngineProofs ------------------------
(***************************************************************************)
(* Theorems about PipelineEngine, for every graph, every set of handler    *)
(* outcomes and every limit that satisfies the assumptions of the module.  *)
(***************************************************************************)
EXTENDS PipelineEngine, WellFoundedInduction, FiniteSetTheorems, TLAPS

(* About edge selection, for any edges, outcome and context.               *)

(* The least-number principle, as well-foundedness of a set of pairs: the  *)
(* theorem of the library is stated with an operator.                      *)
Less == {p \in Nat \X Nat : p[1] < p[2]}

LEMMA LessIsWellFounded == IsWellFoundedOn(Less, Nat)
BY NatLessThanWellFounded DEF OpToRel, Less

LEMMA LeastElement ==
  ASSUME NEW S \in SUBSET Nat, S # {}
  PROVE  \E x \in S : \A y \in S : x <= y
<1>1. PICK x \in S : \A y \in S : <<y, x>> \notin Less
  BY LessIsWellFounded, WFMin
<1>2. \A y \in S : ~ (y < x)
  BY <1>1 DEF Less
<1> QED BY <1>2

LEMMA MinIsMember ==
  ASSUME NEW S \in SUBSET Nat, S # {}
  PROVE  Min(S) \in S
BY LeastElement DEF Min

(* Some position of a non-empty set leads to the first node in the order   *)
(* of the ids: the lexical tiebreak always yields an edge.                 *)
LEMMA TiebreakYields ==
  ASSUME NEW edges, NEW rank, NEW F \in SUBSET DOMAIN edges, F # {},
         \A i \in DOMAIN edges : rank[edges[i].to] \in Nat
  PROVE  LexicallyFirst(edges, F, rank) # {}
<1> DEFINE ranks == {rank[edges[i].to] : i \in F}
<1>1. ranks \in SUBSET Nat /\ ranks # {}
  OBVIOUS
<1>2. PICK x \in ranks : \A y \in ranks : x <= y
  BY <1>1, LeastElement
<1> QED BY <1>2 DEF LexicallyFirst

(* Edge selection fails, or yields an edge that passed the condition       *)
(* filter: EdgeSelector::select never returns an edge it filtered out.     *)
LEMMA SelectYieldsFiltered ==
  ASSUME NEW edges, NEW rank, NEW o, NEW cx,
         DOMAIN edges \subseteq Nat \ {0},
         \A i \in DOMAIN edges : rank[edges[i].to] \in Nat
  PROVE  \/ Select(edges, o, cx, rank) = 0
         \/ Select(edges, o, cx, rank) \in Filter(edges, o, cx)
<1> DEFINE F == Filter(edges, o, cx)
           byLabel == LabelMatches(edges, F, o)
           bySuggestion == Suggested(edges, F, o)
           top == Heaviest(edges, F)
           first == LexicallyFirst(edges, F, rank)
<1>1. F \in SUBSET DOMAIN edges
  BY DEF Filter
<1>2. F \in SUBSET Nat
  BY <1>1
<1>3. CASE F = {}
  BY <1>3 DEF Select
<1>4. CASE F # {}
  <2>1. Min(F) \in F
    BY <1>2, <1>4, MinIsMember
  <2>2. byLabel # {} => Min(byLabel) \in F
    <3>1. byLabel \in SUBSET F
      BY DEF LabelMatches
    <3> QED BY <3>1, <1>2, MinIsMember
  <2>3. bySuggestion # {} => Min(bySuggestion) \in F
    <3>1. bySuggestion \in SUBSET F
      BY DEF Suggested
    <3> QED BY <3>1, <1>2, MinIsMember
  <2>4. Cardinality(top) = 1 => Min(top) \in F
    <3>1. top \in SUBSET F
      BY DEF Heaviest
    <3>2. Cardinality(top) = 1 => top # {}
      BY FS_EmptySet
    <3> QED BY <3>1, <3>2, <1>2, MinIsMember
  <2>5. Min(first) \in F
    <3>1. first \in SUBSET F
      BY DEF LexicallyFirst
    <3>2. first # {}
      BY <1>1, <1>4, TiebreakYields
    <3> QED BY <3>1, <3>2, <1>2, MinIsMember
  <2>6. CASE Cardinality(F) = 1
    BY <1>4, <2>1, <2>6 DEF Select
  <2>7. CASE Cardinality(F) # 1
    <3>1. Select(edges, o, cx, rank) =
            Min(IF byLabel # {} THEN byLabel
                ELSE IF bySuggestion # {} THEN bySuggestion
                ELSE IF Cardinality(top) = 1 THEN top ELSE first)
      BY <1>4, <2>7 DEF Select
    <3> QED BY <3>1, <2>2, <2>3, <2>4, <2>5
  <2> QED BY <2>6, <2>7
<1> QED BY <1>3, <1>4

-----------------------------------------------------------------------------
(* What the assumption on the graph says of one edge.                      *)
LEMMA EdgeType ==
  ASSUME NEW n \in Nodes
  PROVE  /\ DOMAIN Out[n] \subseteq Nat \ {0}
         /\ \A i \in DOMAIN Out[n] : Out[n][i] \in Edges /\ Out[n][i].to \in Nodes
<1>1. Out[n] \in Seq(Edges)
  BY GraphAssumption
<1>2. DOMAIN Out[n] = 1..Len(Out[n]) /\ Len(Out[n]) \in Nat
  BY <1>1
<1>3. \A i \in DOMAIN Out[n] : Out[n][i] \in Edges
  BY <1>1, <1>2
<1> QED BY <1>2, <1>3 DEF Edges

(* The same for what the engine asks of it: an edge of the node, a node of *)
(* the graph.                                                              *)
LEMMA NextEdgeType ==
  ASSUME NEW n \in Nodes, NEW o, NEW cx
  PROVE  /\ NextEdge(n, o, cx) # 0 => Out[n][NextEdge(n, o, cx)].to \in Nodes
         /\ Target(n, o, cx) \in Nodes \union {NoNode}
<1>1. NextEdge(n, o, cx) = 0 \/ NextEdge(n, o, cx) \in DOMAIN Out[n]
  <2>1. \A i \in DOMAIN Out[n] : Rank[Out[n][i].to] \in Nat
    BY EdgeType, LimitAssumption
  <2> QED BY <2>1, EdgeType, SelectYieldsFiltered DEF NextEdge, Filter
<1> QED BY <1>1, EdgeType DEF Target, SelectTo, NextEdge

LEMMA ResumeTargetType ==
  ASSUME NEW cp \in Checkpoints
  PROVE  ResumeTarget(cp) \in Nodes
BY NextEdgeType DEF ResumeTarget, Checkpoints

-----------------------------------------------------------------------------
LEMMA ConditionalLabelType ==
  ASSUME NEW n \in Nodes, NEW cx
  PROVE  ConditionalLabel(n, cx) \in Labels
<1> DEFINE holds == {i \in DOMAIN Out[n] : /\ Out[n][i].cond # {} /\ Out[n][i].parses
                                           /\ Evaluate(Out[n][i].cond, ParentOutcome(cx), cx)}
           default == {i \in DOMAIN Out[n] : /\ Out[n][i].cond = {} /\ Out[n][i].parses
                                             /\ Out[n][i].label # ""}
<1>1. holds \in SUBSET Nat /\ default \in SUBSET Nat
  BY EdgeType
<1>2. holds # {} => Min(holds) \in DOMAIN Out[n]
  BY <1>1, MinIsMember
<1>3. default # {} => Min(default) \in DOMAIN Out[n]
  BY <1>1, MinIsMember
<1>4. \A i \in DOMAIN Out[n] : Out[n][i].label \in Labels
  BY EdgeType DEF Edges
<1>5. ConditionalLabel(n, cx) = IF holds # {} THEN Out[n][Min(holds)].label
                                ELSE IF default # {} THEN Out[n][Min(default)].label ELSE ""
  BY Zenon DEF ConditionalLabel
<1> HIDE DEF holds, default
<1> QED BY <1>2, <1>3, <1>4, <1>5, GraphAssumption

(* Every outcome the loop handles is one.                                  *)
LEMMA ReturnedType ==
  ASSUME TypeOK, cur \in Nodes
  PROVE  Returned \subseteq HandlerOutcomes /\ Interrupted \in HandlerOutcomes
<1>1. Outcomes[cur] \subseteq HandlerOutcomes
  BY LimitAssumption
<1>2. Succeeded \in HandlerOutcomes /\ Interrupted \in HandlerOutcomes
  <2>1. "" \in Outputs /\ "" \in Labels
    BY LimitAssumption, GraphAssumption
  <2>2. <<>> \in Seq(Nodes)
    OBVIOUS
  <2> QED BY <2>1, <2>2 DEF Succeeded, Interrupted, HandlerOutcomes, Statuses, Satisfying
<1>3. [Succeeded EXCEPT !.label = ConditionalLabel(cur, ctx)] \in HandlerOutcomes
  BY <1>2, ConditionalLabelType DEF Succeeded, HandlerOutcomes
<1> QED BY <1>1, <1>2, <1>3 DEF Returned

(* A goal gate the check finds unsatisfied is one of the graph's.          *)
LEMMA FirstUnsatisfiedType ==
  ASSUME Unsatisfied # {}
  PROVE  FirstUnsatisfied \in Unsatisfied
<1> DEFINE places == {FileOrder[g] : g \in Unsatisfied}
<1>1. Unsatisfied \subseteq Nodes
  BY GraphAssumption DEF Unsatisfied
<1>2. places \in SUBSET Nat /\ places # {}
  <2>1. \A g \in Nodes : FileOrder[g] \in Nat
    BY LimitAssumption
  <2> QED BY <1>1, <2>1
<1>3. PICK x \in places : \A y \in places : x <= y
  BY <1>2, LeastElement
<1>4. \E g \in Unsatisfied : \A h \in Unsatisfied : FileOrder[g] <= FileOrder[h]
  BY <1>3
<1> QED BY <1>4 DEF FirstUnsatisfied

-----------------------------------------------------------------------------
(* The state the invariants range over has its types after every step.     *)
LEMMA EmptyType ==
  /\ EmptyContext \in Contexts
  /\ NoOutcomes \in [Nodes -> Statuses \union {"none"}]
  /\ NoSigs \in [Nodes -> [Outputs -> Nat]] /\ NoAttempts \in [Nodes -> Nat]
BY GraphAssumption DEF EmptyContext, Contexts, NoOutcomes, NoSigs, NoAttempts

LEMMA InitTypeOK == Init => TypeOK
<1> SUFFICES ASSUME Init PROVE TypeOK
  OBVIOUS
<1>1. ran \in [Nodes -> SUBSET Completions]
  BY DEF Init
<1>2. MaxResumes \in Nat /\ resumes = 0
  BY LimitAssumption DEF Init
<1>3. resumes \in 0..MaxResumes
  BY <1>2
<1>4. ctx \in Contexts /\ outcomes \in [Nodes -> Statuses \union {"none"}]
      /\ sigs \in [Nodes -> [Outputs -> Nat]] /\ attempts \in [Nodes -> Nat]
  BY EmptyType DEF Init
<1> QED BY <1>1, <1>3, <1>4 DEF Init, TypeOK, Running

(* Steps of the loop itself, from its head to the return of a stage.       *)
LEMMA LoopHeadTypeOK ==
  ASSUME TypeOK, LoopHead
  PROVE  TypeOK'
<1> USE DEF Running, outside, memory, EndRun
<1>1. CASE BeginStage
  BY <1>1 DEF TypeOK, BeginStage
<1>2. CASE EnterPause
  BY <1>2 DEF TypeOK, EnterPause
<1>3. CASE LeavePause
  BY <1>3 DEF TypeOK, LeavePause
<1>4. CASE StopCancelled
  BY <1>4 DEF TypeOK, StopCancelled
<1>5. CASE ReachExit
  <2>1. completed' \subseteq Nodes /\ outcomes' \in [Nodes -> Statuses \union {"none"}]
    BY <1>5, GraphAssumption DEF TypeOK, ReachExit, RecordedCompletion, Statuses
  <2>2. checkpoint' \in Checkpoints
    BY <1>5, <2>1, GraphAssumption DEF TypeOK, ReachExit, Snapshot, Checkpoints
  <2>3. ran' \in [Nodes -> SUBSET Completions]
    BY <1>5, GraphAssumption DEF TypeOK, ReachExit, Ran, Completions, Satisfying
  <2> QED BY <1>5, <2>1, <2>2, <2>3 DEF TypeOK, ReachExit
<1>6. CASE CheckGates
  <2>1. Unsatisfied # {} => FirstUnsatisfied \in Nodes
    BY FirstUnsatisfiedType, GraphAssumption DEF Unsatisfied
  <2>2. cur' \in Nodes
    BY <1>6, <2>1, GraphAssumption DEF TypeOK, CheckGates
  <2> QED BY <1>6, <2>2 DEF TypeOK, CheckGates
<1> QED BY <1>1, <1>2, <1>3, <1>4, <1>5, <1>6 DEF LoopHead

(* What a settled outcome leaves in the context and in the checkpoint.     *)
LEMMA ContextAfterType ==
  ASSUME TypeOK, cur \in Nodes, NEW o \in HandlerOutcomes, o.status \in Statuses
  PROVE  ContextAfter(o) \in Contexts
BY DEF TypeOK, ContextAfter, Contexts, HandlerOutcomes

LEMMA SettledType ==
  ASSUME TypeOK, NEW o \in HandlerOutcomes, Accepted(o)
  PROVE  Settled(o) \in HandlerOutcomes /\ Settled(o).status \in Completions
<1>1. CASE o.status = "RETRY"
  <2>1. Settled(o) = [o EXCEPT !.status = "PARTIAL_SUCCESS"]
    BY <1>1 DEF Settled
  <2> QED BY <2>1 DEF HandlerOutcomes, Statuses, Completions, Satisfying
<1>2. CASE o.status # "RETRY"
  BY <1>2 DEF Settled, Accepted
<1> QED BY <1>1, <1>2

LEMMA RememberingType ==
  ASSUME TypeOK, cur \in Nodes, NEW s \in HandlerOutcomes, s.status \in Completions,
         Remembering(s)
  PROVE  /\ completed' \subseteq Nodes /\ ctx' \in Contexts
         /\ outcomes' \in [Nodes -> Statuses \union {"none"}]
<1>1. s.status \in Statuses
  BY DEF Completions, Satisfying, Statuses
<1>2. completed' \subseteq Nodes
  BY DEF TypeOK, Remembering, RecordedCompletion
<1>3. outcomes' \in [Nodes -> Statuses \union {"none"}]
  BY <1>1 DEF TypeOK, Remembering
<1>4. ctx' \in Contexts
  BY <1>1, ContextAfterType DEF Remembering
<1> QED BY <1>2, <1>3, <1>4

LEMMA CompletingType ==
  ASSUME TypeOK, cur \in Nodes, NEW s \in HandlerOutcomes, s.status \in Completions,
         Completing(s)
  PROVE  /\ checkpoint' \in Checkpoints
         /\ ran' \in [Nodes -> SUBSET Completions]
<1>1. ContextAfter(s) \in Contexts
  BY ContextAfterType DEF Completions, Satisfying, Statuses
<1>2. RecordedCompletion(cur, s.status) \subseteq Nodes
  BY DEF TypeOK, RecordedCompletion
<1>3. checkpoint' \in Checkpoints
  BY <1>1, <1>2 DEF Completing, SavedOnCompletion, Snapshot, Checkpoints
<1>4. ran' \in [Nodes -> SUBSET Completions]
  BY DEF TypeOK, Completing, Ran
<1> QED BY <1>3, <1>4

LEMMA CompleteTypeOK ==
  ASSUME TypeOK, cur \in Nodes, NEW o \in HandlerOutcomes, Complete(o)
  PROVE  TypeOK'
<1> DEFINE s == Settled(o)
<1>1. Accepted(o) /\ Completing(s)
  BY DEF Complete, CompleteAndAdvance, CompleteAndRestart, CompleteAndStrand
<1>2. s \in HandlerOutcomes /\ s.status \in Completions
  BY <1>1, SettledType
<1>3. /\ checkpoint' \in Checkpoints
      /\ ran' \in [Nodes -> SUBSET Completions]
  BY <1>1, <1>2, CompletingType
<1>4. EdgeAfter(s) # 0 => Out[cur][EdgeAfter(s)].to \in Nodes
  BY NextEdgeType DEF EdgeAfter
<1>5. Remembering(s) => /\ completed' \subseteq Nodes /\ ctx' \in Contexts
                        /\ outcomes' \in [Nodes -> Statuses \union {"none"}]
  BY <1>2, RememberingType
<1> HIDE DEF s
<1>6. /\ cur' \in Nodes /\ phase' \in {"head", "ended"}
      /\ result' \in {"none", "ok", "failed"}
  <2>1. CASE CompleteAndAdvance(o)
    BY <2>1, <1>4 DEF CompleteAndAdvance, TypeOK, s
  <2>2. CASE CompleteAndRestart(o)
    BY <2>2, <1>4 DEF CompleteAndRestart, TypeOK, s
  <2>3. CASE CompleteAndStrand(o)
    BY <2>3 DEF CompleteAndStrand, EndRun
  <2> QED BY <2>1, <2>2, <2>3 DEF Complete
<1>7. /\ completed' \subseteq Nodes /\ ctx' \in Contexts
      /\ outcomes' \in [Nodes -> Statuses \union {"none"}]
  BY <1>5, EmptyType DEF Complete, CompleteAndAdvance, CompleteAndRestart, CompleteAndStrand, s
<1> QED
  BY <1>1, <1>3, <1>6, <1>7 DEF TypeOK, Completing, outside, Running

LEMMA FailureTargetType ==
  ASSUME cur \in Nodes, NEW o, NEW cx
  PROVE  FailureTarget(cur, o, cx) \in Nodes \union {NoNode}
BY NextEdgeType, GraphAssumption DEF FailureTarget

LEMMA RouteFailureTypeOK ==
  ASSUME TypeOK, cur \in Nodes, NEW o, NEW cx \in Contexts, RouteFailure(o, cx),
         ctx' = cx, sigs' \in [Nodes -> [Outputs -> Nat]],
         pending' = NothingPending \/ pending' \in HandlerOutcomes
  PROVE  TypeOK'
<1>1. checkpoint' \in Checkpoints
  BY DEF TypeOK, RouteFailure, Snapshot, Checkpoints
<1>2. /\ cur' \in Nodes /\ phase' \in {"head", "ended"}
      /\ result' \in {"none", "ok", "failed"}
  BY FailureTargetType DEF TypeOK, RouteFailure, EndRun
<1> QED BY <1>1, <1>2 DEF TypeOK, RouteFailure, outside, Running

LEMMA CountedType ==
  ASSUME TypeOK, cur \in Nodes, NEW o \in HandlerOutcomes
  PROVE  Counted(o) \in [Nodes -> [Outputs -> Nat]]
<1>1. o.out \in Outputs
  BY DEF HandlerOutcomes
<1>2. sigs[cur] \in [Outputs -> Nat]
  BY DEF TypeOK
<1>3. [sigs[cur] EXCEPT ![o.out] = @ + 1] \in [Outputs -> Nat]
  BY <1>1, <1>2
<1> QED BY <1>3 DEF TypeOK, Counted

LEMMA HandlerReturnsTypeOK ==
  ASSUME TypeOK, HandlerReturns
  PROVE  TypeOK'
<1>1. cur \in Nodes /\ phase = "executing"
  BY DEF TypeOK, HandlerReturns
<1>2. PICK o \in HandlerOutcomes :
        \/ HandlerError(o) \/ RetryStage(o) \/ RetriesExhausted(o)
        \/ Complete(o)
        \/ CycleDetected(o) \/ StartTroubleshooter(o) \/ FailStage(o)
  BY <1>1, ReturnedType DEF HandlerReturns
<1>3. o.status = "FAILURE" => ContextAfter(o) \in Contexts
  BY <1>1, ContextAfterType DEF Statuses
<1> USE DEF Running, outside, memory, EndRun
<1>4. CASE HandlerError(o)
  BY <1>1, <1>4 DEF TypeOK, HandlerError
<1>5. CASE RetryStage(o)
  <2>1. attempts' \in [Nodes -> Nat]
    BY <1>1, <1>5 DEF TypeOK, RetryStage
  <2> QED BY <1>1, <1>5, <2>1 DEF TypeOK, RetryStage
<1>6. CASE RetriesExhausted(o)
  BY <1>1, <1>6 DEF TypeOK, RetriesExhausted
<1>7. CASE Complete(o)
  BY <1>1, <1>7, CompleteTypeOK
<1>8. CASE CycleDetected(o)
  <2>1. checkpoint' \in Checkpoints
    BY <1>1, <1>3, <1>8 DEF TypeOK, CycleDetected, Snapshot, Checkpoints
  <2>2. sigs' \in [Nodes -> [Outputs -> Nat]]
    BY <1>1, <1>8, CountedType DEF CycleDetected
  <2> QED BY <1>1, <1>3, <1>8, <2>1, <2>2 DEF TypeOK, CycleDetected
<1>9. CASE StartTroubleshooter(o)
  <2>1. sigs' \in [Nodes -> [Outputs -> Nat]]
    BY <1>1, <1>9, CountedType DEF StartTroubleshooter
  <2> QED BY <1>1, <1>3, <1>9, <2>1 DEF TypeOK, StartTroubleshooter
<1>10. CASE FailStage(o)
  <2>1. sigs' \in [Nodes -> [Outputs -> Nat]] /\ UNCHANGED pending
    BY <1>1, <1>10, CountedType DEF FailStage
  <2> QED BY <1>1, <1>3, <1>10, <2>1, RouteFailureTypeOK DEF TypeOK, FailStage
<1> QED BY <1>2, <1>4, <1>5, <1>6, <1>7, <1>8, <1>9, <1>10

LEMMA TriedType ==
  ASSUME TypeOK, cur \in Nodes
  PROVE  Tried \in Contexts
<1>1. ctx \in Contexts /\ ctx.tries \in [Nodes -> Nat]
  BY DEF TypeOK, Contexts
<1>2. [ctx.tries EXCEPT ![cur] = @ + 1] \in [Nodes -> Nat]
  BY <1>1
<1>3. Tried = [ctx EXCEPT !.tries = [ctx.tries EXCEPT ![cur] = @ + 1]]
  BY <1>1 DEF Tried
<1> QED BY <1>1, <1>2, <1>3 DEF Contexts

LEMMA TroubleshooterReturnsTypeOK ==
  ASSUME TypeOK, TroubleshooterReturns
  PROVE  TypeOK'
<1>1. cur \in Nodes
  BY DEF TypeOK, TroubleshooterReturns, Promote, RerunAfterFix, Escalate, FailAfterAdvice
<1>2. Tried \in Contexts /\ ctx \in Contexts
  BY <1>1, TriedType DEF TypeOK
<1> USE DEF Running, outside
<1>3. CASE Promote
  <2> DEFINE cx == [Tried EXCEPT !.last = "SUCCESS"]
  <2>1. cx \in Contexts
    BY <1>2 DEF Contexts, Statuses
  <2>2. completed' \subseteq Nodes /\ outcomes' \in [Nodes -> Statuses \union {"none"}]
    BY <1>1, <1>3 DEF TypeOK, Promote, RecordedCompletion, Statuses
  <2>3. checkpoint' \in Checkpoints
    BY <1>1, <1>3, <2>1, <2>2 DEF Promote, Snapshot, Checkpoints
  <2>4. ran' \in [Nodes -> SUBSET Completions]
    BY <1>3 DEF TypeOK, Promote, Ran, Completions, Satisfying
  <2>5. /\ cur' \in Nodes /\ phase' \in {"head", "ended"}
        /\ result' \in {"none", "ok", "failed"}
    BY <1>1, <1>3, NextEdgeType DEF TypeOK, Promote, EndRun
  <2> QED BY <1>3, <2>1, <2>2, <2>3, <2>4, <2>5 DEF TypeOK, Promote
<1>4. CASE RerunAfterFix
  <2>1. checkpoint' \in Checkpoints
    BY <1>1, <1>2, <1>4 DEF TypeOK, RerunAfterFix, Snapshot, Checkpoints
  <2> QED BY <1>1, <1>2, <1>4, <2>1 DEF TypeOK, RerunAfterFix
<1>5. CASE Escalate
  <2>1. ctx' \in Contexts
    BY <1>2, <1>5 DEF Escalate
  <2>2. checkpoint' \in Checkpoints
    BY <1>1, <1>5, <2>1 DEF TypeOK, Escalate, Snapshot, Checkpoints
  <2> QED BY <1>1, <1>5, <2>1, <2>2 DEF TypeOK, Escalate, EndRun
<1>6. CASE FailAfterAdvice
  <2>1. /\ RouteFailure(pending, Tried) /\ ctx' = Tried
        /\ sigs' \in [Nodes -> [Outputs -> Nat]] /\ pending' = NothingPending
    BY <1>6 DEF TypeOK, FailAfterAdvice
  <2> QED BY <1>1, <1>2, <2>1, RouteFailureTypeOK
<1> QED BY <1>3, <1>4, <1>5, <1>6 DEF TroubleshooterReturns

-----------------------------------------------------------------------------
(* Every step of a run, its resumption, its operator and its death keeps   *)
(* the types.                                                              *)
LEMMA NextTypeOK ==
  ASSUME TypeOK, [Next]_vars
  PROVE  TypeOK'
<1> USE DEF Running, outside, memory
<1>1. CASE StartRun
  BY <1>1, EmptyType, GraphAssumption DEF TypeOK, StartRun
<1>2. CASE Resume
  <2>1. checkpoint \in Checkpoints
    BY <1>2 DEF TypeOK, Resume
  <2>2. cur' \in Nodes
    BY <1>2, <2>1, ResumeTargetType DEF Resume
  <2>3. completed' \subseteq Nodes /\ ctx' \in Contexts
    BY <1>2, <2>1 DEF Resume, Checkpoints
  <2>4. outcomes' \in [Nodes -> Statuses \union {"none"}]
    BY <1>2 DEF Resume, Statuses
  <2>5. resumes' \in 0..MaxResumes
    <3>1. MaxResumes \in Nat
      BY LimitAssumption
    <3>2. resumes \in 0..MaxResumes /\ resumes < MaxResumes /\ resumes' = resumes + 1
      BY <1>2 DEF TypeOK, Resume
    <3> QED BY <3>1, <3>2
  <2> QED BY <1>2, <2>1, <2>2, <2>3, <2>4, <2>5, EmptyType DEF TypeOK, Resume
<1>3. CASE LoopHead
  BY <1>3, LoopHeadTypeOK
<1>4. CASE HandlerReturns
  BY <1>4, HandlerReturnsTypeOK
<1>5. CASE InterruptInteractive
  <2>1. cur \in Nodes
    BY <1>5 DEF TypeOK, InterruptInteractive
  <2> QED BY <1>5, <2>1, ReturnedType, CompleteTypeOK DEF InterruptInteractive
<1>6. CASE TroubleshooterReturns
  BY <1>6, TroubleshooterReturnsTypeOK
<1>7. CASE Cancel
  BY <1>7 DEF TypeOK, Cancel
<1>8. CASE TogglePause
  BY <1>8 DEF TypeOK, TogglePause
<1>9. CASE Crash
  BY <1>9, EmptyType DEF TypeOK, Crash
<1>10. CASE UNCHANGED vars
  BY <1>10 DEF TypeOK, vars
<1> QED
  BY <1>1, <1>2, <1>3, <1>4, <1>5, <1>6, <1>7, <1>8, <1>9, <1>10 DEF Next

(* Type correctness: whatever the graph, the outcomes and the limits, the  *)
(* engine never runs without a current node, and never writes a checkpoint *)
(* that names a node the graph lacks.                                      *)
THEOREM TypeCorrect == Spec => []TypeOK
<1>1. Init => TypeOK
  BY InitTypeOK
<1>2. TypeOK /\ [Next]_vars => TypeOK'
  BY NextTypeOK
<1> QED BY <1>1, <1>2, PTL DEF Spec

-----------------------------------------------------------------------------
(***************************************************************************)
(* The inductive invariant behind the safety properties. What a goal gate  *)
(* is judged by is node_outcomes_, so it must hold of every outcome in it  *)
(* that it was earned by a completion; and resume() rebuilds it from the   *)
(* checkpoint, so the nodes the checkpoint names must have completed too.  *)
(***************************************************************************)
OutcomesEarned ==
  \A n \in Nodes : outcomes[n] \in Satisfying => ran[n] \intersect Earned # {}

Safe == CompletedReallyRan /\ CompletionIsDurable /\ GateHonoured /\ OutcomesEarned

(* A step that completes no node keeps it, whatever it saves, if a run it  *)
(* ends well has its goal gates satisfied.                                 *)
LEMMA NoCompletionKeepsSafe ==
  ASSUME TypeOK, Safe, UNCHANGED <<ran, resumes, completed, outcomes>>,
         \/ UNCHANGED checkpoint
         \/ \E n \in Nodes, cx \in Contexts : checkpoint' = Snapshot(n, completed, cx),
         result' # "ok" \/ result' = result \/ Unsatisfied = {}
  PROVE  Safe'
<1>1. CompletedReallyRan'
  BY DEF Safe, CompletedReallyRan, Snapshot
<1>2. CompletionIsDurable'
  <2>1. CASE UNCHANGED checkpoint
    BY <2>1 DEF Safe, CompletionIsDurable
  <2>2. CASE \E n \in Nodes, cx \in Contexts : checkpoint' = Snapshot(n, completed, cx)
    <3>1. checkpoint' \in Checkpoints /\ checkpoint'.completed = completed
      BY <2>2 DEF TypeOK, Snapshot, Checkpoints
    <3> QED BY <3>1, CheckpointAssumption DEF CompletionIsDurable
  <2> QED BY <2>1, <2>2
<1>3. GateHonoured'
  <2>1. CASE Unsatisfied = {}
    BY <2>1, GraphAssumption
       DEF Safe, OutcomesEarned, Unsatisfied, GateHonoured, Earned
  <2>2. CASE result' # "ok" \/ result' = result
    BY <2>2 DEF Safe, GateHonoured, Earned
  <2> QED BY <2>1, <2>2
<1>4. OutcomesEarned'
  BY DEF Safe, OutcomesEarned, Earned
<1> QED BY <1>1, <1>2, <1>3, <1>4 DEF Safe

(* So does a step that completes a node, if its checkpoint says so.        *)
LEMMA CompletionKeepsSafe ==
  ASSUME TypeOK, Safe, NEW n \in Nodes, NEW status \in Completions, NEW cx \in Contexts,
         ran' = Ran(n, status), UNCHANGED resumes,
         checkpoint' = Snapshot(n, completed \union {n}, cx),
         completed' \in {completed \union {n}, {}},
         outcomes' \in {[outcomes EXCEPT ![n] = status], NoOutcomes},
         result' # "ok" \/ result' = result
  PROVE  Safe'
<1>1. \A m \in Nodes : ran[m] \subseteq ran'[m]
  BY DEF TypeOK, Ran
<1>2. status \in ran'[n]
  BY DEF TypeOK, Ran
<1>3. checkpoint' \in Checkpoints /\ checkpoint'.completed = completed \union {n}
  BY DEF TypeOK, Snapshot, Checkpoints
<1>4. CompletedReallyRan'
  <2>1. \A m \in completed \union {n} : ran'[m] # {}
    BY <1>1, <1>2 DEF TypeOK, Safe, CompletedReallyRan
  <2> QED BY <1>3, <2>1 DEF CompletedReallyRan
<1>5. CompletionIsDurable'
  BY <1>3, CheckpointAssumption DEF CompletionIsDurable
<1>6. GateHonoured'
  <2> SUFFICES ASSUME result = "ok", NEW g \in GoalGates
               PROVE  ran'[g] \intersect Earned # {}
    BY DEF GateHonoured, Earned
  <2>1. ran[g] \intersect Earned # {}
    BY DEF Safe, GateHonoured
  <2> QED BY <1>1, <2>1, GraphAssumption
<1>7. OutcomesEarned'
  <2> SUFFICES ASSUME NEW m \in Nodes, outcomes'[m] \in Satisfying
               PROVE  ran'[m] \intersect Earned # {}
    BY DEF OutcomesEarned, Earned
  <2>1. outcomes' # NoOutcomes
    BY DEF NoOutcomes, Satisfying
  <2>2. CASE m = n
    <3>1. status \in Satisfying
      BY <2>1, <2>2 DEF TypeOK
    <3> QED BY <1>2, <2>2, <3>1 DEF Earned, Completions
  <2>3. CASE m # n
    <3>1. outcomes[m] \in Satisfying
      BY <2>1, <2>3 DEF TypeOK
    <3>2. ran[m] \intersect Earned # {}
      BY <3>1 DEF Safe, OutcomesEarned
    <3> QED BY <1>1, <3>2
  <2> QED BY <2>2, <2>3
<1> QED BY <1>4, <1>5, <1>6, <1>7 DEF Safe

LEMMA LoopHeadSafe ==
  ASSUME TypeOK, Safe, LoopHead
  PROVE  Safe'
<1> USE DEF memory, outside, EndRun
<1>1. CASE BeginStage \/ EnterPause \/ LeavePause \/ StopCancelled
  BY <1>1, NoCompletionKeepsSafe DEF BeginStage, EnterPause, LeavePause, StopCancelled
<1>2. CASE ReachExit
  <2>1. /\ completed' = completed \union {Exit} /\ UNCHANGED <<resumes, result>>
        /\ ran' = Ran(Exit, "SUCCESS") /\ outcomes' = [outcomes EXCEPT ![Exit] = "SUCCESS"]
        /\ checkpoint' = Snapshot(Exit, completed \union {Exit}, ctx)
    BY <1>2 DEF ReachExit, RecordedCompletion
  <2>2. "SUCCESS" \in Completions /\ Exit \in Nodes /\ ctx \in Contexts
    BY GraphAssumption DEF TypeOK, Completions, Satisfying
  <2> QED BY <2>1, <2>2, CompletionKeepsSafe
<1>3. CASE CheckGates
  BY <1>3, NoCompletionKeepsSafe DEF CheckGates
<1> QED BY <1>1, <1>2, <1>3 DEF LoopHead

LEMMA CompleteSafe ==
  ASSUME TypeOK, Safe, cur \in Nodes, NEW o \in HandlerOutcomes, Complete(o)
  PROVE  Safe'
<1> DEFINE s == Settled(o)
<1>1. Accepted(o) /\ Completing(s)
  BY DEF Complete, CompleteAndAdvance, CompleteAndRestart, CompleteAndStrand
<1>2. s \in HandlerOutcomes /\ s.status \in Completions
  BY <1>1, SettledType
<1>3. Remembering(s) \/ (completed' = {} /\ outcomes' = NoOutcomes)
  BY DEF Complete, CompleteAndAdvance, CompleteAndRestart, CompleteAndStrand
<1>4. result' # "ok" \/ result' = result
  BY DEF Complete, CompleteAndAdvance, CompleteAndRestart, CompleteAndStrand, EndRun
<1> HIDE DEF s
<1>5. RecordedCompletion(cur, s.status) = completed \union {cur}
  BY <1>2 DEF RecordedCompletion, Completions, Satisfying
<1>6. ContextAfter(s) \in Contexts
  BY <1>2, ContextAfterType DEF Completions, Satisfying, Statuses
<1>7. /\ ran' = Ran(cur, s.status) /\ UNCHANGED resumes
      /\ checkpoint' = Snapshot(cur, completed \union {cur}, ContextAfter(s))
  BY <1>1, <1>5 DEF Completing, SavedOnCompletion, outside
<1>8. /\ completed' \in {completed \union {cur}, {}}
      /\ outcomes' \in {[outcomes EXCEPT ![cur] = s.status], NoOutcomes}
  BY <1>3, <1>5 DEF Remembering
<1> QED BY <1>2, <1>4, <1>6, <1>7, <1>8, CompletionKeepsSafe

LEMMA RouteFailureSafe ==
  ASSUME TypeOK, Safe, cur \in Nodes, NEW o, NEW cx \in Contexts, RouteFailure(o, cx)
  PROVE  Safe'
BY NoCompletionKeepsSafe DEF RouteFailure, outside, EndRun

LEMMA HandlerReturnsSafe ==
  ASSUME TypeOK, Safe, HandlerReturns
  PROVE  Safe'
<1>1. cur \in Nodes
  BY DEF TypeOK, HandlerReturns
<1>2. PICK o \in HandlerOutcomes :
        \/ HandlerError(o) \/ RetryStage(o) \/ RetriesExhausted(o)
        \/ Complete(o)
        \/ CycleDetected(o) \/ StartTroubleshooter(o) \/ FailStage(o)
  BY <1>1, ReturnedType DEF HandlerReturns
<1>3. o.status = "FAILURE" => ContextAfter(o) \in Contexts
  BY <1>1, ContextAfterType DEF Statuses
<1>4. CASE HandlerError(o) \/ RetryStage(o) \/ RetriesExhausted(o) \/ StartTroubleshooter(o)
  BY <1>4, NoCompletionKeepsSafe
     DEF HandlerError, RetryStage, RetriesExhausted, StartTroubleshooter, memory, outside,
         EndRun
<1>5. CASE Complete(o)
  BY <1>1, <1>5, CompleteSafe
<1>6. CASE CycleDetected(o)
  BY <1>1, <1>3, <1>6, NoCompletionKeepsSafe DEF CycleDetected, outside, EndRun
<1>7. CASE FailStage(o)
  BY <1>1, <1>3, <1>7, RouteFailureSafe DEF FailStage
<1> QED BY <1>2, <1>4, <1>5, <1>6, <1>7

LEMMA TroubleshooterReturnsSafe ==
  ASSUME TypeOK, Safe, TroubleshooterReturns
  PROVE  Safe'
<1>1. cur \in Nodes
  BY DEF TypeOK, TroubleshooterReturns, Promote, RerunAfterFix, Escalate, FailAfterAdvice
<1>2. Tried \in Contexts /\ ctx \in Contexts
  BY <1>1, TriedType DEF TypeOK
<1>3. CASE Promote
  <2> DEFINE cx == [Tried EXCEPT !.last = "SUCCESS"]
  <2>1. cx \in Contexts /\ "SUCCESS" \in Completions
    BY <1>2 DEF Contexts, Statuses, Completions, Satisfying
  <2>2. /\ completed' = completed \union {cur} /\ UNCHANGED resumes
        /\ ran' = Ran(cur, "SUCCESS") /\ outcomes' = [outcomes EXCEPT ![cur] = "SUCCESS"]
        /\ checkpoint' = Snapshot(cur, completed \union {cur}, cx)
    BY <1>3 DEF Promote, RecordedCompletion, outside
  <2>3. result' # "ok" \/ result' = result
    BY <1>3 DEF Promote, EndRun
  <2> QED BY <1>1, <2>1, <2>2, <2>3, CompletionKeepsSafe
<1>4. CASE RerunAfterFix
  BY <1>1, <1>2, <1>4, NoCompletionKeepsSafe DEF RerunAfterFix, outside
<1>5. CASE Escalate
  <2>1. ctx' \in Contexts
    BY <1>2, <1>5 DEF Escalate
  <2> QED BY <1>1, <1>5, <2>1, NoCompletionKeepsSafe DEF Escalate, outside, EndRun
<1>6. CASE FailAfterAdvice
  BY <1>1, <1>2, <1>6, RouteFailureSafe DEF FailAfterAdvice
<1> QED BY <1>3, <1>4, <1>5, <1>6 DEF TroubleshooterReturns

(* resume() believes the checkpoint: this is where the invariant needs     *)
(* that the nodes it names have completed.                                 *)
LEMMA ResumeSafe ==
  ASSUME TypeOK, Safe, Resume
  PROVE  Safe'
<1>1. checkpoint \in Checkpoints /\ checkpoint.completed \subseteq Nodes
  BY DEF TypeOK, Resume, Checkpoints
<1>2. Earned' = Completions
  <2>1. resumes' # 0
    BY DEF TypeOK, Resume
  <2> QED BY <2>1 DEF Earned
<1>3. CompletedReallyRan'
  BY DEF Safe, CompletedReallyRan, Resume
<1>4. CompletionIsDurable'
  BY DEF CompletionIsDurable, Resume
<1>5. GateHonoured'
  BY DEF GateHonoured, Resume
<1>6. OutcomesEarned'
  <2> SUFFICES ASSUME NEW n \in Nodes, outcomes'[n] \in Satisfying
               PROVE  ran'[n] \intersect Completions # {}
    BY <1>2 DEF OutcomesEarned
  <2>1. n \in checkpoint.completed
    BY DEF Resume, Satisfying
  <2>2. ran[n] # {} /\ ran[n] \subseteq Completions
    BY <2>1 DEF TypeOK, Safe, CompletedReallyRan, Resume
  <2> QED BY <2>2 DEF Resume
<1> QED BY <1>3, <1>4, <1>5, <1>6 DEF Safe

LEMMA NextSafe ==
  ASSUME TypeOK, Safe, [Next]_vars
  PROVE  Safe'
<1>1. CASE StartRun
  BY <1>1 DEF StartRun, Safe, CompletedReallyRan, CompletionIsDurable, GateHonoured,
              OutcomesEarned, Earned, NoOutcomes, Satisfying
<1>2. CASE Resume
  BY <1>2, ResumeSafe
<1>3. CASE LoopHead
  BY <1>3, LoopHeadSafe
<1>4. CASE HandlerReturns
  BY <1>4, HandlerReturnsSafe
<1>5. CASE InterruptInteractive
  <2>1. cur \in Nodes
    BY <1>5 DEF TypeOK, InterruptInteractive
  <2> QED BY <1>5, <2>1, ReturnedType, CompleteSafe DEF InterruptInteractive
<1>6. CASE TroubleshooterReturns
  BY <1>6, TroubleshooterReturnsSafe
<1>7. CASE Cancel \/ TogglePause \/ UNCHANGED vars
  BY <1>7, NoCompletionKeepsSafe DEF Cancel, TogglePause, memory, vars
<1>8. CASE Crash
  BY <1>8 DEF Crash, Safe, CompletedReallyRan, CompletionIsDurable, GateHonoured,
              OutcomesEarned, Earned, NoOutcomes, Satisfying
<1> QED BY <1>1, <1>2, <1>3, <1>4, <1>5, <1>6, <1>7, <1>8 DEF Next

THEOREM SafeInvariant == Spec => []Safe
<1>1. Init => Safe
  BY DEF Init, Safe, CompletedReallyRan, CompletionIsDurable, GateHonoured,
         OutcomesEarned, NoOutcomes, Satisfying
<1>2. TypeOK /\ Safe /\ [Next]_vars => Safe'
  BY NextSafe
<1> QED BY <1>1, <1>2, TypeCorrect, PTL DEF Spec

(* What a resume skips has really run: no crash, loop_restart, repair or   *)
(* jump makes the engine or its checkpoint claim a completion that did not *)
(* happen.                                                                 *)
THEOREM CompletionsAreReal == Spec => []CompletedReallyRan
BY SafeInvariant, PTL DEF Safe

(* The process may die between any two steps: checkpoint.json then names   *)
(* every node the engine had completed.                                    *)
THEOREM CompletionsAreDurable == Spec => []CompletionIsDurable
BY SafeInvariant, PTL DEF Safe

(* A run reports success only with its goal gates earned by a completion.  *)
THEOREM GatesAreHonoured == Spec => []GateHonoured
BY SafeInvariant, PTL DEF Safe

-----------------------------------------------------------------------------
(* The checkpoint written when a human gate completes leads a resume to    *)
(* the node its answer led the run to.                                     *)
LEMMA CompleteKeepsDecision ==
  ASSUME TypeOK, cur \in Nodes, Kind[cur] = "human",
         NEW o \in Outcomes[cur], Complete(o), phase' = "head"
  PROVE  ResumeTarget(checkpoint') = cur'
<1>1. o = [Succeeded EXCEPT !.label = o.label] /\ Settled(o) = o
  BY HumanAssumption
     DEF Complete, CompleteAndAdvance, CompleteAndRestart, CompleteAndStrand, Accepted,
         Completions, Satisfying, Settled, Succeeded
<1>2. o.status = "SUCCESS"
  BY <1>1 DEF Succeeded
<1>3. checkpoint' = Snapshot(cur, completed \union {cur}, ContextAfter(o))
  BY <1>1, <1>2
     DEF Complete, CompleteAndAdvance, CompleteAndRestart, CompleteAndStrand, Completing,
         SavedOnCompletion, RecordedCompletion
<1>4. ContextAfter(o).human = o.label
  BY DEF TypeOK, Contexts, ContextAfter
<1>5. EdgeAfter(o) # 0 /\ cur' = Out[cur][EdgeAfter(o)].to
  BY <1>1
     DEF Complete, CompleteAndAdvance, CompleteAndRestart, CompleteAndStrand, EndRun
<1>6. Target(cur, o, ContextAfter(o)) = cur' /\ cur' # NoNode
  BY <1>5, NextEdgeType, GraphAssumption DEF Target, SelectTo, EdgeAfter, NextEdge
<1>7. /\ checkpoint'.cur = cur /\ cur \in checkpoint'.completed
      /\ checkpoint'.ctx = ContextAfter(o)
  BY <1>3 DEF Snapshot
<1> QED BY <1>1, <1>4, <1>6, <1>7 DEF ResumeTarget

(* An operator's decision survives the crash of the server: proved of      *)
(* every graph whose human gates the handler answers.                      *)
THEOREM DecisionsSurvive == Spec => HumanDecisionSurvives
<1>1. ASSUME TypeOK, [Next]_vars, phase = "executing", phase' = "head", Kind[cur] = "human"
      PROVE  ResumeTarget(checkpoint') = cur'
  <2>1. cur \in Nodes
    BY <1>1 DEF TypeOK
  <2>2. HandlerReturns
    BY <1>1
       DEF Next, vars, StartRun, Resume, LoopHead, BeginStage, EnterPause, LeavePause,
           StopCancelled, ReachExit, CheckGates, InterruptInteractive,
           TroubleshooterReturns, Promote, RerunAfterFix, Escalate, FailAfterAdvice,
           Cancel, TogglePause, Crash
  <2>3. PICK o \in Outcomes[cur] :
          \/ HandlerError(o) \/ RetryStage(o) \/ RetriesExhausted(o)
          \/ Complete(o)
          \/ CycleDetected(o) \/ StartTroubleshooter(o) \/ FailStage(o)
    BY <1>1, <2>2 DEF HandlerReturns, Returned
  <2>4. o.status \in {"ERROR", "SUCCESS"}
    BY <1>1, <2>1, HumanAssumption DEF Succeeded
  <2>5. ~ HandlerError(o)
    BY <1>1 DEF HandlerError, EndRun
  <2>6. Complete(o)
    BY <2>3, <2>4, <2>5
       DEF RetryStage, RetriesExhausted, CycleDetected, StartTroubleshooter, FailStage
  <2> QED BY <1>1, <2>1, <2>6, CompleteKeepsDecision
<1>2. TypeOK /\ [Next]_vars =>
        [phase = "executing" /\ phase' = "head" /\ Kind[cur] = "human"
           => ResumeTarget(checkpoint') = cur']_vars
  BY <1>1
<1> QED BY <1>2, TypeCorrect, PTL DEF Spec, HumanDecisionSurvives

-----------------------------------------------------------------------------
(***************************************************************************)
(* PipelineEngine implements DurableWalk: the initial state maps to the    *)
(* initial state, and every step of the engine to a step of the walk or to *)
(* a stutter.                                                              *)
(***************************************************************************)
(* What the mapping needs besides the types: the engine has cleared its    *)
(* memory before it starts, has completed the exit before it looks at the  *)
(* goal gates, and gives a result when it ends and only then.              *)
PhaseInv ==
  /\ phase = "idle" => completed = {} /\ checkpoint = NoCheckpoint
  /\ phase = "gates" => Exit \in completed
  /\ phase = "ended" => result \in {"ok", "failed"}

(* The checkpoint that save_checkpoint writes names what it was given.     *)
LEMMA DurableAfterSave ==
  ASSUME NEW n \in Nodes, NEW done \in SUBSET Nodes, NEW cx \in Contexts,
         checkpoint' = Snapshot(n, done, cx)
  PROVE  Durable' = done
<1>1. checkpoint' # NoCheckpoint
  BY CheckpointAssumption DEF Snapshot, Checkpoints
<1> QED BY <1>1 DEF Durable, Snapshot

LEMMA UnsavedDurable ==
  ASSUME UNCHANGED checkpoint
  PROVE  UNCHANGED Durable
BY DEF Durable

-----------------------------------------------------------------------------
(* A completion of the current node is the walk's Complete of that node.   *)
LEMMA CompleteWalks ==
  ASSUME TypeOK, phase = "executing", NEW o \in HandlerOutcomes, Complete(o)
  PROVE  Walk!Complete(cur) /\ PhaseInv'
<1> DEFINE s == Settled(o)
<1>1. cur \in Nodes
  BY DEF TypeOK
<1>2. Accepted(o) /\ Completing(s)
  BY DEF Complete, CompleteAndAdvance, CompleteAndRestart, CompleteAndStrand
<1>3. s \in HandlerOutcomes /\ s.status \in Completions
  BY <1>2, SettledType
<1>4. Remembering(s) \/ completed' = {}
  BY DEF Complete, CompleteAndAdvance, CompleteAndRestart, CompleteAndStrand
<1>5. phase' = "head" \/ (phase' = "ended" /\ result' = "failed")
  BY DEF Complete, CompleteAndAdvance, CompleteAndRestart, CompleteAndStrand, EndRun
<1> HIDE DEF s
<1>6. RecordedCompletion(cur, s.status) = completed \union {cur}
  BY <1>3 DEF RecordedCompletion, Completions, Satisfying
<1>7. ContextAfter(s) \in Contexts
  BY <1>1, <1>3, ContextAfterType DEF Completions, Satisfying, Statuses
<1>8. checkpoint' = Snapshot(cur, completed \union {cur}, ContextAfter(s))
  BY <1>2, <1>6 DEF Completing, SavedOnCompletion
<1>9. Durable' = completed \union {cur}
  BY <1>1, <1>7, <1>8, DurableAfterSave DEF TypeOK
<1>10. completed' \in {completed \union {cur}, {}}
  BY <1>4, <1>6 DEF Remembering
<1>11. RunStatus = "running" /\ RunStatus' \in {"running", "failed"}
  BY <1>5 DEF RunStatus, Running
<1> QED BY <1>5, <1>9, <1>10, <1>11 DEF Walk!Complete, PhaseInv

(* A handled failure saves what is known and nothing else.                 *)
LEMMA FailureWalks ==
  ASSUME TypeOK, phase \in {"executing", "troubleshooting"},
         NEW cx \in Contexts, checkpoint' = Snapshot(cur, completed, cx),
         completed' = completed,
         phase' = "head" \/ (phase' = "ended" /\ result' = "failed")
  PROVE  Walk!Fail /\ PhaseInv'
<1>1. Durable' = completed
  BY DurableAfterSave DEF TypeOK
<1> QED BY <1>1 DEF Walk!Fail, PhaseInv, RunStatus, Running

LEMMA RouteFailureWalks ==
  ASSUME TypeOK, phase \in {"executing", "troubleshooting"},
         NEW o, NEW cx \in Contexts, RouteFailure(o, cx)
  PROVE  Walk!Fail /\ PhaseInv'
BY FailureWalks DEF RouteFailure, EndRun

(* A step that neither completes nor saves is a stutter, or the walk's end.*)
LEMMA QuietWalks ==
  ASSUME PhaseInv, phase \in Running, UNCHANGED <<completed, checkpoint>>,
         phase' \in Running \ {"gates"} \/ (phase' = "ended" /\ result' = "failed")
  PROVE  [Walk!Next]_(Walk!vars) /\ PhaseInv'
<1>1. UNCHANGED Durable
  BY UnsavedDurable
<1>2. PhaseInv'
  BY DEF PhaseInv, Running
<1>3. CASE phase' \in Running
  BY <1>1, <1>2, <1>3 DEF Walk!vars, RunStatus
<1>4. CASE phase' = "ended"
  <2>1. Walk!Stop
    BY <1>1, <1>4 DEF Walk!Stop, RunStatus, Running
  <2> QED BY <1>2, <2>1 DEF Walk!Next
<1> QED BY <1>3, <1>4

-----------------------------------------------------------------------------
LEMMA LoopHeadWalks ==
  ASSUME TypeOK, PhaseInv, LoopHead
  PROVE  [Walk!Next]_(Walk!vars) /\ PhaseInv'
<1>1. CASE BeginStage \/ EnterPause \/ LeavePause \/ StopCancelled
  BY <1>1, QuietWalks
     DEF BeginStage, EnterPause, LeavePause, StopCancelled, EndRun, memory, Running
<1>2. CASE ReachExit
  <2>1. Exit \in Nodes /\ ctx \in Contexts /\ completed \union {Exit} \in SUBSET Nodes
    BY GraphAssumption DEF TypeOK
  <2>2. /\ completed' = completed \union {Exit}
        /\ checkpoint' = Snapshot(Exit, completed \union {Exit}, ctx)
    BY <1>2 DEF ReachExit, RecordedCompletion
  <2>3. Durable' = completed \union {Exit}
    BY <2>1, <2>2, DurableAfterSave
  <2>4. Walk!Complete(Exit)
    BY <1>2, <2>2, <2>3 DEF Walk!Complete, ReachExit, RunStatus, Running
  <2>5. PhaseInv'
    BY <1>2, <2>2 DEF ReachExit, PhaseInv
  <2> QED BY <2>1, <2>4, <2>5 DEF Walk!Next
<1>3. CASE CheckGates
  <2>1. UNCHANGED Durable
    BY <1>3, UnsavedDurable DEF CheckGates
  <2>2. CASE EndRun("ok")
    <3>1. Walk!Succeed
      BY <1>3, <2>1, <2>2 DEF Walk!Succeed, CheckGates, EndRun, PhaseInv, RunStatus, Running
    <3>2. PhaseInv'
      BY <1>3, <2>2 DEF CheckGates, EndRun, PhaseInv
    <3> QED BY <3>1, <3>2 DEF Walk!Next
  <2>3. CASE ~EndRun("ok")
    BY <1>3, <2>3, QuietWalks DEF CheckGates, EndRun, Running
  <2> QED BY <2>2, <2>3
<1> QED BY <1>1, <1>2, <1>3 DEF LoopHead

LEMMA HandlerReturnsWalks ==
  ASSUME TypeOK, PhaseInv, HandlerReturns
  PROVE  [Walk!Next]_(Walk!vars) /\ PhaseInv'
<1>1. cur \in Nodes /\ phase = "executing"
  BY DEF TypeOK, HandlerReturns
<1>2. PICK o \in HandlerOutcomes :
        \/ HandlerError(o) \/ RetryStage(o) \/ RetriesExhausted(o)
        \/ Complete(o)
        \/ CycleDetected(o) \/ StartTroubleshooter(o) \/ FailStage(o)
  BY <1>1, ReturnedType DEF HandlerReturns
<1>3. o.status = "FAILURE" => ContextAfter(o) \in Contexts
  BY <1>1, ContextAfterType DEF Statuses
<1>4. CASE HandlerError(o) \/ RetryStage(o) \/ RetriesExhausted(o) \/ StartTroubleshooter(o)
  BY <1>1, <1>4, QuietWalks
     DEF HandlerError, RetryStage, RetriesExhausted, StartTroubleshooter, memory, EndRun,
         Running
<1>5. CASE Complete(o)
  BY <1>1, <1>5, CompleteWalks DEF Walk!Next
<1>6. CASE CycleDetected(o)
  BY <1>1, <1>3, <1>6, FailureWalks DEF CycleDetected, EndRun, Walk!Next
<1>7. CASE FailStage(o)
  BY <1>1, <1>3, <1>7, RouteFailureWalks DEF FailStage, Walk!Next
<1> QED BY <1>2, <1>4, <1>5, <1>6, <1>7

LEMMA TroubleshooterReturnsWalks ==
  ASSUME TypeOK, PhaseInv, TroubleshooterReturns
  PROVE  [Walk!Next]_(Walk!vars) /\ PhaseInv'
<1>1. cur \in Nodes /\ phase = "troubleshooting"
  BY DEF TypeOK, TroubleshooterReturns, Promote, RerunAfterFix, Escalate, FailAfterAdvice
<1>2. Tried \in Contexts /\ ctx \in Contexts
  BY <1>1, TriedType DEF TypeOK
<1>3. CASE Promote
  <2> DEFINE cx == [Tried EXCEPT !.last = "SUCCESS"]
  <2>1. cx \in Contexts
    BY <1>2 DEF Contexts, Statuses, Completions, Satisfying
  <2>2. /\ completed' = completed \union {cur}
        /\ checkpoint' = Snapshot(cur, completed \union {cur}, cx)
        /\ phase' = "head" \/ (phase' = "ended" /\ result' = "failed")
    BY <1>3 DEF Promote, RecordedCompletion, EndRun
  <2> HIDE DEF cx
  <2>3. Durable' = completed \union {cur}
    BY <1>1, <2>1, <2>2, DurableAfterSave DEF TypeOK
  <2>4. Walk!Complete(cur)
    BY <1>1, <2>2, <2>3 DEF Walk!Complete, RunStatus, Running
  <2> QED BY <1>1, <2>2, <2>4 DEF Walk!Next, PhaseInv
<1>4. CASE RerunAfterFix
  BY <1>1, <1>2, <1>4, FailureWalks DEF RerunAfterFix, Walk!Next
<1>5. CASE Escalate
  <2>1. ctx' \in Contexts
    BY <1>2, <1>5 DEF Escalate
  <2> QED BY <1>1, <1>5, <2>1, FailureWalks DEF Escalate, EndRun, Walk!Next
<1>6. CASE FailAfterAdvice
  BY <1>1, <1>2, <1>6, RouteFailureWalks DEF FailAfterAdvice, Walk!Next
<1> QED BY <1>3, <1>4, <1>5, <1>6 DEF TroubleshooterReturns

LEMMA NextWalks ==
  ASSUME TypeOK, PhaseInv, [Next]_vars
  PROVE  [Walk!Next]_(Walk!vars) /\ PhaseInv'
<1>1. CASE StartRun
  <2>1. UNCHANGED Durable
    BY <1>1, UnsavedDurable DEF StartRun
  <2>2. Walk!Begin
    BY <1>1, <2>1 DEF Walk!Begin, StartRun, PhaseInv, RunStatus, Running
  <2> QED BY <1>1, <2>2 DEF Walk!Next, StartRun, PhaseInv
<1>2. CASE Resume
  <2>1. UNCHANGED Durable
    BY <1>2, UnsavedDurable DEF Resume
  <2>2. completed' = Durable
    BY <1>2 DEF Resume, Durable
  <2>3. Walk!Resume
    BY <1>2, <2>1, <2>2 DEF Walk!Resume, Resume, PhaseInv, RunStatus, Running
  <2> QED BY <1>2, <2>3 DEF Walk!Next, Resume, PhaseInv
<1>3. CASE LoopHead
  BY <1>3, LoopHeadWalks
<1>4. CASE HandlerReturns
  BY <1>4, HandlerReturnsWalks
<1>5. CASE InterruptInteractive
  <2>1. phase = "executing" /\ cur \in Nodes
    BY <1>5 DEF TypeOK, InterruptInteractive
  <2> QED BY <1>5, <2>1, ReturnedType, CompleteWalks DEF InterruptInteractive, Walk!Next
<1>6. CASE TroubleshooterReturns
  BY <1>6, TroubleshooterReturnsWalks
<1>7. CASE Cancel \/ TogglePause \/ UNCHANGED vars
  <2>1. UNCHANGED <<completed, checkpoint, phase, result>>
    BY <1>7 DEF Cancel, TogglePause, memory, vars
  <2> QED BY <2>1, UnsavedDurable DEF PhaseInv, Walk!vars, RunStatus
<1>8. CASE Crash
  <2>1. UNCHANGED Durable
    BY <1>8, UnsavedDurable DEF Crash
  <2>2. Walk!Crash
    BY <1>8, <2>1 DEF Walk!Crash, Crash, RunStatus, Running
  <2> QED BY <1>8, <2>2 DEF Walk!Next, Crash, PhaseInv
<1> QED BY <1>1, <1>2, <1>3, <1>4, <1>5, <1>6, <1>7, <1>8 DEF Next

(* Every execution of the engine, crashes and resumes included, is one of  *)
(* the walk that DurableWalk promises to whoever resumes the run.          *)
THEOREM EngineImplementsWalk == Spec => ImplementsWalk
<1>1. Init => PhaseInv /\ Walk!Init
  BY DEF Init, PhaseInv, Walk!Init, RunStatus, Running, Durable
<1>2. TypeOK /\ PhaseInv /\ [Next]_vars => [Walk!Next]_(Walk!vars) /\ PhaseInv'
  BY NextWalks
<1> QED BY <1>1, <1>2, TypeCorrect, PTL DEF Spec, ImplementsWalk, Walk!Spec
=============================================================================
