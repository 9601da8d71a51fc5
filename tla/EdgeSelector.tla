---------------------------- MODULE EdgeSelector ----------------------------
(***************************************************************************)
(* The choice of the edge to follow out of a node: EdgeSelector::select,   *)
(* its five steps, and the evaluation of an edge's condition.              *)
(*                                                                         *)
(* The edges of a node are a sequence, in the order of the DOT file:       *)
(*   [to     |-> target node,                                              *)
(*    cond   |-> set of clauses joined by && ({} is an edge without one),  *)
(*    parses |-> FALSE for a condition ConditionParser rejects,            *)
(*    label, weight, restart |-> the attributes of those names]            *)
(* An outcome is [status, label, next]: StageStatus, preferred_label and   *)
(* the sequence suggested_next. A context is a record or function from     *)
(* keys to strings; reading a key it lacks gives "", as Context::get does. *)
(***************************************************************************)
EXTENDS Integers, Sequences, FiniteSetsExt

(* A clause compares one variable with a literal; eq is FALSE for "!=".    *)
Actual(clause, outcome, ctx) ==
  CASE clause.var = "outcome"         -> outcome.status
    [] clause.var = "preferred_label" -> outcome.label
    [] clause.var \in DOMAIN ctx      -> ctx[clause.var]
    [] OTHER                          -> ""

Evaluate(cond, outcome, ctx) ==
  \A c \in cond : c.eq <=> (Actual(c, outcome, ctx) = c.val)

(***************************************************************************)
(* Positions in the edge sequence that survive the condition filter: the   *)
(* conditional edges that hold, or, when there is none, the unconditional  *)
(* ones. An edge whose condition does not parse is in neither group.       *)
(***************************************************************************)
Filter(edges, outcome, ctx) ==
  LET unconditional == {i \in DOMAIN edges : edges[i].parses /\ edges[i].cond = {}}
      matched == {i \in DOMAIN edges : /\ edges[i].parses /\ edges[i].cond # {}
                                       /\ Evaluate(edges[i].cond, outcome, ctx)}
  IN IF matched # {} THEN matched ELSE unconditional

LabelMatches(edges, F, outcome) ==
  {i \in F : outcome.label # "" /\ edges[i].label = outcome.label}

(* Positions reached by the first entry of suggested_next that names one.  *)
Suggested(edges, F, outcome) ==
  LET hits == {k \in DOMAIN outcome.next : \E i \in F : edges[i].to = outcome.next[k]}
  IN {i \in F : hits # {} /\ edges[i].to = outcome.next[Min(hits)]}

Heaviest(edges, F) == {i \in F : \A j \in F : edges[j].weight <= edges[i].weight}

(* rank[n] is the place of node n in the order of the node ids as strings. *)
LexicallyFirst(edges, F, rank) ==
  {i \in F : \A j \in F : rank[edges[i].to] <= rank[edges[j].to]}

(***************************************************************************)
(* The position of the selected edge, or 0 when selection fails. The first *)
(* edge in file order wins among equal labels and equal targets; a weight  *)
(* decides only when a single edge has the highest one.                    *)
(***************************************************************************)
Select(edges, outcome, ctx, rank) ==
  LET F == Filter(edges, outcome, ctx)
      byLabel  == LabelMatches(edges, F, outcome)
      bySuggestion == Suggested(edges, F, outcome)
      top == Heaviest(edges, F)
  IN IF F = {} THEN 0
     ELSE IF Cardinality(F) = 1 THEN Min(F)
     ELSE Min(IF byLabel # {}          THEN byLabel
              ELSE IF bySuggestion # {}    THEN bySuggestion
              ELSE IF Cardinality(top) = 1 THEN top
              ELSE LexicallyFirst(edges, F, rank))

(* The target of the selected edge, or noNode when selection fails.        *)
SelectTo(edges, outcome, ctx, rank, noNode) ==
  LET i == Select(edges, outcome, ctx, rank) IN IF i = 0 THEN noNode ELSE edges[i].to
=============================================================================
