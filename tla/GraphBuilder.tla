----------------------------- MODULE GraphBuilder -----------------------------
(***************************************************************************)
(* From statements to a graph: GraphBuilder::build, the style sheet that   *)
(* is applied to the result, and what a node makes of its attributes. A    *)
(* statement is                                                            *)
(*   [kind |-> "node", chain |-> <<id>>, attrs, level],                    *)
(*   [kind |-> "edge", chain |-> <<id, ..., id>>, attrs, level] or         *)
(*   [kind |-> "node default" or "graph default", chain |-> <<>>, ...];    *)
(* at level 0 it is the graph's own, at 1 in a subgraph, at 2 in one of    *)
(* that one's. Attributes are a function of their keys; an id is a         *)
(* sequence of characters.                                                 *)
(***************************************************************************)
EXTENDS Naturals, Sequences, SequencesExt, FiniteSetsExt, TLC

None == <<>>  \* no attributes
IdCharacters == {"a", "b", "c", "_", ".", "-"}

SanitizeNodeId(id) == SelectSeq(id, LAMBDA c : c \in IdCharacters)

(* The parser sorts statements into lists by their kind.                   *)
OfKind(stmts, level, kind) == SelectSeq(stmts, LAMBDA s : s.level = level /\ s.kind = kind)

At(na, id) == IF id \in DOMAIN na THEN na[id] ELSE None
With(na, id, attrs) == (id :> attrs) @@ na

(* Of settings of one key the last one is in force, or the first one.      *)
Latest(stmts) == FoldLeft(LAMBDA a, s : s.attrs @@ a, None, stmts)
Earliest(stmts) == FoldLeft(LAMBDA a, s : a @@ s.attrs, None, stmts)

(* Mutant: a default set behind a node replaces what the node says.        *)
FilledOver(attrs, defaults) == defaults @@ attrs

(* Defaults only set what is missing.                                      *)
Filled(attrs, defaults) == attrs @@ defaults

Declare(na, s, defaults) ==
  LET id == SanitizeNodeId(s.chain[1]) IN With(na, id, Filled(s.attrs @@ At(na, id), defaults))
Mention(na, s, defaults) ==
  FoldLeft(LAMBDA m, id : With(m, SanitizeNodeId(id), Filled(At(m, SanitizeNodeId(id)), defaults)),
           na, s.chain)

(* expand_edge_chains                                                      *)
EdgesOf(s) ==
  [i \in 1..Len(s.chain) - 1 |->
     [from |-> SanitizeNodeId(s.chain[i]), to |-> SanitizeNodeId(s.chain[i + 1]), attrs |-> s.attrs]]

(* expand_subgraphs, for a subgraph and its parents' defaults: a node that *)
(* is declared takes the first default of a key, before its own settings;  *)
(* one that only an edge names, if it is new, takes the last one.          *)
DeclareInSubgraph(na, s, defaults) ==
  LET id == SanitizeNodeId(s.chain[1])
  IN With(na, id, s.attrs @@ Filled(At(na, id), Earliest(defaults)))
MentionInSubgraph(na, s, defaults) ==
  FoldLeft(LAMBDA m, id :
             IF SanitizeNodeId(id) \in DOMAIN m THEN m
             ELSE With(m, SanitizeNodeId(id), Latest(defaults)),
           na, s.chain)
SubgraphNodes(na, stmts, level, defaults) ==
  FoldLeft(LAMBDA m, s : MentionInSubgraph(m, s, defaults),
           FoldLeft(LAMBDA m, s : DeclareInSubgraph(m, s, defaults), na, OfKind(stmts, level, "node")),
           OfKind(stmts, level, "edge"))

Defaults(stmts, level) == FlattenSeq([l \in 1..level + 1 |-> OfKind(stmts, l - 1, "node default")])

NodeAttributes(stmts) ==
  LET defaults == Latest(Defaults(stmts, 0))
      declared == FoldLeft(LAMBDA m, s : Declare(m, s, defaults), None, OfKind(stmts, 0, "node"))
      own == FoldLeft(LAMBDA m, s : Mention(m, s, defaults), declared, OfKind(stmts, 0, "edge"))
      sub == SubgraphNodes(own, stmts, 1, Defaults(stmts, 1))
  IN SubgraphNodes(sub, stmts, 2, Defaults(stmts, 2))

NodeType(attrs) ==
  LET shape == IF "shape" \in DOMAIN attrs THEN attrs["shape"] ELSE "none"
  IN IF "handler" \in DOMAIN attrs /\ attrs["handler"] = "llmkit" THEN "LLMKIT"
     ELSE CASE shape = "mdiamond" -> "START" [] shape = "msquare" -> "EXIT"
            [] shape = "diamond" -> "CONDITIONAL" [] shape = "component" -> "PARALLEL"
            [] shape = "trapezium" -> "FAN_IN" [] shape = "hexagon" -> "WAIT_HUMAN"
            [] shape = "parallelogram" -> "TOOL" [] shape = "house" -> "MANAGER_LOOP"
            [] OTHER -> "CODERGEN"

Build(stmts) ==
  [attrs |-> NodeAttributes(stmts),
   type  |-> [id \in DOMAIN NodeAttributes(stmts) |-> NodeType(NodeAttributes(stmts)[id])],
   graph |-> Latest(OfKind(stmts, 0, "graph default")),
   edges |-> FlattenSeq([l \in 1..3 |-> FlattenSeq(
               [i \in DOMAIN OfKind(stmts, l - 1, "edge") |-> EdgesOf(OfKind(stmts, l - 1, "edge")[i])])])]

-----------------------------------------------------------------------------
(* StylesheetTransform: rules, each with a selector, in the order of the   *)
(* sheet. A rule on the id goes over one on the class, that over one on    *)
(* all; the node's attributes go over the sheet.                           *)
Matching(rules, kind, value) ==
  SelectSeq(rules, LAMBDA r : r.kind = kind /\ r.value = value)
Merged(rules, id, attrs) ==
  LET class == IF "class" \in DOMAIN attrs THEN attrs["class"] ELSE "none"
  IN Latest(Matching(rules, "id", id))
       @@ Latest(Matching(rules, "class", class)) @@ Latest(Matching(rules, "all", "*"))
Styled(rules, na) == [id \in DOMAIN na |-> Filled(na[id], Merged(rules, id, na[id]))]

-----------------------------------------------------------------------------
(* resolve_fidelity: the edge's, the node's, the graph's; what is unknown  *)
(* is compact.                                                             *)
Modes == {"truncate", "compact", "summary:low", "summary:medium", "summary:high", "full"}
Aliases == [summary_low |-> "summary:low", summary_medium |-> "summary:medium",
            summary_high |-> "summary:high"]
FidelityFromString(s) ==
  IF s \in Modes THEN s ELSE IF s \in DOMAIN Aliases THEN Aliases[s] ELSE "compact"
Given(attrs, key) == key \in DOMAIN attrs /\ attrs[key] # ""
ResolveFidelity(edge, node, graph) ==
  FidelityFromString(
    IF Given(edge, "fidelity") THEN edge["fidelity"]
    ELSE IF Given(node, "fidelity") THEN node["fidelity"]
    ELSE IF Given(graph, "default_fidelity") THEN graph["default_fidelity"]
    ELSE IF Given(graph, "fidelity") THEN graph["fidelity"] ELSE "compact")

-----------------------------------------------------------------------------
(* What a DOT file means to its author.                                    *)

(* The last setting of a key that names the node, statements of an outer   *)
(* level first.                                                            *)
ByLevel(stmts, kind) == FlattenSeq([l \in 1..3 |-> OfKind(stmts, l - 1, kind)])
Explicit(stmts, id) ==
  Latest(SelectSeq(ByLevel(stmts, "node"), LAMBDA s : SanitizeNodeId(s.chain[1]) = id))

(* What a node says of itself no default and no style changes, and every   *)
(* end of an edge is a node.                                               *)
ExplicitWins(stmts, rules) ==
  LET na == Styled(rules, Build(stmts).attrs)
  IN \A id \in DOMAIN na : \A key \in DOMAIN Explicit(stmts, id) :
       na[id][key] = Explicit(stmts, id)[key]
EdgesAreClosed(stmts) ==
  \A e \in ToSet(Build(stmts).edges) : {e.from, e.to} \subseteq DOMAIN Build(stmts).attrs

(* A node without a setting of its own has some default of its graph or    *)
(* its subgraphs, if there is one for the graph itself.                    *)
DefaultsReachAll(stmts) ==
  \A id \in DOMAIN Build(stmts).attrs :
    DOMAIN Latest(Defaults(stmts, 0)) \subseteq DOMAIN Build(stmts).attrs[id]
=============================================================================
