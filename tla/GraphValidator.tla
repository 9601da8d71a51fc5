---------------------------- MODULE GraphValidator ----------------------------
(***************************************************************************)
(* The rules of `needle validate`, on a graph as GraphBuilder makes it: a  *)
(* type for each node and a sequence of edges. The searches are breadth    *)
(* first, as in the code.                                                  *)
(***************************************************************************)
EXTENDS Naturals, Sequences, SequencesExt, FiniteSets

Nodes(g) == DOMAIN g.type
OfType(g, type) == {n \in Nodes(g) : g.type[n] = type}
(* start_node, exit_node: the first of the type in the order of the ids.   *)
Targets(g, n) == {g.edges[i].to : i \in {i \in DOMAIN g.edges : g.edges[i].from = n}}

(* Mutant: a search looks at the neighbours of its first node only.        *)
VisitNeighbours(g, visited, queue) == visited \union UNION {Targets(g, n) : n \in queue}

RECURSIVE Visit(_, _, _)
Visit(g, visited, queue) ==
  IF queue = {} THEN visited
  ELSE LET n == CHOOSE n \in queue : TRUE
           new == Targets(g, n) \ visited
       IN Visit(g, visited \union new, (queue \ {n}) \union new)

Single(g, type) == Cardinality(OfType(g, type)) = 1
AllNodesReachable(g) ==
  \A s \in OfType(g, "START") : Visit(g, {s}, {s}) = Nodes(g)
ExitNoOutgoing(g) == \A x \in OfType(g, "EXIT") : Targets(g, x) = {}
StartNoIncoming(g) == \A s \in OfType(g, "START"), n \in Nodes(g) : s \notin Targets(g, n)

(* ParallelFanInPairing: some fan-in can be reached from the fork.         *)
ParallelFanInPairing(g) ==
  \A p \in OfType(g, "PARALLEL") :
    \E n \in Visit(g, Targets(g, p), Targets(g, p)) : g.type[n] = "FAN_IN"

(* has_errors() of all rules; a self-loop is a warning. With several start *)
(* nodes the graph is refused, whatever the other rules find.              *)
Accepted(g) ==
  /\ Single(g, "START") /\ Single(g, "EXIT")
  /\ StartNoIncoming(g) /\ ExitNoOutgoing(g)
  /\ AllNodesReachable(g) /\ ParallelFanInPairing(g)

-----------------------------------------------------------------------------
(* A node is reached from another if a path of edges leads there.          *)
Paths(g, n) == UNION {[1..k -> Nodes(g)] : k \in 1..n}
IsPath(g, p) == \A i \in 1..Len(p) - 1 : p[i + 1] \in Targets(g, p[i])
Reaches(g, a, b) ==
  \E p \in Paths(g, Cardinality(Nodes(g))) : p[1] = a /\ p[Len(p)] = b /\ IsPath(g, p)

(* A graph that is accepted has a walk through each of its nodes that      *)
(* begins at the start, passes it only there and the exit only at the end, *)
(* and a fork is never the last word.                                      *)
AcceptedGraphsAreWalkable(g) ==
  Accepted(g) => \A s \in OfType(g, "START"), n \in Nodes(g) :
    /\ Reaches(g, s, n)
    /\ g.type[n] = "PARALLEL" => \E j \in OfType(g, "FAN_IN") : Reaches(g, n, j)

(* And one that is not has a node that no walk reaches, or breaks a rule   *)
(* on its start, exit or forks.                                            *)
RefusedForAReason(g) ==
  ~Accepted(g) =>
    \/ ~Single(g, "START") \/ ~Single(g, "EXIT") \/ ~StartNoIncoming(g) \/ ~ExitNoOutgoing(g)
    \/ \E s \in OfType(g, "START"), n \in Nodes(g) : ~Reaches(g, s, n)
    \/ \E p \in OfType(g, "PARALLEL") : \A j \in OfType(g, "FAN_IN") : ~Reaches(g, p, j)
=============================================================================
