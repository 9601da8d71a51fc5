-------------------------- MODULE MCPipelineEngine --------------------------
(***************************************************************************)
(* A graph that meets every case of the loop: a node with retries and      *)
(* allow_partial (build), a node that fails and is troubleshot (test), an  *)
(* interactive stage that may send the run back (review), a human gate     *)
(* with a loop_restart edge (approve), a node with conditional edges only, *)
(* no retries and one way to fail (gate), and a conditional node (check).  *)
(* build and gate are goal gates, and only gate has a retry target.        *)
(*                                                                         *)
(*    start -> build -> test -> review -> approve -> gate -> exit          *)
(*               ^       ^        |          |        |       ^            *)
(*               |       +-revise-+          |     FAILURE    |            *)
(*               +----------- redo ----------+        v       |            *)
(*               +------------------ fix ----------- check -done           *)
(***************************************************************************)
EXTENDS PipelineEngine

Edge(to) == [to |-> to, cond |-> {}, parses |-> TRUE, label |-> "", weight |-> 0,
             restart |-> FALSE]
Labelled(to, label) == [Edge(to) EXCEPT !.label = label]
When(to, status) == [Edge(to) EXCEPT !.cond = {[var |-> "outcome", eq |-> TRUE, val |-> status]}]

MCNodes == {"start", "build", "test", "approve", "gate", "check", "review", "exit"}

MCLabels == {"", "ship", "redo", "revise", "fix", "done"}

MCOut == [n \in MCNodes |->
  CASE n = "start"   -> <<Edge("build")>>
    [] n = "build"   -> <<Edge("test")>>
    [] n = "test"    -> <<Edge("review")>>
    [] n = "review"  -> <<Edge("approve"), Labelled("test", "revise")>>
    [] n = "approve" -> <<Labelled("gate", "ship"),
                          [Labelled("build", "redo") EXCEPT !.restart = TRUE]>>
    [] n = "gate"    -> <<When("exit", "SUCCESS"), When("check", "FAILURE"),
                          When("exit", "SKIP")>>
    [] n = "check"   -> <<[When("build", "FAILURE") EXCEPT !.label = "fix"],
                          [When("exit", "SUCCESS") EXCEPT !.label = "done"]>>
    [] n = "exit"    -> <<>>]

MCKind == [n \in MCNodes |->
  CASE n = "approve" -> "human" [] n = "review" -> "interactive"
    [] n = "check" -> "conditional" [] OTHER -> "plain"]

Names == <<"approve", "build", "check", "exit", "gate", "review", "start", "test">>
MCRank == [n \in MCNodes |-> CHOOSE i \in 1..8 : Names[i] = n]

MCOutputs == {"", "text"}
Done(status) == [status |-> status, label |-> "", next |-> <<>>, out |-> ""]
Failed == [Done("FAILURE") EXCEPT !.out = "text"]
Says(label) == [Done("SUCCESS") EXCEPT !.label = label]
Answer == [Done("SUCCESS") EXCEPT !.out = "text"]
SendBack == [Answer EXCEPT !.label = "revise", !.next = <<"test">>]

MCOutcomes == [n \in MCNodes |->
  CASE n = "build"   -> {Done("SUCCESS"), Done("RETRY")}
    [] n = "test"    -> {Done("SUCCESS"), Done("RETRY"), Failed}
    [] n = "review"  -> {Answer, SendBack}
    [] n = "approve" -> {Done("ERROR"), Says("ship"), Says("redo")}
    [] n = "gate"    -> {Done("SUCCESS"), Done("SKIP"), Failed}
    [] OTHER         -> {Done("SUCCESS")}]

MCMaxRetries == [n \in MCNodes |-> IF n = "build" THEN 1 ELSE 0]
MCAllowPartial == {"build"}
MCRecovery == [n \in MCNodes |->
  IF n = "test" THEN "build" ELSE IF n = "gate" THEN "test" ELSE NoNode]
MCGoalGates == {"build", "gate"}
MCTroubled == {"test"}
=============================================================================
