------------------------- MODULE MCParallelHandler --------------------------
(***************************************************************************)
(* A fork of two branches that waits for both; the second branch forks     *)
(* again, one of its two branches is enough, and all meet at one fan-in,   *)
(* as a search that stops at fan-ins requires. The review after it ends    *)
(* the run, sends it back to the fork, or tries a fork without a fan-in.   *)
(*                                                                         *)
(*   start -> fork -> a ----------------> join -> review -> exit           *)
(*             ^   -> b -> split -> c -----^        |         ^            *)
(*             |                 -> d -----^        +-> odd -> e           *)
(*             +----------------- again ------------+                      *)
(***************************************************************************)
EXTENDS ParallelHandler

Edge(to) == [to |-> to, cond |-> {}, parses |-> TRUE, label |-> "", weight |-> 0,
             restart |-> FALSE]

MCNodes == {"start", "fork", "a", "b", "split", "c", "d", "join", "review",
            "odd", "e", "exit"}
MCOut == [n \in MCNodes |->
  CASE n = "start"  -> <<Edge("fork")>>
    [] n = "fork"   -> <<Edge("a"), Edge("b")>>
    [] n = "a"      -> <<Edge("join")>>
    [] n = "b"      -> <<Edge("split")>>
    [] n = "split"  -> <<Edge("c"), Edge("d")>>
    [] n = "c"      -> <<Edge("join")>>
    [] n = "d"      -> <<Edge("join")>>
    [] n = "join"   -> <<Edge("review")>>
    [] n = "review" -> <<Edge("exit"), [Edge("fork") EXCEPT !.label = "again"],
                         [Edge("odd") EXCEPT !.label = "odd"]>>
    [] n = "odd"    -> <<Edge("e")>>
    [] n = "e"      -> <<Edge("exit")>>
    [] n = "exit"   -> <<>>]

MCKind == [n \in MCNodes |->
  CASE n \in {"fork", "split", "odd"} -> "parallel" [] n = "join" -> "fan_in"
    [] OTHER -> "plain"]
Names == <<"a", "b", "c", "d", "e", "exit", "fork", "join", "odd", "review", "split", "start">>
MCRank == [n \in MCNodes |-> CHOOSE i \in 1..12 : Names[i] = n]

Done(s) == [status |-> s, label |-> "", next |-> <<>>]
MCOutcomes == [n \in MCNodes |->
  CASE n = "a" -> {Done("SUCCESS"), Done("FAILURE")}
    [] n = "b" -> {Done("SUCCESS"), Done("ERROR")}
    [] n = "c" -> {Done("PARTIAL_SUCCESS"), Done("RETRY")}
    [] n = "d" -> {Done("SUCCESS"), Done("FAILURE")}
    [] n = "join" -> {Done("SUCCESS"), Done("FAILURE")}
    [] n = "review" -> {Done("SUCCESS"), [Done("SUCCESS") EXCEPT !.label = "again"],
                        [Done("SUCCESS") EXCEPT !.label = "odd"]}
    [] OTHER -> {Done("SUCCESS")}]

MCMaxRetries == [n \in MCNodes |-> IF n = "c" THEN 1 ELSE 0]
MCJoinPolicy == [n \in MCNodes |-> IF n = "split" THEN "first_success" ELSE "wait_all"]
MCJoinThreshold == [n \in MCNodes |-> 2]
MCWorktrees == {"a", "d"}
=============================================================================
