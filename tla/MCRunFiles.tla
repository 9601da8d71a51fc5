----------------------------- MODULE MCRunFiles -----------------------------
(* A chain s, plan, x with a loop back from plan, and what it was before   *)
(* its author added a node to it: s, plan, check, x.                       *)
EXTENDS RunFiles

MCNodes == {"s", "plan", "check", "x"}
MCShapes == {"long", "short"}
MCPresent == [g \in MCShapes |-> IF g = "long" THEN MCNodes ELSE MCNodes \ {"check"}]
MCSucc == [g \in MCShapes |->
  IF g = "long" THEN [s |-> {"plan"}, plan |-> {"check"}, check |-> {"plan", "x"}, x |-> {}]
                ELSE [s |-> {"plan"}, plan |-> {"x"}, check |-> {}, x |-> {}]]
MCReach == [g \in MCShapes |->
  IF g = "long" THEN [s |-> MCNodes, plan |-> MCNodes \ {"s"}, check |-> MCNodes \ {"s"}, x |-> {"x"}]
                ELSE [s |-> MCNodes \ {"check"}, plan |-> {"plan", "x"}, check |-> {"check"}, x |-> {"x"}]]
MCOriginal == [shape |-> "long", text |-> [n \in MCNodes |-> 0]]

(* "var.p" is as long as "check" is; "tool.plan" ends in ".plan".          *)
MCKeys == {"var.p", "tool.plan"}
MCLength == [k \in MCKeys \union MCNodes |->
  CASE k \in {"var.p", "check"} -> 5 [] k = "tool.plan" -> 9 [] k = "plan" -> 4 [] OTHER -> 1]
MCNpos == 31
MCWithin == [k \in MCKeys |-> [n \in MCNodes |-> FALSE]]
MCFoundAt == [k \in MCKeys |-> [n \in MCNodes |->
  IF k = "tool.plan" /\ n = "plan" THEN 4 ELSE MCNpos]]
MCOutput == [n \in MCNodes |-> IF n = "plan" THEN {"tool.plan"} ELSE {}]
=============================================================================
