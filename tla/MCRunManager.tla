---------------------------- MODULE MCRunManager ----------------------------
(* Two runs with ids of their own, each resumed or started afresh, and two *)
(* worker threads of the HTTP server.                                      *)
EXTENDS RunManager

MCIdOf == [r \in Runs |-> IF r = "r1" THEN "i1" ELSE "i2"]
=============================================================================
