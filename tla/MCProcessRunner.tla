--------------------------- MODULE MCProcessRunner ---------------------------
(* Two calls: an agent reads its prompt from stdin, a tool reads nothing.   *)
EXTENDS ProcessRunner

MCInput == [c \in Calls |-> IF c = "a" THEN 1 ELSE 0]
MCOutput == [c \in Calls |-> IF c = "a" THEN 1 ELSE 0]
=============================================================================
