---------------------------- MODULE MCInteraction ----------------------------
(* A stage that works, one that is interactive, a gate and a fork.         *)
EXTENDS Interaction

CONSTANTS work, chat1, gate1, fork

MCStages == {work, chat1, gate1, fork}
MCKind == [s \in MCStages |->
             CASE s = work -> "work" [] s = chat1 -> "interactive"
               [] s = gate1 -> "gate" [] s = fork -> "fork"]
=============================================================================
