-------------------------- MODULE ProcessRunnerProofs --------------------------
(***************************************************************************)
(* What run() returns, for any number of calls on one runner, any input    *)
(* and output, any pipe, and a kill_all() at any moment.                   *)
(***************************************************************************)
EXTENDS ProcessRunner, TLAPS

Polled == {"polling", "checking", "killing"}
Left == {"draining", "waiting", "reaped", "done"}

(* Every block the child wrote is in the pipe or has been collected.       *)
Conserved == \A c \in Calls : collected[c] + stdout[c] = wrote[c]
TypeInv ==
  /\ TypeOK
  /\ wrote \in [Calls -> Nat] /\ collected \in [Calls -> Nat]
  /\ Conserved

(* Where the call is tells what its child can still do. A call that polls  *)
(* has a child past its fork and reads its output; when it leaves the loop *)
(* the child can write no more, or the read end has seen its end; and past *)
(* the drain the pipe is empty.                                            *)
ChildKept == \A c \in Calls :
  /\ pc[c] \in {"forked", "writing"} => child[c] # "none"
  /\ pc[c] \in Polled \union Left => child[c] \notin {"none", "new"}
  /\ pc[c] \in Left => child[c] # "running"
PipeKept == \A c \in Calls :
  /\ pc[c] \in {"forked", "writing", "polling", "killing"} => c \in open
  /\ pc[c] \in {"checking", "draining"} /\ c \notin open => child[c] # "running" /\ stdout[c] = 0
  /\ pc[c] \in {"waiting", "reaped", "done"} => stdout[c] = 0
KillKept == \A c \in timedOut :
  /\ pc[c] \in {"killing"} \union Left
  /\ pc[c] \in Left => child[c] \in {"zombie", "reaped"} /\ c \notin descendant
StageInv == ChildKept /\ PipeKept /\ KillKept
Inv == TypeInv /\ StageInv

-----------------------------------------------------------------------------
LEMMA EndsType == ASSUME NEW c \in Calls PROVE OwnEnds(c) \subseteq Ends
<1>1. /\ <<"stdout write", c>> \in Ends /\ <<"stdin read", c>> \in Ends
      /\ <<"stdin write", c>> \in Ends
  BY DEF Ends
<1> QED BY <1>1 DEF OwnEnds

LEMMA InitInv == Init => Inv
BY ProcessAssumption
   DEF Init, Inv, TypeInv, TypeOK, Conserved, StageInv, ChildKept, PipeKept, KillKept, CallStates,
       ChildStates, Registered, Polled, Left

LEMMA TypeStep == Inv /\ [Next]_vars => TypeInv'
<1> SUFFICES ASSUME Inv, [Next]_vars PROVE TypeInv'
  OBVIOUS
<1> USE ProcessAssumption DEF Inv, TypeInv, TypeOK, Conserved, CallStates, ChildStates, Registered
<1>1. ASSUME NEW c \in Calls, OpenPipes(c) PROVE TypeInv'
  BY <1>1 DEF OpenPipes, Goto, input, output, process
<1>2. ASSUME NEW c \in Calls, ForkFails(c) PROVE TypeInv'
  BY <1>2 DEF ForkFails, Goto, input, output, process
<1>3. ASSUME NEW c \in Calls, Fork(c) PROVE TypeInv'
  BY <1>3, EndsType DEF Fork, Goto, input, output, process
<1>4. ASSUME NEW c \in Calls, Register(c) PROVE TypeInv'
  BY <1>4 DEF Register, MutexFree, Goto, input, output, process
<1>5. ASSUME NEW c \in Calls, WriteStdin(c) PROVE TypeInv'
  BY <1>5 DEF WriteStdin, Goto, input, output, process
<1>6. ASSUME NEW c \in Calls, BeginPolling(c) PROVE TypeInv'
  BY <1>6 DEF BeginPolling, Goto, input, output, process
<1>7. ASSUME NEW c \in Calls, Read(c) PROVE TypeInv'
  BY <1>7 DEF Read, Goto, input, output, process
<1>8. ASSUME NEW c \in Calls, ReadEnd(c) PROVE TypeInv'
  BY <1>8 DEF ReadEnd, OutputEnded, Goto, input, output, process
<1>9. ASSUME NEW c \in Calls, PollTimeout(c) PROVE TypeInv'
  BY <1>9 DEF PollTimeout, Goto, input, output, process
<1>10. ASSUME NEW c \in Calls, Deadline(c) PROVE TypeInv'
  BY <1>10 DEF Deadline, Goto, input, output, process
<1>11. ASSUME NEW c \in Calls, Kill(c) PROVE TypeInv'
  BY <1>11 DEF Kill, Killed, AfterSigkill, Running, Goto, input, output, process
<1>12. ASSUME NEW c \in Calls, Check(c) PROVE TypeInv'
  <2>1. /\ pc[c] = "checking" /\ pc' \in [Calls -> CallStates]
        /\ child' \in [Calls -> ChildStates]
    BY <1>12 DEF Check, Goto
  <2>2. \A d \in Calls : pc'[d] \in Registered <=> pc[d] \in Registered
    BY <1>12 DEF Check, Goto
  <2>3. \A d \in Calls : pc'[d] \in {"reaped", "done"} => pc'[d] = pc[d] /\ child'[d] = child[d]
    BY <1>12 DEF Check, Goto
  <2> QED BY <1>12, <2>1, <2>2, <2>3 DEF Check, input, output
<1>13. ASSUME NEW c \in Calls, Drain(c) PROVE TypeInv'
  <2>1. c \notin open => stdout[c] = 0
    BY <1>13 DEF Drain, StageInv, PipeKept
  <2>2. Drained(c) = collected[c] + stdout[c]
    BY <2>1 DEF Drained
  <2> QED BY <1>13, <2>2 DEF Drain, Goto, input, process
<1>14. ASSUME NEW c \in Calls, Wait(c) PROVE TypeInv'
  BY <1>14 DEF Wait, Goto, input, output, process
<1>15. ASSUME NEW c \in Calls, Return(c) PROVE TypeInv'
  BY <1>15 DEF Return, Unregistered, MutexFree, Goto, input, output, process
<1>16. ASSUME NEW c \in Calls, ChildSetpgid(c) PROVE TypeInv'
  BY <1>16 DEF ChildSetpgid, Goto, input, output, process
<1>17. ASSUME NEW c \in Calls, ChildReads(c) PROVE TypeInv'
  BY <1>17 DEF ChildReads, Running, Goto, input, output, process
<1>18. ASSUME NEW c \in Calls, ChildWrites(c) PROVE TypeInv'
  BY <1>18 DEF ChildWrites, Goto, input, output, process
<1>19. ASSUME NEW c \in Calls, ChildClosesOutput(c) PROVE TypeInv'
  BY <1>19 DEF ChildClosesOutput, Goto, input, output, process
<1>20. ASSUME NEW c \in Calls, ChildSpawns(c) PROVE TypeInv'
  BY <1>20 DEF ChildSpawns, Goto, input, output, process
<1>21. ASSUME NEW c \in Calls, ChildExits(c) PROVE TypeInv'
  BY <1>21 DEF ChildExits, Running, Goto, input, output, process
<1>22. ASSUME NEW c \in Calls, DescendantExits(c) PROVE TypeInv'
  BY <1>22 DEF DescendantExits, Goto, input, output, process
<1>23. CASE KillAllBegin
  BY <1>23 DEF KillAllBegin, MutexFree, input, output, process
<1>24. CASE KillAllEnd
  BY <1>24 DEF KillAllEnd, Killed, AfterSigkill, Running, input, output
<1>25. CASE UNCHANGED vars
  BY <1>25 DEF vars, input, output, process
<1> QED BY <1>1, <1>2, <1>3, <1>4, <1>5, <1>6, <1>7, <1>8, <1>9, <1>10, <1>11, <1>12, <1>13, <1>14, <1>15, <1>16, <1>17, <1>18, <1>19, <1>20, <1>21, <1>22, <1>23, <1>24, <1>25 DEF Next, Advance, Child

LEMMA ChildStep == Inv /\ [Next]_vars => ChildKept'
<1> SUFFICES ASSUME Inv, [Next]_vars PROVE ChildKept'
  OBVIOUS
<1> USE ProcessAssumption DEF Inv, TypeInv, TypeOK, StageInv, ChildKept, Polled, Left, CallStates, Registered
<1>1. ASSUME NEW c \in Calls, OpenPipes(c) PROVE ChildKept'
  BY <1>1 DEF OpenPipes, Goto, input, output, process
<1>2. ASSUME NEW c \in Calls, ForkFails(c) PROVE ChildKept'
  BY <1>2 DEF ForkFails, Goto, input, output, process
<1>3. ASSUME NEW c \in Calls, Fork(c) PROVE ChildKept'
  BY <1>3 DEF Fork, Goto, input, output, process
<1>4. ASSUME NEW c \in Calls, Register(c) PROVE ChildKept'
  BY <1>4 DEF Register, MutexFree, Goto, input, output, process
<1>5. ASSUME NEW c \in Calls, WriteStdin(c) PROVE ChildKept'
  BY <1>5 DEF WriteStdin, Goto, input, output, process
<1>6. ASSUME NEW c \in Calls, BeginPolling(c) PROVE ChildKept'
  BY <1>6 DEF BeginPolling, Goto, input, output, process
<1>7. ASSUME NEW c \in Calls, Read(c) PROVE ChildKept'
  BY <1>7 DEF Read, Goto, input, output, process
<1>8. ASSUME NEW c \in Calls, ReadEnd(c) PROVE ChildKept'
  BY <1>8 DEF ReadEnd, OutputEnded, Goto, input, output, process
<1>9. ASSUME NEW c \in Calls, PollTimeout(c) PROVE ChildKept'
  BY <1>9 DEF PollTimeout, Goto, input, output, process
<1>10. ASSUME NEW c \in Calls, Deadline(c) PROVE ChildKept'
  BY <1>10 DEF Deadline, Goto, input, output, process
<1>11. ASSUME NEW c \in Calls, Kill(c) PROVE ChildKept'
  BY <1>11 DEF Kill, Killed, AfterSigkill, Running, Goto, input, output, process
<1>12. ASSUME NEW c \in Calls, Check(c) PROVE ChildKept'
  BY <1>12 DEF Check, ExitNoticed, Goto, PipeKept
<1>13. ASSUME NEW c \in Calls, Drain(c) PROVE ChildKept'
  <2>1. child' = child /\ pc'[c] \in {"reaped", "waiting"} /\ pc[c] = "draining"
    BY <1>13 DEF Drain, Goto, process
  <2>2. \A d \in Calls : d # c => pc'[d] = pc[d]
    BY <1>13 DEF Drain, Goto
  <2> QED BY <2>1, <2>2
<1>14. ASSUME NEW c \in Calls, Wait(c) PROVE ChildKept'
  BY <1>14 DEF Wait, Goto, input, output, process
<1>15. ASSUME NEW c \in Calls, Return(c) PROVE ChildKept'
  BY <1>15 DEF Return, Unregistered, MutexFree, Goto, input, output, process
<1>16. ASSUME NEW c \in Calls, ChildSetpgid(c) PROVE ChildKept'
  BY <1>16 DEF ChildSetpgid, Goto, input, output, process
<1>17. ASSUME NEW c \in Calls, ChildReads(c) PROVE ChildKept'
  BY <1>17 DEF ChildReads, Running, Goto, input, output, process
<1>18. ASSUME NEW c \in Calls, ChildWrites(c) PROVE ChildKept'
  BY <1>18 DEF ChildWrites, Goto, input, output, process
<1>19. ASSUME NEW c \in Calls, ChildClosesOutput(c) PROVE ChildKept'
  BY <1>19 DEF ChildClosesOutput, Goto, input, output, process
<1>20. ASSUME NEW c \in Calls, ChildSpawns(c) PROVE ChildKept'
  BY <1>20 DEF ChildSpawns, Goto, input, output, process
<1>21. ASSUME NEW c \in Calls, ChildExits(c) PROVE ChildKept'
  BY <1>21 DEF ChildExits, Running, Goto, input, output, process
<1>22. ASSUME NEW c \in Calls, DescendantExits(c) PROVE ChildKept'
  BY <1>22 DEF DescendantExits, Goto, input, output, process
<1>23. CASE KillAllBegin
  BY <1>23 DEF KillAllBegin, MutexFree, input, output, process
<1>24. CASE KillAllEnd
  BY <1>24 DEF KillAllEnd, Killed, AfterSigkill, Running, input, output
<1>25. CASE UNCHANGED vars
  BY <1>25 DEF vars, input, output, process
<1> QED BY <1>1, <1>2, <1>3, <1>4, <1>5, <1>6, <1>7, <1>8, <1>9, <1>10, <1>11, <1>12, <1>13, <1>14, <1>15, <1>16, <1>17, <1>18, <1>19, <1>20, <1>21, <1>22, <1>23, <1>24, <1>25 DEF Next, Advance, Child

LEMMA PipeStep == Inv /\ [Next]_vars => PipeKept'
<1> SUFFICES ASSUME Inv, [Next]_vars PROVE PipeKept'
  OBVIOUS
<1> USE ProcessAssumption DEF Inv, TypeInv, TypeOK, StageInv, ChildKept, PipeKept, Polled, Left, CallStates, Registered
<1>1. ASSUME NEW c \in Calls, OpenPipes(c) PROVE PipeKept'
  BY <1>1 DEF OpenPipes, Goto, input, output, process
<1>2. ASSUME NEW c \in Calls, ForkFails(c) PROVE PipeKept'
  BY <1>2 DEF ForkFails, Goto, input, output, process
<1>3. ASSUME NEW c \in Calls, Fork(c) PROVE PipeKept'
  BY <1>3 DEF Fork, Goto, input, output, process
<1>4. ASSUME NEW c \in Calls, Register(c) PROVE PipeKept'
  BY <1>4 DEF Register, MutexFree, Goto, input, output, process
<1>5. ASSUME NEW c \in Calls, WriteStdin(c) PROVE PipeKept'
  BY <1>5 DEF WriteStdin, Goto, input, output, process
<1>6. ASSUME NEW c \in Calls, BeginPolling(c) PROVE PipeKept'
  BY <1>6 DEF BeginPolling, Goto, input, output, process
<1>7. ASSUME NEW c \in Calls, Read(c) PROVE PipeKept'
  BY <1>7 DEF Read, Goto, input, output, process
<1>8. ASSUME NEW c \in Calls, ReadEnd(c) PROVE PipeKept'
  BY <1>8 DEF ReadEnd, OutputEnded, Goto, input, output, process
<1>9. ASSUME NEW c \in Calls, PollTimeout(c) PROVE PipeKept'
  BY <1>9 DEF PollTimeout, Goto, input, output, process
<1>10. ASSUME NEW c \in Calls, Deadline(c) PROVE PipeKept'
  BY <1>10 DEF Deadline, Goto, input, output, process
<1>11. ASSUME NEW c \in Calls, Kill(c) PROVE PipeKept'
  BY <1>11 DEF Kill, Killed, AfterSigkill, Running, Goto, input, output, process
<1>12. ASSUME NEW c \in Calls, Check(c) PROVE PipeKept'
  BY <1>12 DEF Check, ExitNoticed, Goto, input, output, process
<1>13. ASSUME NEW c \in Calls, Drain(c) PROVE PipeKept'
  BY <1>13 DEF Drain, Drained, Goto, input, output, process
<1>14. ASSUME NEW c \in Calls, Wait(c) PROVE PipeKept'
  BY <1>14 DEF Wait, Goto, input, output, process
<1>15. ASSUME NEW c \in Calls, Return(c) PROVE PipeKept'
  BY <1>15 DEF Return, Unregistered, MutexFree, Goto, input, output, process
<1>16. ASSUME NEW c \in Calls, ChildSetpgid(c) PROVE PipeKept'
  BY <1>16 DEF ChildSetpgid, Goto, input, output, process
<1>17. ASSUME NEW c \in Calls, ChildReads(c) PROVE PipeKept'
  BY <1>17 DEF ChildReads, Running, Goto, input, output, process
<1>18. ASSUME NEW c \in Calls, ChildWrites(c) PROVE PipeKept'
  BY <1>18 DEF ChildWrites, Goto, input, output, process
<1>19. ASSUME NEW c \in Calls, ChildClosesOutput(c) PROVE PipeKept'
  BY <1>19 DEF ChildClosesOutput, Goto, input, output, process
<1>20. ASSUME NEW c \in Calls, ChildSpawns(c) PROVE PipeKept'
  BY <1>20 DEF ChildSpawns, Goto, input, output, process
<1>21. ASSUME NEW c \in Calls, ChildExits(c) PROVE PipeKept'
  BY <1>21 DEF ChildExits, Running, Goto, input, output, process
<1>22. ASSUME NEW c \in Calls, DescendantExits(c) PROVE PipeKept'
  BY <1>22 DEF DescendantExits, Goto, input, output, process
<1>23. CASE KillAllBegin
  BY <1>23 DEF KillAllBegin, MutexFree, input, output, process
<1>24. CASE KillAllEnd
  BY <1>24 DEF KillAllEnd, Killed, AfterSigkill, Running, input, output
<1>25. CASE UNCHANGED vars
  BY <1>25 DEF vars, input, output, process
<1> QED BY <1>1, <1>2, <1>3, <1>4, <1>5, <1>6, <1>7, <1>8, <1>9, <1>10, <1>11, <1>12, <1>13, <1>14, <1>15, <1>16, <1>17, <1>18, <1>19, <1>20, <1>21, <1>22, <1>23, <1>24, <1>25 DEF Next, Advance, Child

LEMMA KillStep == Inv /\ [Next]_vars => KillKept'
<1> SUFFICES ASSUME Inv, [Next]_vars PROVE KillKept'
  OBVIOUS
<1> USE ProcessAssumption DEF Inv, TypeInv, TypeOK, StageInv, ChildKept, KillKept, Polled, Left, CallStates, ChildStates, Registered
<1>1. ASSUME NEW c \in Calls, OpenPipes(c) PROVE KillKept'
  BY <1>1 DEF OpenPipes, Goto, input, output, process
<1>2. ASSUME NEW c \in Calls, ForkFails(c) PROVE KillKept'
  BY <1>2 DEF ForkFails, Goto, input, output, process
<1>3. ASSUME NEW c \in Calls, Fork(c) PROVE KillKept'
  BY <1>3 DEF Fork, Goto, input, output, process
<1>4. ASSUME NEW c \in Calls, Register(c) PROVE KillKept'
  BY <1>4 DEF Register, MutexFree, Goto, input, output, process
<1>5. ASSUME NEW c \in Calls, WriteStdin(c) PROVE KillKept'
  BY <1>5 DEF WriteStdin, Goto, input, output, process
<1>6. ASSUME NEW c \in Calls, BeginPolling(c) PROVE KillKept'
  BY <1>6 DEF BeginPolling, Goto, input, output, process
<1>7. ASSUME NEW c \in Calls, Read(c) PROVE KillKept'
  BY <1>7 DEF Read, Goto, input, output, process
<1>8. ASSUME NEW c \in Calls, ReadEnd(c) PROVE KillKept'
  BY <1>8 DEF ReadEnd, OutputEnded, Goto, input, output, process
<1>9. ASSUME NEW c \in Calls, PollTimeout(c) PROVE KillKept'
  BY <1>9 DEF PollTimeout, Goto, input, output, process
<1>10. ASSUME NEW c \in Calls, Deadline(c) PROVE KillKept'
  BY <1>10 DEF Deadline, Goto, input, output, process
<1>11. ASSUME NEW c \in Calls, Kill(c) PROVE KillKept'
  BY <1>11 DEF Kill, Killed, AfterSigkill, Running, Goto, input, output, process
<1>12. ASSUME NEW c \in Calls, Check(c) PROVE KillKept'
  BY <1>12 DEF Check, ExitNoticed, Goto, input, output, process
<1>13. ASSUME NEW c \in Calls, Drain(c) PROVE KillKept'
  BY <1>13 DEF Drain, Drained, Goto, input, output, process
<1>14. ASSUME NEW c \in Calls, Wait(c) PROVE KillKept'
  BY <1>14 DEF Wait, Goto, input, output, process
<1>15. ASSUME NEW c \in Calls, Return(c) PROVE KillKept'
  BY <1>15 DEF Return, Unregistered, MutexFree, Goto, input, output, process
<1>16. ASSUME NEW c \in Calls, ChildSetpgid(c) PROVE KillKept'
  BY <1>16 DEF ChildSetpgid, Goto, input, output, process
<1>17. ASSUME NEW c \in Calls, ChildReads(c) PROVE KillKept'
  BY <1>17 DEF ChildReads, Running, Goto, input, output, process
<1>18. ASSUME NEW c \in Calls, ChildWrites(c) PROVE KillKept'
  BY <1>18 DEF ChildWrites, Goto, input, output, process
<1>19. ASSUME NEW c \in Calls, ChildClosesOutput(c) PROVE KillKept'
  BY <1>19 DEF ChildClosesOutput, Goto, input, output, process
<1>20. ASSUME NEW c \in Calls, ChildSpawns(c) PROVE KillKept'
  BY <1>20 DEF ChildSpawns, Goto, input, output, process
<1>21. ASSUME NEW c \in Calls, ChildExits(c) PROVE KillKept'
  BY <1>21 DEF ChildExits, Running, Goto, input, output, process
<1>22. ASSUME NEW c \in Calls, DescendantExits(c) PROVE KillKept'
  BY <1>22 DEF DescendantExits, Goto, input, output, process
<1>23. CASE KillAllBegin
  BY <1>23 DEF KillAllBegin, MutexFree, input, output, process
<1>24. CASE KillAllEnd
  BY <1>24 DEF KillAllEnd, Killed, AfterSigkill, Running, input, output
<1>25. CASE UNCHANGED vars
  BY <1>25 DEF vars, input, output, process
<1> QED BY <1>1, <1>2, <1>3, <1>4, <1>5, <1>6, <1>7, <1>8, <1>9, <1>10, <1>11, <1>12, <1>13, <1>14, <1>15, <1>16, <1>17, <1>18, <1>19, <1>20, <1>21, <1>22, <1>23, <1>24, <1>25 DEF Next, Advance, Child

LEMMA NextInv == Inv /\ [Next]_vars => Inv'
BY TypeStep, ChildStep, PipeStep, KillStep DEF Inv, StageInv

THEOREM Invariance == Spec => []Inv
BY InitInv, NextInv, PTL DEF Spec

-----------------------------------------------------------------------------
(* Types, and active_pids_: kill_all() signals no pid that run() has given *)
(* up, whichever calls come and go meanwhile.                              *)
THEOREM TypeCorrect == Spec => []TypeOK
<1>1. Inv => TypeOK
  BY DEF Inv, TypeInv
<1> QED BY <1>1, Invariance, PTL

(* A call that returns hands over every block its child wrote.             *)
THEOREM OutputIsWhole == Spec => []OutputIsComplete
<1>1. Inv => OutputIsComplete
  <2> SUFFICES ASSUME Inv, NEW c \in Calls, pc[c] = "done" PROVE collected[c] = wrote[c]
    BY DEF OutputIsComplete
  <2>1. stdout[c] = 0 /\ collected[c] + stdout[c] = wrote[c] /\ collected[c] \in Nat
    BY DEF Inv, TypeInv, Conserved, StageInv, PipeKept
  <2> QED BY <2>1
<1> QED BY <1>1, Invariance, PTL

(* The group of a call that timed out is gone when the call returns, with  *)
(* what the child had started in the background.                           *)
THEOREM TimeoutsKill == Spec => []TimedOutIsGone
<1>1. Inv => TimedOutIsGone
  <2> SUFFICES ASSUME Inv, NEW c \in timedOut, pc[c] = "done" PROVE ~Live(c)
    BY DEF TimedOutIsGone
  <2>1. child[c] \in {"zombie", "reaped"} /\ c \notin descendant
    BY DEF Inv, StageInv, KillKept, Left
  <2> QED BY <2>1 DEF Live, Running
<1> QED BY <1>1, Invariance, PTL

-----------------------------------------------------------------------------
(***************************************************************************)
(* The runner implements ChildCall: every step is seen by the caller as    *)
(* one of its steps or not at all.                                         *)
(***************************************************************************)
CallStep == [Call!Next]_(Call!vars)

LEMMA CallInit == Init => Call!Init
<1> SUFFICES ASSUME Init PROVE Call!Init
  OBVIOUS
<1>1. /\ Phases = [c \in Calls |-> "idle"] /\ Leaders = [c \in Calls |-> "none"]
      /\ Results = [c \in Calls |-> 0]
  BY DEF Init, Phases, PhaseAt, Leaders, LeaderAt, Results
<1> QED BY <1>1 DEF Init, Call!Init

(* What is seen of a call follows from its label, its child and, once it   *)
(* is over, what it has collected.                                         *)
PhasesStand == \A d \in Calls : PhaseAt(pc'[d]) = PhaseAt(pc[d])
LeadersStand == \A d \in Calls : LeaderAt(child'[d]) = LeaderAt(child[d])
ResultsStand == \A d \in Calls : pc[d] = "done" => collected'[d] = collected[d]

LEMMA PhasesKept == PhasesStand => Phases' = Phases
BY DEF PhasesStand, Phases

LEMMA LeadersKept == LeadersStand => Leaders' = Leaders
BY DEF LeadersStand, Leaders

LEMMA ResultsKept == PhasesStand /\ ResultsStand => Results' = Results
<1> SUFFICES ASSUME PhasesStand, ResultsStand PROVE Results' = Results
  OBVIOUS
<1>1. \A d \in Calls : pc'[d] = "done" <=> pc[d] = "done"
  BY DEF PhasesStand, PhaseAt
<1> QED BY <1>1 DEF ResultsStand, Results

LEMMA Unseen ==
  ASSUME PhasesStand, LeadersStand, ResultsStand, UNCHANGED <<descendant, wrote, timedOut>>
  PROVE  CallStep
BY PhasesKept, LeadersKept, ResultsKept DEF CallStep, Call!vars

(* The steps that a caller can tell.                                       *)
Seen ==
  \/ \E c \in Calls :
       \/ Fork(c) \/ ForkFails(c) \/ Deadline(c) \/ Kill(c) \/ Return(c)
       \/ ChildWrites(c) \/ ChildSpawns(c) \/ ChildExits(c) \/ DescendantExits(c)
  \/ KillAllEnd

LEMMA OthersUnseen ==
  ASSUME Inv, [Next]_vars, ~Seen
  PROVE  CallStep
<1> USE DEF Inv, TypeInv, TypeOK, PhasesStand, LeadersStand, ResultsStand, PhaseAt, LeaderAt, Goto
<1>1. ASSUME NEW c \in Calls, OpenPipes(c) \/ Register(c) \/ ReadEnd(c) \/ PollTimeout(c)
      PROVE  CallStep
  <2>1. PhasesStand
    BY <1>1 DEF OpenPipes, Register, ReadEnd, PollTimeout
  <2>2. UNCHANGED <<process, output, timedOut>>
    BY <1>1 DEF OpenPipes, Register, ReadEnd, PollTimeout
  <2> QED BY <2>1, <2>2, Unseen DEF process, output
<1>2. ASSUME NEW c \in Calls, WriteStdin(c) \/ ChildReads(c) PROVE CallStep
  BY <1>2, Unseen DEF WriteStdin, ChildReads, process, output
<1>3. ASSUME NEW c \in Calls, BeginPolling(c) PROVE CallStep
  BY <1>3, Unseen DEF BeginPolling, output
<1>4. ASSUME NEW c \in Calls, Read(c) PROVE CallStep
  BY <1>4, Unseen DEF Read, process
<1>5. ASSUME NEW c \in Calls, Check(c) PROVE CallStep
  <2>1. PhasesStand
    BY <1>5 DEF Check
  <2>2. LeadersStand
    BY <1>5 DEF Check, ExitNoticed
  <2>3. UNCHANGED <<descendant, wrote, collected, timedOut>>
    BY <1>5 DEF Check, output
  <2> QED BY <2>1, <2>2, <2>3, Unseen
<1>6. ASSUME NEW c \in Calls, Drain(c) PROVE CallStep
  <2>1. PhasesStand
    BY <1>6 DEF Drain
  <2>2. ResultsStand
    BY <1>6 DEF Drain
  <2>3. UNCHANGED <<process, wrote, timedOut>>
    BY <1>6 DEF Drain
  <2> QED BY <2>1, <2>2, <2>3, Unseen DEF process
<1>7. ASSUME NEW c \in Calls, Wait(c) PROVE CallStep
  <2>1. PhasesStand
    BY <1>7 DEF Wait
  <2>2. LeadersStand
    BY <1>7 DEF Wait
  <2>3. UNCHANGED <<descendant, output, timedOut>>
    BY <1>7 DEF Wait
  <2> QED BY <2>1, <2>2, <2>3, Unseen DEF output
<1>8. ASSUME NEW c \in Calls, ChildSetpgid(c) \/ ChildClosesOutput(c) PROVE CallStep
  BY <1>8, Unseen DEF ChildSetpgid, ChildClosesOutput, output
<1>9. CASE KillAllBegin
  BY <1>9, Unseen DEF KillAllBegin, process, output
<1>10. CASE UNCHANGED vars
  BY <1>10, Unseen DEF vars, process, output
<1> QED BY <1>1, <1>2, <1>3, <1>4, <1>5, <1>6, <1>7, <1>8, <1>9, <1>10
        DEF Next, Advance, Child, Seen

LEMMA CallStarts ==
  ASSUME Inv, NEW c \in Calls, Fork(c)
  PROVE  Call!Start(c)
<1> USE DEF Inv, TypeInv, TypeOK
<1>1. /\ pc[c] = "piped" /\ pc' = [pc EXCEPT ![c] = "forked"]
      /\ child' = [child EXCEPT ![c] = "new"]
      /\ UNCHANGED <<descendant, output, timedOut>>
  BY DEF Fork, Goto
<1>2. Phases[c] = "idle" /\ Phases' = [Phases EXCEPT ![c] = "started"]
  BY <1>1 DEF Phases, PhaseAt
<1>3. Leaders' = [Leaders EXCEPT ![c] = "alive"]
  BY <1>1 DEF Leaders, LeaderAt
<1>4. Results' = Results
  BY <1>1 DEF Results, output
<1> QED BY <1>1, <1>2, <1>3, <1>4 DEF Call!Start, Call!returns, output

LEMMA CallFails ==
  ASSUME Inv, NEW c \in Calls, ForkFails(c)
  PROVE  Call!Fail(c)
<1> USE DEF Inv, TypeInv, TypeOK
<1>1. /\ pc[c] = "piped" /\ pc' = [pc EXCEPT ![c] = "failed"]
      /\ UNCHANGED <<process, output, timedOut>>
  BY DEF ForkFails, Goto
<1>2. Phases[c] = "idle" /\ Phases' = [Phases EXCEPT ![c] = "failed"]
  BY <1>1 DEF Phases, PhaseAt
<1>3. Leaders' = Leaders /\ Results' = Results
  BY <1>1 DEF Leaders, Results, process, output
<1> QED BY <1>1, <1>2, <1>3 DEF Call!Fail, Call!family, Call!returns, process, output

LEMMA CallExpires ==
  ASSUME Inv, NEW c \in Calls, Deadline(c)
  PROVE  Call!Expire(c)
<1> USE DEF Inv, TypeInv, TypeOK
<1>1. /\ pc[c] = "polling" /\ pc' = [pc EXCEPT ![c] = "killing"] /\ c \in Deadlined
      /\ timedOut' = timedOut \union {c} /\ UNCHANGED <<process, output>>
  BY DEF Deadline, Goto
<1>2. Phases[c] = "started" /\ Phases' = Phases
  BY <1>1 DEF Phases, PhaseAt
<1>3. Leaders' = Leaders /\ Results' = Results
  BY <1>1 DEF Leaders, Results, process, output
<1> QED BY <1>1, <1>2, <1>3 DEF Call!Expire, Call!family, process, output

(* Neither kill reaches a child before its setpgid.                        *)
LEMMA GroupsKilled ==
  ASSUME Inv, NEW cs \in SUBSET Calls, Killed(cs), PhasesStand, UNCHANGED <<output, timedOut>>,
         \A c \in cs : PhaseAt(pc[c]) = "started" /\ child[c] \notin {"none", "new"}
  PROVE  Call!KillGroups(cs)
<1>1. \A c \in cs : Phases[c] = "started"
  BY DEF Phases
<1>2. \A c \in Calls : LeaderAt(child'[c]) = IF c \in cs THEN "gone" ELSE LeaderAt(child[c])
  BY DEF Killed, AfterSigkill, Running, LeaderAt, Inv, TypeInv, TypeOK, ChildStates
<1>3. Leaders' = [c \in Calls |-> IF c \in cs THEN "gone" ELSE Leaders[c]]
  BY <1>2 DEF Leaders
<1>4. descendant' = descendant \ cs
  BY DEF Killed, AfterSigkill
<1>5. Phases' = Phases /\ Results' = Results
  BY PhasesKept, ResultsKept DEF ResultsStand, output
<1> QED BY <1>1, <1>3, <1>4, <1>5 DEF Call!KillGroups, Call!returns, output

LEMMA CallReturns ==
  ASSUME Inv, NEW c \in Calls, Return(c)
  PROVE  Call!Return(c)
<1> USE DEF Inv, TypeInv, TypeOK
<1>1. /\ pc[c] = "reaped" /\ pc' = [pc EXCEPT ![c] = "done"]
      /\ UNCHANGED <<process, output, timedOut>>
  BY DEF Return, Goto
<1>2. child[c] = "reaped" /\ collected[c] = wrote[c]
  <2>1. stdout[c] = 0 /\ collected[c] + stdout[c] = wrote[c] /\ collected[c] \in Nat
    BY <1>1 DEF Conserved, StageInv, PipeKept
  <2> QED BY <1>1, <2>1
<1>3. c \in timedOut => c \notin descendant
  BY <1>1 DEF StageInv, KillKept, Left
<1>4. Phases[c] = "started" /\ Phases' = [Phases EXCEPT ![c] = "returned"]
  BY <1>1 DEF Phases, PhaseAt
<1>5. Leaders[c] = "gone" /\ Leaders' = Leaders
  BY <1>1, <1>2 DEF Leaders, LeaderAt, process
<1>6. Results' = [Results EXCEPT ![c] = wrote[c]]
  BY <1>1, <1>2 DEF Results, output
<1> QED BY <1>1, <1>3, <1>4, <1>5, <1>6 DEF Call!Return, Call!family, process, output

LEMMA ChildSeen ==
  ASSUME Inv, NEW c \in Calls,
         ChildWrites(c) \/ ChildSpawns(c) \/ ChildExits(c) \/ DescendantExits(c)
  PROVE  CallStep
<1> USE DEF Inv, TypeInv, TypeOK
<1>1. Running(c) => Leaders[c] = "alive"
  BY DEF Running, Leaders, LeaderAt
<1>2. Phases' = Phases
  BY DEF ChildWrites, ChildSpawns, ChildExits, DescendantExits, Phases
<1>3. Results' = Results
  BY DEF ChildWrites, ChildSpawns, ChildExits, DescendantExits, Results, output
<1>4. CASE ChildWrites(c)
  <2>1. Leaders' = Leaders /\ Running(c)
    BY <1>4 DEF ChildWrites, Leaders, process, Running
  <2>2. Call!Write(c)
    BY <1>1, <1>2, <1>3, <1>4, <2>1 DEF ChildWrites, Call!Write, Call!family, Call!returns, process
  <2> QED BY <2>2 DEF CallStep, Call!Next
<1>5. CASE ChildSpawns(c)
  <2>1. Leaders' = Leaders /\ Running(c)
    BY <1>5 DEF ChildSpawns, Leaders, Running
  <2>2. Call!Spawn(c)
    BY <1>1, <1>2, <1>3, <1>5, <2>1 DEF ChildSpawns, Call!Spawn, Call!returns, output
  <2> QED BY <2>2 DEF CallStep, Call!Next
<1>6. CASE ChildExits(c)
  <2>1. Running(c) /\ Leaders' = [Leaders EXCEPT ![c] = "gone"]
    BY <1>6 DEF ChildExits, Leaders, LeaderAt
  <2>2. Call!End(c)
    BY <1>1, <1>2, <1>3, <1>6, <2>1 DEF ChildExits, Call!End, Call!returns, output
  <2> QED BY <2>2 DEF CallStep, Call!Next
<1>7. CASE DescendantExits(c)
  <2>1. Leaders' = Leaders
    BY <1>7 DEF DescendantExits, Leaders
  <2>2. Call!StrayEnds(c)
    BY <1>2, <1>3, <1>7, <2>1 DEF DescendantExits, Call!StrayEnds, Call!returns, output
  <2> QED BY <2>2 DEF CallStep, Call!Next
<1> QED BY <1>4, <1>5, <1>6, <1>7

LEMMA CallSteps == Inv /\ [Next]_vars => CallStep
<1> SUFFICES ASSUME Inv, [Next]_vars PROVE CallStep
  OBVIOUS
<1>1. ASSUME NEW c \in Calls, Fork(c) \/ ForkFails(c) \/ Deadline(c) \/ Return(c) PROVE CallStep
  BY <1>1, CallStarts, CallFails, CallExpires, CallReturns DEF CallStep, Call!Next
<1>2. ASSUME NEW c \in Calls, Kill(c) PROVE CallStep
  <2>1. /\ pc[c] = "killing" /\ pc' = [pc EXCEPT ![c] = "draining"] /\ Killed({c})
        /\ UNCHANGED <<output, timedOut>>
    BY <1>2 DEF Kill, Goto
  <2>2. PhasesStand /\ PhaseAt(pc[c]) = "started"
    BY <2>1 DEF PhasesStand, PhaseAt, Inv, TypeInv, TypeOK
  <2>3. child[c] \notin {"none", "new"}
    BY <2>1 DEF Inv, StageInv, ChildKept, Polled
  <2>4. Call!KillGroups({c})
    BY <2>1, <2>2, <2>3, GroupsKilled
  <2> QED BY <2>4 DEF CallStep, Call!Next
<1>3. CASE KillAllEnd
  <2>1. Killed(active) /\ UNCHANGED <<pc, output, timedOut>> /\ \A c \in active : child[c] # "new"
    BY <1>3 DEF KillAllEnd
  <2>2. active \in SUBSET Calls /\ PhasesStand
    BY <2>1 DEF Inv, TypeInv, TypeOK, PhasesStand
  <2>3. \A c \in active : PhaseAt(pc[c]) = "started" /\ child[c] # "none"
    BY DEF Inv, TypeInv, TypeOK, Registered, PhaseAt, StageInv, ChildKept, Polled, Left
  <2>4. Call!KillGroups(active)
    BY <2>1, <2>2, <2>3, GroupsKilled
  <2> QED BY <2>2, <2>4 DEF CallStep, Call!Next
<1> QED BY <1>1, <1>2, <1>3, ChildSeen, OthersUnseen DEF Seen

(* The runner implements ChildCall: for any number of calls, whatever the  *)
(* children do and whenever somebody cancels, each call returns what its   *)
(* child wrote and leaves nothing behind that ran out of time.             *)
THEOREM RunnerImplementsCall == Spec => ImplementsCall
BY CallInit, CallSteps, Invariance, PTL DEF Spec, ImplementsCall, Call!Spec, CallStep
=============================================================================
