--------------------------- MODULE RunFilesProofs ---------------------------
(***************************************************************************)
(* What holds of the directory of a run for every graph, every sequence of *)
(* commands and edits of any length, and a crash at any step of them.      *)
(***************************************************************************)
EXTENDS RunFiles, Sequences, FiniteSetTheorems, TLAPS

-----------------------------------------------------------------------------
(* Types.                                                                  *)

LEMMA FirstValues ==
  /\ Blank \in Checkpoints /\ NoEngine \in Engines
  /\ NoEngine.completed = {}
BY GraphAssumption, FileAssumption
   DEF Blank, NoEngine, Checkpoints, Engines, NoHash, Versions, Stamps

LEMMA SnapshotType ==
  ASSUME NEW e \in Engines, NEW n \in Nodes
  PROVE  /\ Snapshot(e, n) \in Checkpoints
         /\ Snapshot(e, n).completed = e.completed /\ Snapshot(e, n).cur = n
BY DEF Snapshot, Engines, Checkpoints, Versions

LEMMA EngineType ==
  ASSUME NEW cp \in Checkpoints, NEW g \in Versions, NEW stamp \in Stamps, NEW n \in Nodes
  PROVE  Engine(cp, g, stamp, n) \in Engines /\ Engine(cp, g, stamp, n).completed = cp.completed
BY DEF Engine, Engines, Checkpoints

LEMMA ResumePointsType ==
  ASSUME NEW cp \in Checkpoints, NEW g \in Versions
  PROVE  ResumePoints(cp, g) \subseteq Nodes
<1>1. cp.cur \in Nodes /\ g.shape \in Shapes
  BY DEF Checkpoints, Versions
<1>2. Succ[g.shape][cp.cur] \subseteq Nodes
  BY <1>1, GraphAssumption
<1> QED BY <1>1, <1>2 DEF ResumePoints

(* What is renamed into place has been written to its end.                 *)
WholeWhenSwapped == pc \in {"remove", "rename"} => tmp = saving
TypeInv == TypeOK /\ WholeWhenSwapped

LEMMA TypeInit == Init => TypeInv
<1> SUFFICES ASSUME Init PROVE TypeInv
  OBVIOUS
<1>1. Original \in Versions /\ MaxEdits \in Nat /\ MaxCommands \in Nat
  BY GraphAssumption, FileAssumption
<1> QED BY <1>1, FirstValues DEF Init, TypeInv, TypeOK, WholeWhenSwapped, Files, Reasons

(* A step of a process that may end it keeps the types.                    *)
LEMMA GoOnTypes ==
  ASSUME TypeOK, NEW to, GoOn(to)
  PROVE  /\ eng' \in Engines /\ saving' \in Checkpoints /\ after' \in Reasons
         /\ by' \in {"nobody", "run", "resume", "retry", "server", "operator"}
BY FirstValues DEF GoOn, TypeOK, Reasons

LEMMA TypeStep == TypeInv /\ [Next]_vars => TypeInv'
<1> SUFFICES ASSUME TypeInv, [Next]_vars PROVE TypeInv'
  OBVIOUS
<1> USE DEF TypeInv
<1>1. CASE SaveOpens
  BY <1>1 DEF SaveOpens, TypeOK, WholeWhenSwapped, Files, engine, shared, history, bounds
<1>2. CASE SaveWrites
  BY <1>2 DEF SaveWrites, TypeOK, WholeWhenSwapped, Files, engine, shared, history, bounds
<1>3. CASE SaveRemoves
  BY <1>3 DEF SaveRemoves, TypeOK, WholeWhenSwapped, Files, engine, shared, bounds
<1>4. CASE SaveRenames
  <2>1. tmp \in Checkpoints /\ eng.graph \in Versions /\ saving.cur \in Nodes /\ dot.shape \in Shapes
    BY <1>4 DEF SaveRenames, TypeOK, WholeWhenSwapped, Engines, Checkpoints, Versions
  <2>2. Reach[dot.shape][saving.cur] \subseteq Nodes
    BY <2>1, GraphAssumption
  <2>3. DoneAfterSave \subseteq Nodes
    BY <2>1, <2>2 DEF DoneAfterSave, TypeOK
  <2>4. PcAfterSave \in {"engine", "leave", "resume", "idle"}
    BY DEF PcAfterSave
  <2>5. pc' = PcAfterSave /\ tmp' = Absent /\ file' = tmp
    BY <1>4 DEF SaveRenames, GoOn
  <2>6. /\ eng' \in Engines /\ saving' \in Checkpoints /\ after' \in Reasons
        /\ by' \in {"nobody", "run", "resume", "retry", "server", "operator"}
    BY <1>4, GoOnTypes DEF SaveRenames
  <2>7. made' \in Versions \union {Absent} /\ done' \subseteq Nodes
    BY <1>4, <2>1, <2>3 DEF SaveRenames, TypeOK
  <2> QED BY <1>4, <2>1, <2>4, <2>5, <2>6, <2>7
          DEF SaveRenames, TypeOK, WholeWhenSwapped, Files, shared, bounds
<1>5. CASE StageCompletes
  <2> DEFINE n == eng.cur
             e == [eng EXCEPT !.completed = @ \union {n}, !.hashes[n] = eng.graph.text[n],
                              !.keys = @ \union Output[n]]
  <2>1. n \in Nodes /\ eng.graph.shape \in Shapes /\ eng.graph.text[n] \in {0, 1}
    BY DEF TypeOK, Engines, Versions
  <2>2. Output[n] \subseteq Keys /\ Succ[eng.graph.shape][n] \subseteq Nodes
    BY <2>1, GraphAssumption, FileAssumption
  <2>3. e \in Engines
    BY <2>1, <2>2 DEF TypeOK, Engines
  <2>4. eng' \in Engines
    <3>1. PICK m \in IF Succ[eng.graph.shape][n] = {} THEN {n} ELSE Succ[eng.graph.shape][n] :
            eng' = [e EXCEPT !.cur = m]
      BY <1>5 DEF StageCompletes
    <3>2. m \in Nodes
      BY <2>1, <2>2
    <3> HIDE DEF e
    <3> QED BY <2>3, <3>1, <3>2 DEF Engines
  <2>5. saving' = Snapshot(e, n) /\ after' = "complete" /\ pc' = "save"
    BY <1>5 DEF StageCompletes, BeginSave
  <2>6. saving' \in Checkpoints
    BY <2>1, <2>3, <2>5, SnapshotType
  <2>7. done' \subseteq Nodes
    BY <1>5, <2>1 DEF StageCompletes, TypeOK
  <2> QED BY <1>5, <2>4, <2>5, <2>6, <2>7
          DEF StageCompletes, TypeOK, WholeWhenSwapped, Reasons, shared, bounds
<1>6. CASE StageFails
  <2>1. eng.cur \in Nodes /\ eng.graph.shape \in Shapes
    BY DEF TypeOK, Engines, Versions
  <2>2. Succ[eng.graph.shape][eng.cur] \subseteq Nodes
    BY <2>1, GraphAssumption
  <2>3. saving' = Snapshot(eng, eng.cur) /\ after' \in {"fail", "routed"} /\ pc' = "save"
    BY <1>6 DEF StageFails, BeginSave
  <2>4. saving' \in Checkpoints
    BY <2>1, <2>3, SnapshotType DEF TypeOK
  <2>5. eng' \in Engines
    BY <1>6, <2>2 DEF StageFails, TypeOK, Engines
  <2>6. UNCHANGED <<dot, snapshot, file, tmp, by, shared, history, bounds>>
    BY <1>6 DEF StageFails, BeginSave, history
  <2>7. WholeWhenSwapped'
    BY <2>3 DEF WholeWhenSwapped
  <2>8. after' \in Reasons /\ done' \subseteq Nodes
    BY <2>3, <2>6 DEF Reasons, history, TypeOK
  <2> QED BY <2>3, <2>4, <2>5, <2>6, <2>7, <2>8 DEF TypeOK, shared, bounds, history
<1>7. CASE RetryResumes
  <2>1. /\ eng' \in Engines /\ saving' \in Checkpoints /\ after' \in Reasons
        /\ by' \in {"nobody", "run", "resume", "retry", "server", "operator"}
        /\ pc' \in {"engine", "report"}
    <3>1. CASE Resumable(saving, dot, FALSE)
      <4>1. PICK n \in ResumePoints(saving, dot) : eng' = Engine(saving, dot, NoStamp, n)
        BY <1>7, <3>1 DEF RetryResumes
      <4>2. n \in Nodes
        BY ResumePointsType DEF TypeOK
      <4>3. eng' \in Engines
        BY <4>1, <4>2, EngineType DEF TypeOK, Stamps
      <4> QED BY <1>7, <3>1, <4>3 DEF RetryResumes, TypeOK
    <3>2. CASE ~Resumable(saving, dot, FALSE)
      BY <1>7, <3>2, GoOnTypes DEF RetryResumes, GoOn
    <3> QED BY <3>1, <3>2
  <2> QED BY <1>7, <2>1 DEF RetryResumes, TypeOK, WholeWhenSwapped, history, bounds
<1>8. CASE EnterEngine
  BY <1>8 DEF EnterEngine, TypeOK, WholeWhenSwapped, engine, history, bounds
<1>9. CASE LeaveEngine
  BY <1>9 DEF LeaveEngine, TypeOK, WholeWhenSwapped, engine, history, bounds
<1>10. CASE Report
  <2>1. /\ eng' \in Engines /\ saving' \in Checkpoints /\ after' \in Reasons
        /\ by' \in {"nobody", "run", "resume", "retry", "server", "operator"} /\ pc' = "idle"
    BY <1>10, GoOnTypes DEF Report, GoOn
  <2> QED BY <1>10, <2>1 DEF Report, TypeOK, WholeWhenSwapped, history, bounds
<1>11. CASE Crash
  <2>1. /\ eng' \in Engines /\ saving' \in Checkpoints /\ after' \in Reasons
        /\ by' \in {"nobody", "run", "resume", "retry", "server", "operator"} /\ pc' = "idle"
    BY <1>11, GoOnTypes DEF Crash, GoOn
  <2> QED BY <1>11, <2>1 DEF Crash, TypeOK, WholeWhenSwapped, history, bounds
<1>12. CASE Boot
  BY <1>12 DEF Boot, TypeOK, WholeWhenSwapped, engine, history, bounds
<1>13. CASE Edit
  <2>1. dot' \in Versions
    <3>1. CASE \E n \in Editable : dot' = [dot EXCEPT !.text[n] = 1 - @]
      <4>1. PICK n \in Editable : dot' = [dot EXCEPT !.text[n] = 1 - @]
        BY <3>1
      <4>2. dot.shape \in Shapes /\ dot.text \in [Nodes -> {0, 1}] /\ n \in Nodes
        BY GraphAssumption DEF TypeOK, Versions
      <4>3. 1 - dot.text[n] \in {0, 1}
        BY <4>2
      <4> QED BY <4>1, <4>2, <4>3 DEF TypeOK, Versions
    <3>2. CASE \E g \in Shapes \ {dot.shape} : dot' = [dot EXCEPT !.shape = g]
      BY <3>2 DEF TypeOK, Versions
    <3> QED BY <1>13, <3>1, <3>2 DEF Edit
  <2>2. edits' \in 0..MaxEdits /\ commands' \in 0..MaxCommands
    BY <1>13, FileAssumption DEF Edit, Command, TypeOK
  <2> QED BY <1>13, <2>1, <2>2 DEF Edit, Command, TypeOK, WholeWhenSwapped, engine, shared, history
<1>14. ASSUME NEW who \in {"run", "server"}, Run(who) PROVE TypeInv'
  <2>1. eng' \in Engines
    BY <1>14, GraphAssumption, FileAssumption DEF Run, TypeOK, Engines, NoHash, Stamps
  <2>2. commands' \in 0..MaxCommands
    BY <1>14, FileAssumption DEF Run, Command, TypeOK
  <2>3. snapshot' \in Versions \union {Absent}
    BY <1>14 DEF Run, TypeOK
  <2> QED BY <1>14, <2>1, <2>2, <2>3 DEF Run, TypeOK, WholeWhenSwapped
<1>15. ASSUME NEW who \in {"resume", "server"}, NEW choice \in Choices, NEW strict \in BOOLEAN,
              Resume(who, choice, strict)
       PROVE TypeInv'
  <2>1. eng' \in Engines
    <3>1. PICK g : g = ResumeGraph(file, choice)
      OBVIOUS
    <3>2. g \in Versions
      BY <1>15, <3>1 DEF Resume, ResumeGraph, TypeOK
    <3>3. PICK n \in ResumePoints(file, g) : eng' = Engine(file, g, g, n)
      BY <1>15, <3>1 DEF Resume
    <3>4. n \in Nodes /\ g \in Stamps /\ file \in Checkpoints
      BY <1>15, <3>2, <3>3, ResumePointsType DEF Resume, Stamps
    <3> QED BY <3>2, <3>3, <3>4, EngineType
  <2>2. commands' \in 0..MaxCommands
    BY <1>15, FileAssumption DEF Resume, Command, TypeOK
  <2> QED BY <1>15, <2>1, <2>2 DEF Resume, TypeOK, WholeWhenSwapped, history
<1>16. ASSUME NEW n \in Nodes, Retry(n) PROVE TypeInv'
  <2>1. saving' = RetryCheckpoint(file, n) /\ after' = "retry" /\ pc' = "save"
    BY <1>16 DEF Retry, BeginSave
  <2>2. saving' \in Checkpoints
    BY <1>16, <2>1 DEF Retry, RetryCheckpoint, Checkpoints
  <2>3. commands' \in 0..MaxCommands
    BY <1>16, FileAssumption DEF Retry, Command, TypeOK
  <2> QED BY <1>16, <2>1, <2>2, <2>3
          DEF Retry, TypeOK, WholeWhenSwapped, Reasons, engine, shared, history
<1>17. ASSUME NEW n \in Nodes, NEW ok \in BOOLEAN, Mark(n, ok) PROVE TypeInv'
  <2>1. after' \in {"mark ok", "mark failed"} /\ pc' = "save"
    BY <1>17 DEF Mark, BeginSave
  <2>2. Output[n] \subseteq Keys
    BY FileAssumption
  <2>3. saving' \in Checkpoints
    <3>1. file \in Checkpoints
      BY <1>17 DEF Mark
    <3>2. CASE ok
      <4>1. saving' = [file EXCEPT !.cur = n, !.completed = @ \union {n}, !.keys = @ \union Output[n]]
        BY <1>17, <3>2 DEF Mark, BeginSave
      <4> QED BY <2>2, <3>1, <4>1 DEF Checkpoints
    <3>3. CASE ~ok
      <4>1. saving' = [file EXCEPT !.cur = n, !.completed = @ \ {n}]
        BY <1>17, <3>3 DEF Mark, BeginSave
      <4> QED BY <3>1, <4>1 DEF Checkpoints
    <3> QED BY <3>2, <3>3
  <2>4. commands' \in 0..MaxCommands
    <3>1. commands < MaxCommands /\ commands' = commands + 1
      BY <1>17 DEF Mark, Command
    <3> QED BY <3>1, FileAssumption DEF TypeOK
  <2> QED BY <1>17, <2>1, <2>3, <2>4
          DEF Mark, TypeOK, WholeWhenSwapped, Reasons, engine, shared, history
<1>18. ASSUME NEW n \in Nodes, Advance(n) PROVE TypeInv'
  <2>1. saving' = [file EXCEPT !.cur = n] /\ after' = "advance" /\ pc' = "save"
    BY <1>18 DEF Advance, BeginSave
  <2>2. saving' \in Checkpoints
    BY <1>18, <2>1 DEF Advance, Checkpoints
  <2>3. commands' \in 0..MaxCommands
    BY <1>18, FileAssumption DEF Advance, Command, TypeOK
  <2> QED BY <1>18, <2>1, <2>2, <2>3
          DEF Advance, TypeOK, WholeWhenSwapped, Reasons, engine, shared, history
<1>19. CASE UNCHANGED vars
  BY <1>19 DEF vars, TypeOK, WholeWhenSwapped
<1> QED
  BY <1>1, <1>2, <1>3, <1>4, <1>5, <1>6, <1>7, <1>8, <1>9, <1>10, <1>11, <1>12, <1>13, <1>14,
     <1>15, <1>16, <1>17, <1>18, <1>19 DEF Next, Save

THEOREM TypeInvariant == Spec => []TypeInv
<1> QED BY TypeInit, TypeStep, PTL DEF Spec

(* The types hold in every state; above all, checkpoint.json is a whole    *)
(* checkpoint if it is there at all, wherever a save was cut off.          *)
THEOREM TypeCorrect == Spec => []TypeOK
<1>1. TypeInv => TypeOK
  BY DEF TypeInv
<1> QED BY <1>1, TypeInvariant, PTL

-----------------------------------------------------------------------------
(* No crash loses what was saved last. A process that works on the         *)
(* directory began with the file in place, or with a run that gave the old *)
(* checkpoint up; only between the last two steps of a save is it away.    *)
LatestInv ==
  /\ pc = "rename" => file = Absent /\ tmp = latest
  /\ latest # Absent /\ pc \notin {"rename", "idle"} => file = latest
  /\ latest # Absent /\ pc = "idle" => file = latest \/ (file = Absent /\ tmp = latest)

LEMMA LatestStep == TypeInv /\ LatestInv /\ [Next]_vars => LatestInv'
<1> SUFFICES ASSUME TypeInv, LatestInv, [Next]_vars PROVE LatestInv'
  OBVIOUS
<1>1. CASE SaveOpens
  BY <1>1 DEF SaveOpens, LatestInv, history
<1>2. CASE SaveWrites
  BY <1>2 DEF SaveWrites, LatestInv, history
<1>3. CASE SaveRemoves
  BY <1>3 DEF SaveRemoves, LatestInv
<1>4. CASE SaveRenames
  BY <1>4 DEF SaveRenames, GoOn, PcAfterSave, LatestInv
<1>5. CASE StageCompletes
  BY <1>5 DEF StageCompletes, BeginSave, LatestInv
<1>6. CASE StageFails
  BY <1>6 DEF StageFails, BeginSave, LatestInv, history
<1>7. CASE RetryResumes
  BY <1>7 DEF RetryResumes, GoOn, LatestInv, history
<1>8. CASE EnterEngine \/ LeaveEngine \/ Report \/ Boot
  BY <1>8 DEF EnterEngine, LeaveEngine, Report, Boot, GoOn, LatestInv, history
<1>9. CASE Crash
  BY <1>9 DEF Crash, GoOn, LatestInv, history
<1>10. CASE Edit
  BY <1>10 DEF Edit, Command, LatestInv, history
<1>11. ASSUME NEW who \in {"run", "server"}, Run(who) PROVE LatestInv'
  BY <1>11 DEF Run, LatestInv
<1>12. ASSUME NEW who \in {"resume", "server"}, NEW choice \in Choices, NEW strict \in BOOLEAN,
              Resume(who, choice, strict)
       PROVE LatestInv'
  BY <1>12, FileAssumption DEF Resume, Command, LatestInv, history
<1>13. ASSUME NEW n \in Nodes, Retry(n) \/ Advance(n) \/ Mark(n, TRUE) \/ Mark(n, FALSE)
       PROVE LatestInv'
  BY <1>13, FileAssumption DEF Retry, Advance, Mark, BeginSave, Command, LatestInv, history
<1>14. CASE UNCHANGED vars
  BY <1>14 DEF vars, LatestInv
<1> QED
  BY <1>1, <1>2, <1>3, <1>4, <1>5, <1>6, <1>7, <1>8, <1>9, <1>10, <1>11, <1>12, <1>13, <1>14
  DEF Next, Save

(* No crash loses what was saved last: checkpoint.json is it, or the       *)
(* temporary file is, whole, until a new run gives it up.                  *)
THEOREM SavesAreKept == Spec => []LatestIsOnDisk
<1>1. Init => LatestInv
  BY DEF Init, LatestInv
<1>2. LatestInv => LatestIsOnDisk
  BY DEF LatestInv, LatestIsOnDisk
<1> QED BY <1>1, <1>2, TypeInvariant, LatestStep, PTL DEF Spec

-----------------------------------------------------------------------------
(* What a resume skips was done. A command's checkpoint is made from the   *)
(* one in the file by its own rule, and by the same rule its save takes    *)
(* nodes back or vouches for them; an engine that is at work holds a list  *)
(* made of nothing but completions and the checkpoint it started from.     *)
ByEngine == {"complete", "fail", "routed"}
DoneInv ==
  /\ SkippedIsDone
  /\ pc \in Saving => saving.completed \subseteq DoneAfterSave
  /\ pc = "resume" => saving.completed \subseteq done
  /\ pc = "idle" \/ (pc \in Saving /\ after \notin ByEngine) => eng.completed = {}

LEMMA DoneInit == Init => DoneInv
BY FirstValues DEF Init, DoneInv, SkippedIsDone, Saving

LEMMA DoneStep == TypeInv /\ DoneInv /\ [Next]_vars => DoneInv'
<1> SUFFICES ASSUME TypeInv, DoneInv, [Next]_vars PROVE DoneInv'
  OBVIOUS
<1>1. CASE SaveOpens
  BY <1>1 DEF SaveOpens, DoneInv, SkippedIsDone, DoneAfterSave, Saving, engine, shared, history
<1>2. CASE SaveWrites
  BY <1>2 DEF SaveWrites, DoneInv, SkippedIsDone, DoneAfterSave, Saving, engine, shared, history
<1>3. CASE SaveRemoves
  BY <1>3 DEF SaveRemoves, DoneInv, SkippedIsDone, DoneAfterSave, Saving, engine, shared
<1>4. CASE SaveRenames
  <2>1. /\ pc = "rename" /\ file' = saving /\ done' = DoneAfterSave
        /\ saving.completed \subseteq DoneAfterSave
    BY <1>4 DEF SaveRenames, TypeInv, WholeWhenSwapped, DoneInv, Saving
  <2>2. pc' = PcAfterSave /\ PcAfterSave \in {"engine", "leave", "resume", "idle"}
    BY <1>4 DEF SaveRenames, GoOn, PcAfterSave
  <2>3. CASE pc' = "idle"
    BY <1>4, <2>1, <2>2, <2>3, FirstValues DEF SaveRenames, GoOn, DoneInv, SkippedIsDone, Saving
  <2>4. CASE pc' # "idle"
    <3>1. UNCHANGED <<eng, saving, after>>
      BY <1>4, <2>2, <2>4 DEF SaveRenames, GoOn
    <3>2. CASE after \in ByEngine
      <4>1. done' = done
        BY <2>1, <3>2 DEF DoneAfterSave, ByEngine
      <4> QED BY <2>1, <2>2, <2>4, <3>1, <4>1 DEF DoneInv, SkippedIsDone, Saving
    <3>3. CASE after \notin ByEngine
      BY <2>1, <2>2, <2>4, <3>1, <3>3 DEF DoneInv, SkippedIsDone, Saving
    <3> QED BY <3>2, <3>3
  <2> QED BY <2>3, <2>4
<1>5. CASE StageCompletes
  <2> DEFINE n == eng.cur
             e == [eng EXCEPT !.completed = @ \union {n}, !.hashes[n] = eng.graph.text[n],
                              !.keys = @ \union Output[n]]
  <2>1. e.completed = eng.completed \union {n} /\ \A m : [e EXCEPT !.cur = m].completed = e.completed
    BY DEF TypeInv, TypeOK, Engines
  <2>2. /\ saving' = Snapshot(e, n) /\ after' = "complete" /\ pc' = "save"
        /\ done' = done \union {n} /\ UNCHANGED file
        /\ \E m : eng' = [e EXCEPT !.cur = m]
    BY <1>5 DEF StageCompletes, BeginSave
  <2>3. eng'.completed = e.completed /\ saving'.completed = e.completed
    <3> HIDE DEF e
    <3> QED BY <2>1, <2>2 DEF Snapshot
  <2>4. DoneAfterSave' = done'
    BY <2>2 DEF DoneAfterSave
  <2>5. e.completed \subseteq done'
    BY <2>1, <2>2 DEF DoneInv, SkippedIsDone
  <2> HIDE DEF e
  <2> QED BY <2>2, <2>3, <2>4, <2>5 DEF DoneInv, SkippedIsDone, Saving, ByEngine
<1>6. CASE StageFails
  <2>1. /\ saving'.completed = eng.completed /\ after' \in {"fail", "routed"} /\ pc' = "save"
        /\ UNCHANGED <<done, file>>
    BY <1>6 DEF StageFails, BeginSave, Snapshot, history
  <2>2. eng'.completed = eng.completed
    BY <1>6 DEF StageFails, TypeInv, TypeOK, Engines
  <2>3. DoneAfterSave' = done
    BY <2>1 DEF DoneAfterSave
  <2> QED BY <2>1, <2>2, <2>3 DEF DoneInv, SkippedIsDone, Saving, ByEngine
<1>7. CASE RetryResumes
  <2>1. saving.completed \subseteq done /\ UNCHANGED <<done, file>>
    BY <1>7 DEF RetryResumes, DoneInv, history
  <2>2. CASE Resumable(saving, dot, FALSE)
    <3>1. pc' = "engine" /\ eng'.completed = saving.completed
      BY <1>7, <2>2 DEF RetryResumes, Engine
    <3> QED BY <2>1, <3>1 DEF DoneInv, SkippedIsDone, Saving
  <2>3. CASE ~Resumable(saving, dot, FALSE)
    BY <1>7, <2>1, <2>3 DEF RetryResumes, GoOn, DoneInv, SkippedIsDone, Saving
  <2> QED BY <2>2, <2>3
<1>8. CASE EnterEngine \/ LeaveEngine
  BY <1>8 DEF EnterEngine, LeaveEngine, DoneInv, SkippedIsDone, Saving, engine, history
<1>9. CASE Report \/ Crash
  <2>1. pc' = "idle" /\ eng' = NoEngine /\ UNCHANGED <<file, done>>
    BY <1>9 DEF Report, Crash, GoOn, history
  <2> QED BY <2>1, FirstValues DEF DoneInv, SkippedIsDone, Saving
<1>10. CASE Boot
  BY <1>10 DEF Boot, DoneInv, SkippedIsDone, DoneAfterSave, Saving, engine, history
<1>11. CASE Edit
  BY <1>11 DEF Edit, Command, DoneInv, SkippedIsDone, Saving, engine, history
<1>12. ASSUME NEW who \in {"run", "server"}, Run(who) PROVE DoneInv'
  BY <1>12 DEF Run, DoneInv, SkippedIsDone, Saving
<1>13. ASSUME NEW who \in {"resume", "server"}, NEW choice \in Choices, NEW strict \in BOOLEAN,
              Resume(who, choice, strict)
       PROVE DoneInv'
  <2>1. /\ pc' = "engine" /\ UNCHANGED <<file, done>> /\ file \in Checkpoints
        /\ eng'.completed = file.completed
    BY <1>13 DEF Resume, Engine, history
  <2> QED BY <2>1, FileAssumption DEF DoneInv, SkippedIsDone, Saving
<1>14. ASSUME NEW n \in Nodes, Retry(n) \/ Advance(n) \/ Mark(n, TRUE) \/ Mark(n, FALSE)
       PROVE DoneInv'
  <2>1. /\ pc = "idle" /\ pc' = "save" /\ file \in Checkpoints
        /\ UNCHANGED <<dot, file, done, eng>>
    BY <1>14 DEF Retry, Advance, Mark, Command, BeginSave, engine, history
  <2>2. /\ file.completed \subseteq done /\ eng.completed = {}
    BY <2>1, FileAssumption DEF DoneInv, SkippedIsDone
  <2>3. after' \notin ByEngine /\ saving'.completed \subseteq DoneAfterSave'
    <3>1. CASE Retry(n)
      <4>1. after' = "retry" /\ saving'.cur = n
        BY <2>1, <3>1 DEF Retry, BeginSave, RetryCheckpoint, Checkpoints
      <4>2. saving'.completed = file.completed \ Reach[dot.shape][n]
        BY <2>1, <3>1 DEF Retry, BeginSave, RetryCheckpoint, RetryDrops, Checkpoints
      <4> QED BY <2>1, <2>2, <4>1, <4>2 DEF DoneAfterSave, ByEngine
    <3>2. CASE Advance(n)
      <4>1. after' = "advance" /\ saving'.completed = file.completed
        BY <2>1, <3>2 DEF Advance, BeginSave, Checkpoints
      <4> QED BY <2>1, <2>2, <4>1 DEF DoneAfterSave, ByEngine
    <3>3. CASE Mark(n, TRUE)
      <4>1. after' = "mark ok" /\ saving'.cur = n /\ saving'.completed = file.completed \union {n}
        BY <2>1, <3>3 DEF Mark, BeginSave, Checkpoints
      <4> QED BY <2>1, <2>2, <4>1 DEF DoneAfterSave, ByEngine
    <3>4. CASE Mark(n, FALSE)
      <4>1. after' = "mark failed" /\ saving'.cur = n /\ saving'.completed = file.completed \ {n}
        BY <2>1, <3>4 DEF Mark, BeginSave, Checkpoints
      <4> QED BY <2>1, <2>2, <4>1 DEF DoneAfterSave, ByEngine
    <3> QED BY <1>14, <3>1, <3>2, <3>3, <3>4
  <2> QED BY <2>1, <2>2, <2>3 DEF DoneInv, SkippedIsDone, Saving
<1>15. CASE UNCHANGED vars
  BY <1>15 DEF vars, DoneInv, SkippedIsDone, DoneAfterSave, Saving
<1> QED
  BY <1>1, <1>2, <1>3, <1>4, <1>5, <1>6, <1>7, <1>8, <1>9, <1>10, <1>11, <1>12, <1>13, <1>14,
     <1>15 DEF Next, Save

(* Nothing a resume skips is undone, over all commands, edits and crashes. *)
THEOREM SkippedWasDone == Spec => []SkippedIsDone
<1>1. DoneInv => SkippedIsDone
  BY DEF DoneInv
<1> QED BY <1>1, TypeInvariant, DoneInit, DoneStep, PTL DEF Spec

-----------------------------------------------------------------------------
(* The files implement CheckpointStore. What the mapping needs is that the *)
(* temporary file is what is being saved once it has been written, and     *)
(* that checkpoint.json is away before the rename.                         *)

LEMMA StoreInit == Init => Store!Init
BY FileAssumption DEF Init, Store!Init, Held, Saving

(* A step that touches no file begins a save, or its process dies in one,  *)
(* or nothing of the store changes.                                        *)
LEMMA NoFileTouched ==
  ASSUME TypeInv, TypeInv', UNCHANGED <<file, tmp>>,
         \/ pc \notin Saving
         \/ pc' \in Saving /\ saving' = saving
         \/ pc' \notin Saving
  PROVE  [Store!Next]_Store!vars
<1>1. UNCHANGED <<Held, file # Absent>>
  BY DEF Held
<1>2. saving \in Checkpoints /\ saving' \in Checkpoints
  BY DEF TypeInv, TypeOK
<1>3. CASE pc \notin Saving /\ pc' \notin Saving
  BY <1>1, <1>3 DEF Store!vars
<1>4. CASE pc \notin Saving /\ pc' \in Saving
  BY <1>1, <1>2, <1>4 DEF Store!Next, Store!Request
<1>5. CASE pc \in Saving /\ pc' \notin Saving
  BY <1>1, <1>2, <1>5, FileAssumption DEF Store!Next, Store!Die
<1>6. CASE pc \in Saving /\ pc' \in Saving /\ saving' = saving
  BY <1>1, <1>6 DEF Store!vars
<1> QED BY <1>3, <1>4, <1>5, <1>6

LEMMA StoreStep ==
  TypeInv /\ TypeInv' /\ LatestInv /\ [Next]_vars => [Store!Next]_Store!vars
<1> SUFFICES ASSUME TypeInv, TypeInv', LatestInv, [Next]_vars PROVE [Store!Next]_Store!vars
  OBVIOUS
<1> USE FileAssumption
<1>1. CASE SaveOpens
  <2>1. /\ pc \in Saving /\ pc' \in Saving /\ saving' = saving /\ saving \in Checkpoints
        /\ file' = file /\ tmp' \notin Checkpoints
    BY <1>1 DEF SaveOpens, Saving, TypeInv, TypeOK
  <2>2. CASE file # Absent
    BY <2>1, <2>2 DEF Held, Store!vars
  <2>3. CASE file = Absent
    BY <2>1, <2>3 DEF Held, Store!Next, Store!Discard
  <2> QED BY <2>2, <2>3
<1>2. CASE SaveWrites
  <2>1. /\ pc \in Saving /\ pc' \in Saving /\ saving' = saving /\ saving \in Checkpoints
        /\ file' = file /\ tmp' = saving
    BY <1>2 DEF SaveWrites, Saving, TypeInv, TypeOK
  <2>2. CASE file # Absent
    BY <2>1, <2>2 DEF Held, Store!vars
  <2>3. CASE file = Absent
    BY <2>1, <2>3 DEF Held, Store!Next, Store!Commit
  <2> QED BY <2>2, <2>3
<1>3. CASE SaveRemoves
  <2>1. /\ pc \in Saving /\ pc' \in Saving /\ saving' = saving /\ saving \in Checkpoints
        /\ file' = Absent /\ tmp' = saving
    BY <1>3 DEF SaveRemoves, Saving, TypeInv, TypeOK, WholeWhenSwapped
  <2> QED BY <2>1 DEF Held, Store!Next, Store!Commit
<1>4. CASE SaveRenames
  <2>1. /\ pc \in Saving /\ saving \in Checkpoints /\ file = Absent /\ tmp = saving
        /\ file' = saving
    BY <1>4 DEF SaveRenames, Saving, TypeInv, TypeOK, WholeWhenSwapped, LatestInv
  <2>2. pc' \notin Saving
    BY <1>4 DEF SaveRenames, GoOn, PcAfterSave, Saving
  <2> QED BY <2>1, <2>2 DEF Held, Store!Next, Store!Show
<1>5. CASE StageCompletes \/ StageFails \/ RetryResumes
  BY <1>5, NoFileTouched DEF StageCompletes, StageFails, RetryResumes, Saving
<1>6. CASE EnterEngine \/ LeaveEngine \/ Report
  BY <1>6, NoFileTouched DEF EnterEngine, LeaveEngine, Report, Saving
<1>7. CASE Crash
  BY <1>7, NoFileTouched DEF Crash, GoOn, Saving
<1>8. CASE Boot \/ Edit
  <2>1. UNCHANGED <<file, tmp, pc, saving>>
    BY <1>8 DEF Boot, Edit
  <2> QED BY <2>1, NoFileTouched
<1>9. ASSUME NEW who \in {"run", "server"}, Run(who) PROVE [Store!Next]_Store!vars
  BY <1>9, NoFileTouched DEF Run, Command, Saving
<1>10. ASSUME NEW who \in {"resume", "server"}, NEW choice \in Choices, NEW strict \in BOOLEAN,
              Resume(who, choice, strict)
       PROVE [Store!Next]_Store!vars
  BY <1>10, NoFileTouched DEF Resume, Command, Saving
<1>11. ASSUME NEW n \in Nodes, Retry(n) \/ Advance(n) \/ Mark(n, TRUE) \/ Mark(n, FALSE)
       PROVE [Store!Next]_Store!vars
  BY <1>11, NoFileTouched DEF Retry, Advance, Mark, Command, Saving
<1>12. CASE UNCHANGED vars
  BY <1>12, NoFileTouched DEF vars
<1> QED
  BY <1>1, <1>2, <1>3, <1>4, <1>5, <1>6, <1>7, <1>8, <1>9, <1>10, <1>11, <1>12 DEF Next, Save

(* The files of a run implement CheckpointStore: whatever commands run on  *)
(* the directory and wherever they die, a save replaces the checkpoint in  *)
(* one step, and nothing else does.                                        *)
THEOREM FilesImplementStore == Spec => ImplementsStore
<1>1. Init => LatestInv
  BY DEF Init, LatestInv
<1> QED
  BY <1>1, StoreInit, TypeInvariant, LatestStep, StoreStep, PTL
     DEF Spec, ImplementsStore, Store!Spec
-----------------------------------------------------------------------------
(* config.json, which every command and the server share: Settings.        *)
Config == INSTANCE Settings

(* The documents are finite, and stay so.                                  *)
LEMMA DefaultsAreFinite == IsFiniteSet(DOMAIN Config!Defaults)
<1>1. DOMAIN Config!Defaults =
        {<<>>, <<"defaults">>, <<"defaults", "warn">>, <<"defaults", "agent">>, <<"ui">>, <<"ui", "theme">>}
  BY DEF Config!Defaults
<1>2. IsFiniteSet({<<>>} \union {<<"defaults">>})
  BY FS_Singleton, FS_AddElement
<1>3. IsFiniteSet(({<<>>} \union {<<"defaults">>}) \union {<<"defaults", "warn">>})
  BY <1>2, FS_AddElement
<1>4. IsFiniteSet({<<"ui">>} \union {<<"ui", "theme">>})
  BY FS_Singleton, FS_AddElement
<1>5. IsFiniteSet(({<<"ui">>} \union {<<"ui", "theme">>}) \union {<<"defaults", "agent">>})
  BY <1>4, FS_AddElement
<1>6. DOMAIN Config!Defaults =
        (({<<>>} \union {<<"defaults">>}) \union {<<"defaults", "warn">>})
          \union (({<<"ui">>} \union {<<"ui", "theme">>}) \union {<<"defaults", "agent">>})
  BY <1>1
<1>7. IsFiniteSet((({<<>>} \union {<<"defaults">>}) \union {<<"defaults", "warn">>})
          \union (({<<"ui">>} \union {<<"ui", "theme">>}) \union {<<"defaults", "agent">>}))
  BY ONLY <1>3, <1>5, FS_Union
<1> QED BY ONLY <1>6, <1>7

LEMMA MergedIsFinite ==
  ASSUME NEW dst, NEW src, IsFiniteSet(DOMAIN dst), IsFiniteSet(DOMAIN src)
  PROVE  IsFiniteSet(DOMAIN Config!DeepMerge(dst, src))
<1>1. DOMAIN Config!DeepMerge(dst, src) \subseteq DOMAIN dst \union DOMAIN src
  BY DEF Config!DeepMerge
<1> QED BY <1>1, FS_Union, FS_Subset

LEMMA LoadedIsFinite ==
  ASSUME NEW disk, IsFiniteSet(DOMAIN disk)
  PROVE  IsFiniteSet(DOMAIN Config!Load(disk))
BY DefaultsAreFinite, MergedIsFinite DEF Config!Load, Config!EnsureDefaults

Paths == Seq(STRING)

LEMMA PrefixesAreFinite ==
  ASSUME NEW path \in Paths
  PROVE  IsFiniteSet(Config!Prefixes(path)) /\ path \in Config!Prefixes(path) /\ Config!IsPrefix(path, path)
<1>1. Len(path) \in Nat /\ SubSeq(path, 1, Len(path)) = path
  BY DEF Paths
<1>2. IsFiniteSet(0..Len(path))
  BY <1>1, FS_Interval
<1>3. Config!Prefixes(path) = {SubSeq(path, 1, l) : l \in 0..Len(path)}
  BY DEF Config!Prefixes
<1>4. IsFiniteSet({SubSeq(path, 1, l) : l \in 0..Len(path)})
  <2> DEFINE f == [l \in 0..Len(path) |-> SubSeq(path, 1, l)]
  <2>1. f \in Surjection(0..Len(path), {SubSeq(path, 1, l) : l \in 0..Len(path)})
    BY DEF Surjection
  <2> QED BY <1>2, <2>1, FS_Surjection
<1>5. Len(path) \in 0..Len(path) /\ Len(path) <= Len(path)
  BY <1>1
<1>6. path \in {SubSeq(path, 1, l) : l \in 0..Len(path)}
  BY <1>1, <1>5
<1> QED BY <1>3, <1>4, <1>5, <1>6 DEF Config!IsPrefix

(* What is set, unset or merged leaves a finite document.                  *)
LEMMA ChangedIsFinite ==
  ASSUME NEW doc, IsFiniteSet(DOMAIN doc), NEW op, op.path \in Paths,
         op.do \in {"set", "unset", "merge"},
         op.do = "merge" => IsFiniteSet(DOMAIN op.doc)
  PROVE  IsFiniteSet(DOMAIN Config!Change(doc, op))
<1>1. CASE op.do = "set"
  <2>1. Config!Change(doc, op) = Config!SetPath(doc, op.path, Config!Text("new"))
    BY <1>1 DEF Config!Change
  <2>2. DOMAIN Config!SetPath(doc, op.path, Config!Text("new"))
          \subseteq DOMAIN doc \union Config!Prefixes(op.path)
    BY DEF Config!SetPath
  <2>3. IsFiniteSet(DOMAIN doc \union Config!Prefixes(op.path))
    BY PrefixesAreFinite, FS_Union
  <2> QED BY <2>1, <2>2, <2>3, FS_Subset
<1>2. CASE op.do = "unset"
  <2>1. DOMAIN Config!Change(doc, op) \subseteq DOMAIN doc
    BY <1>2 DEF Config!Change, Config!RemovePath
  <2> QED BY <2>1, FS_Subset
<1>3. CASE op.do = "merge"
  BY <1>3, MergedIsFinite DEF Config!Change
<1> QED BY <1>1, <1>2, <1>3

LEMMA KeysAreCounted ==
  ASSUME NEW doc, IsFiniteSet(DOMAIN doc)
  PROVE  Config!KeysOf(doc) \in Nat
<1>1. IsFiniteSet(DOMAIN doc \ {<<>>})
  BY FS_RemoveElement
<1>2. Cardinality(DOMAIN doc \ {<<>>}) \in Nat
  BY <1>1, FS_CardinalityType
<1>3. Config!Cardinality(DOMAIN doc \ {<<>>}) = Cardinality(DOMAIN doc \ {<<>>})
  BY DEF Config!Cardinality, Cardinality, Config!ExistsBijection, ExistsBijection
<1> QED BY <1>2, <1>3 DEF Config!KeysOf

(* Settings, for any file: a process that starts reads every setting of a  *)
(* file that parses as it is there, whatever the defaults are (load of     *)
(* needle_config.cpp).                                                     *)
THEOREM SettingsAreReadAsTheyAre ==
  ASSUME NEW disk
  PROVE  Config!SettingsAreRead(disk)
BY DEF Config!SettingsAreRead, Config!Load, Config!EnsureDefaults, Config!DeepMerge, Config!At

(* And what it holds in memory are these and the defaults.                 *)
LEMMA LoadedKeeps ==
  ASSUME NEW disk, Config!Readable(disk)
  PROVE  \A p \in DOMAIN disk : p \in DOMAIN Config!Load(disk) /\ Config!Load(disk)[p] = disk[p]
BY DEF Config!Load, Config!EnsureDefaults, Config!DeepMerge

(* needle config set and unset, for any file and any path: what they      *)
(* set or unset is so on the disk, and no other setting is touched; what   *)
(* is refused touches none (set, unset and save_impl of needle_config.cpp).*)
THEOREM CommandsLand ==
  ASSUME NEW disk, NEW server, NEW op, op.who = "cli", op.path \in Paths,
         op.do \in {"set", "unset"}
  PROVE  Config!CommandLands(disk, op, Config!Step([disk |-> disk, server |-> server], op).disk)
<1> DEFINE loaded == Config!Load(disk)
           doc == Config!Change(loaded, op)
           refused == Config!Refused(doc, disk)
           saved == Config!Save(doc, disk)
<1>1. saved = IF refused THEN disk ELSE doc
  BY DEF Config!Save
<1>0. Config!Step([disk |-> disk, server |-> server], op).disk = saved
  BY DEF Config!Step
<1>2. /\ op.path \in Config!Prefixes(op.path) /\ Config!IsPrefix(op.path, op.path)
  BY PrefixesAreFinite
<1>3. op.do = "set" => Config!At(doc, op.path) = Config!Text("new")
  BY <1>2 DEF Config!Change, Config!SetPath, Config!At
<1>4. op.do = "unset" => Config!At(doc, op.path) = Config!Null
  BY <1>2 DEF Config!Change, Config!RemovePath, Config!At
<1>5. ASSUME Config!Readable(disk), NEW p \in DOMAIN disk, Config!Apart(p, op.path)
      PROVE  Config!At(doc, p) = disk[p]
  <2>1. p \in DOMAIN loaded /\ loaded[p] = disk[p] /\ p # op.path
    BY <1>2, <1>5, LoadedKeeps DEF Config!Apart
  <2>2. CASE op.do = "set"
    BY <1>5, <2>1, <2>2 DEF Config!Change, Config!SetPath, Config!At, Config!Apart
  <2>3. CASE op.do = "unset"
    BY <1>5, <2>1, <2>3 DEF Config!Change, Config!RemovePath, Config!At, Config!Apart
  <2> QED BY <2>2, <2>3
<1>6. \A p \in DOMAIN disk : Config!At(disk, p) = disk[p]
  BY DEF Config!At
<1> HIDE DEF refused, saved
<1>7. ASSUME refused PROVE Config!CommandLands(disk, op, saved)
  BY <1>1, <1>6, <1>7 DEF Config!CommandLands, refused
<1>8. ASSUME ~refused PROVE Config!CommandLands(disk, op, saved)
  BY <1>1, <1>3, <1>4, <1>5, <1>8 DEF Config!CommandLands, refused
<1> QED BY <1>0, <1>7, <1>8

(* A file that was populated is never left sparse, by a command or by the  *)
(* server, whatever the server has in its memory.                          *)
THEOREM SavesKeepFilesFull ==
  ASSUME NEW disk, IsFiniteSet(DOMAIN disk), NEW server, IsFiniteSet(DOMAIN server),
         NEW op, op.who \in {"cli", "server"}, op.path \in Paths,
         op.do \in {"set", "unset", "merge"}, op.do = "merge" => IsFiniteSet(DOMAIN op.doc)
  PROVE  Config!StaysPopulated(disk, Config!Step([disk |-> disk, server |-> server], op).disk)
<1> DEFINE loaded == IF op.who = "cli" THEN Config!Load(disk) ELSE server
           doc == Config!Change(loaded, op)
           saved == Config!Save(doc, disk)
<1>1. Config!Step([disk |-> disk, server |-> server], op).disk = saved
  BY DEF Config!Step
<1>2. IsFiniteSet(DOMAIN doc)
  BY LoadedIsFinite, ChangedIsFinite
<1>3. Config!KeysOf(doc) \in Nat /\ Config!KeysOf(disk) \in Nat
  BY <1>2, KeysAreCounted
<1> HIDE DEF doc
<1>4. Config!StaysPopulated(disk, saved)
  BY <1>3 DEF Config!StaysPopulated, Config!Save, Config!Refused, Config!Populated, Config!Sparse
<1> QED BY <1>1, <1>4
=============================================================================
