------------------------------ MODULE RunFiles ------------------------------
(***************************************************************************)
(* What one run leaves in its directory, and the commands that pick it up: *)
(* run, resume, retry, stage mark and stage advance, and the server's      *)
(* POST /runs and /resume, which take the same decisions. One process at a *)
(* time works on the directory, as the commands are meant to be used; it   *)
(* may die at any point, and the operator edits the DOT file in between.   *)
(*                                                                         *)
(* A command that is refused changes nothing and is no step. The loop of   *)
(* the engine is reduced to what it saves: see PipelineEngine for it. The  *)
(* status files of the stages are left out: no command reads them.         *)
(***************************************************************************)
EXTENDS Naturals, FiniteSets

CONSTANTS
  Nodes, Start, Exit,
  Shapes,      \* structures the DOT file can have; tells graph hashes apart
  Present,     \* [Shapes -> SUBSET Nodes]: its nodes
  Succ,        \* [Shapes -> [Nodes -> SUBSET Nodes]]: its edges
  Reach,       \* [Shapes -> [Nodes -> SUBSET Nodes]]: Graph::reachable_from
  Original,    \* the version of the DOT file at first
  Editable,    \* nodes whose prompt is edited
  Keys,        \* keys of the context
  VarKeys,     \* those a run starts with
  Output,      \* [Nodes -> SUBSET Keys]: those a stage that completes sets
  Length,      \* [Keys \union Nodes -> Nat]: as strings
  Npos,        \* std::string::npos, the largest size_t
  Within,      \* [Keys -> [Nodes -> BOOLEAN]]: the key contains ".node."
  FoundAt,     \* [Keys -> [Nodes -> Nat]]: where ".node" begins in the key, or Npos
  Absent, Partial, \* no such file; one that is not written to its end
  NoStamp,     \* a checkpoint without a hash of the DOT file
  MaxEdits,    \* bound: edits of the DOT file
  MaxCommands  \* bound: commands, edits among them

Versions == [shape : Shapes, text : [Nodes -> {0, 1}]]
Stamps == Versions \union {NoStamp}
Checkpoints ==
  [cur : Nodes, completed : SUBSET Nodes, hashes : [Nodes -> {0, 1, 2}],
   shape : Shapes, stamp : Stamps, keys : SUBSET Keys]
Files == Checkpoints \union {Absent, Partial}

ASSUME GraphAssumption ==
  /\ Present \in [Shapes -> SUBSET Nodes]
  /\ \A g \in Shapes : {Start, Exit} \subseteq Present[g]
  /\ Succ \in [Shapes -> [Nodes -> SUBSET Nodes]]
  /\ Reach \in [Shapes -> [Nodes -> SUBSET Nodes]]
  /\ Start \in Nodes /\ Exit \in Nodes
  /\ Original \in Versions /\ Editable \subseteq Nodes
ASSUME FileAssumption ==
  /\ Absent \notin Checkpoints /\ Partial \notin Checkpoints /\ Absent # Partial
  /\ NoStamp \notin Versions
  /\ VarKeys \subseteq Keys /\ Output \in [Nodes -> SUBSET Keys]
  /\ MaxEdits \in Nat /\ MaxCommands \in Nat

VARIABLES
  dot,       \* the DOT file
  snapshot,  \* source.dot, or Absent
  file,      \* checkpoint.json
  tmp,       \* checkpoint.json.tmp
  pc,        \* what the process does
  saving,    \* the checkpoint it saves
  after,     \* why it saves it
  eng,       \* the engine's memory
  by,        \* who works on the directory
  pid,       \* engine.pid: none, or that of a process that lives or is dead
  reg,       \* the status of the run in the registry
  done,      \* history: nodes that ran to an end or were marked, since they were last reset
  latest,    \* history: the last checkpoint of this run that took the place of another
  made,      \* history: the version of the DOT file whose engine made checkpoint.json
  edits, commands

engine == <<eng, snapshot>>
shared == <<pid, reg>>
history == <<done, latest, made>>
bounds == <<edits, commands>>
vars == <<dot, snapshot, file, tmp, pc, saving, after, eng, by, pid, reg,
          done, latest, made, edits, commands>>

Engines ==
  [cur : Nodes, completed : SUBSET Nodes, hashes : [Nodes -> {0, 1, 2}],
   graph : Versions, stamp : Stamps, keys : SUBSET Keys]
Reasons == {"none", "complete", "fail", "routed", "mark ok", "mark failed", "retry", "advance"}
NoHash == 2
Blank == [cur |-> Start, completed |-> {}, hashes |-> [n \in Nodes |-> NoHash],
          shape |-> Original.shape, stamp |-> NoStamp, keys |-> {}]
NoEngine == [cur |-> Start, completed |-> {}, hashes |-> [n \in Nodes |-> NoHash],
             graph |-> Original, stamp |-> NoStamp, keys |-> {}]

Init ==
  /\ dot = Original /\ snapshot = Absent
  /\ file = Absent /\ tmp = Absent
  /\ pc = "idle" /\ saving = Blank /\ after = "none" /\ eng = NoEngine
  /\ by = "nobody" /\ pid = "none" /\ reg = "none"
  /\ done = {} /\ latest = Absent /\ made = Absent
  /\ edits = 0 /\ commands = 0

-----------------------------------------------------------------------------
(* Saving a checkpoint: the temporary file is opened, which truncates it,  *)
(* and written; the old checkpoint is removed, for Windows' sake; the      *)
(* temporary file is renamed.                                              *)

(* A process that is over leaves nothing but its files.                    *)
GoOn(to) ==
  /\ pc' = to
  /\ IF to = "idle"
     THEN eng' = NoEngine /\ saving' = Blank /\ after' = "none" /\ by' = "nobody"
     ELSE UNCHANGED <<eng, saving, after, by>>

BeginSave(cp, why) == saving' = cp /\ after' = why /\ pc' = "save"

(* Mutant: the checkpoint is written in place.                             *)
SaveOpensInPlace ==
  /\ pc = "save"
  /\ pc' = "write" /\ tmp' = Partial /\ file' = Partial
  /\ UNCHANGED <<dot, engine, saving, after, by, shared, history, bounds>>

SaveOpens ==
  /\ pc = "save"
  /\ pc' = "write" /\ tmp' = Partial
  /\ UNCHANGED <<dot, engine, file, saving, after, by, shared, history, bounds>>

SaveWrites ==
  /\ pc = "write"
  /\ pc' = "remove" /\ tmp' = saving
  /\ UNCHANGED <<dot, engine, file, saving, after, by, shared, history, bounds>>

(* Mutant: the old checkpoint is removed before the new one is written.    *)
SaveRemovesFirst ==
  /\ pc = "remove" \/ (pc = "save" /\ file # Absent)
  /\ pc' = IF pc = "save" THEN "save" ELSE "rename"
  /\ file' = Absent
  /\ latest' = IF pc = "save" THEN latest ELSE tmp
  /\ UNCHANGED <<dot, engine, tmp, saving, after, by, shared, done, made, bounds>>

SaveRemoves ==
  /\ pc = "remove"
  /\ pc' = "rename" /\ file' = Absent
  /\ latest' = tmp
  /\ UNCHANGED <<dot, engine, tmp, saving, after, by, shared, done, made, bounds>>

(* Mutant: retry resets the node alone.                                    *)
RetryDropsOnly(g, n) == {n}

(* Graph::reachable_from: the node and everything after it.                *)
RetryDrops(g, n) == Reach[g.shape][n]

(* What a command takes back or vouches for is so once it is saved.        *)
DoneAfterSave ==
  IF after = "retry" THEN done \ Reach[dot.shape][saving.cur]
  ELSE IF after = "mark ok" THEN done \union {saving.cur}
  ELSE IF after = "mark failed" THEN done \ {saving.cur} ELSE done

(* What comes after it.                                                    *)
PcAfterSave ==
  IF after = "routed" \/ (after = "complete" /\ saving.cur # Exit) THEN "engine"
  ELSE IF after \in {"complete", "fail"} THEN "leave"
  ELSE IF after = "retry" THEN "resume" ELSE "idle"

(* The save returns.                                                       *)
SaveRenames ==
  /\ pc = "rename"
  /\ file' = tmp /\ tmp' = Absent
  /\ done' = DoneAfterSave
  /\ made' = IF after \in {"complete", "fail", "routed"} THEN eng.graph ELSE made
  /\ GoOn(PcAfterSave)
  /\ UNCHANGED <<dot, snapshot, shared, latest, bounds>>

-----------------------------------------------------------------------------
(* Commands. An operator enters them while nothing works on the directory. *)

Command == pc = "idle" /\ commands < MaxCommands /\ commands' = commands + 1

(* needle run, or POST /runs, which keeps a copy of the DOT file. The run  *)
(* is registered first; nothing is saved before a stage completes.         *)
Run(who) ==
  /\ Command
  /\ eng' = [cur |-> Start, completed |-> {}, hashes |-> [n \in Nodes |-> NoHash],
             graph |-> dot, stamp |-> dot, keys |-> VarKeys]
  /\ snapshot' = IF who = "server" THEN dot ELSE snapshot
  /\ latest' = Absent
  /\ by' = who /\ reg' = "running"
  /\ pc' = "enter"
  /\ UNCHANGED <<dot, file, tmp, saving, after, pid, done, made, edits>>

(* PipelineEngine::run, and it alone, leaves its process id.               *)
EnterEngine ==
  /\ pc = "enter"
  /\ pc' = "engine" /\ pid' = "live"
  /\ UNCHANGED <<dot, engine, file, tmp, saving, after, by, reg, history, bounds>>

(* Both run and resume remove it.                                          *)
LeaveEngine ==
  /\ pc = "leave"
  /\ pc' = "report" /\ pid' = "none"
  /\ UNCHANGED <<dot, engine, file, tmp, saving, after, by, reg, history, bounds>>

(* The outcome is put in the registry, but by needle resume.               *)
Registered == {"run", "retry", "server"}
Report ==
  /\ pc = "report"
  /\ reg' = IF by \notin Registered THEN reg
            ELSE IF after = "complete" THEN "completed" ELSE "failed"
  /\ GoOn("idle")
  /\ UNCHANGED <<dot, snapshot, file, tmp, pid, history, bounds>>

(* ResumeValidator: a checkpoint that names a node the graph no longer has *)
(* is refused; changed completed nodes are looked for only if the hash of  *)
(* the graph differs, which prompts are not part of, and refused only by   *)
(* --strict-graph-hash.                                                    *)
ChangedCompleted(cp, g) ==
  {n \in cp.completed \intersect Present[g.shape] :
     cp.hashes[n] # NoHash /\ cp.hashes[n] # g.text[n]}
Resumable(cp, g, strict) ==
  /\ cp.cur \in Present[g.shape] /\ cp.completed \subseteq Present[g.shape]
  /\ strict /\ cp.shape # g.shape => ChangedCompleted(cp, g) = {}

(* PipelineEngine::resume: past the checkpoint's node if it is complete    *)
(* and an edge leads on from it.                                           *)
ResumePoints(cp, g) ==
  IF cp.cur \in cp.completed /\ Succ[g.shape][cp.cur] # {} THEN Succ[g.shape][cp.cur]
  ELSE {cp.cur}
Engine(cp, g, stamp, cur) ==
  [cur |-> cur, completed |-> cp.completed, hashes |-> cp.hashes,
   graph |-> g, stamp |-> stamp, keys |-> cp.keys]

(* The graph a resume works on, by the operator's choice: the DOT file if  *)
(* it is what the checkpoint was made with or has no hash of it, else only *)
(* if told to reload, else the copy if that is what it was made with.      *)
ResumeGraph(cp, choice) ==
  IF cp.stamp \in {NoStamp, dot} \/ choice = "reload" THEN dot
  ELSE IF choice = "from snapshot" /\ snapshot = cp.stamp THEN snapshot ELSE Absent

Resume(who, choice, strict) ==
  /\ Command
  /\ file \in Checkpoints
  /\ LET g == ResumeGraph(file, choice) IN
     /\ g # Absent /\ Resumable(file, g, strict)
     /\ \E n \in ResumePoints(file, g) : eng' = Engine(file, g, g, n)
  /\ by' = who /\ reg' = IF who = "server" THEN "running" ELSE reg
  /\ pc' = "engine"
  /\ UNCHANGED <<dot, snapshot, file, tmp, saving, after, pid, history, edits>>

(* The keys retry empties, for the nodes it resets: those that contain     *)
(* ".node.", and those that end in ".node", found by comparing where it    *)
(* begins with a difference of lengths that wraps around.                  *)
Cleared(n) ==
  {k \in Keys : Within[k][n] \/ FoundAt[k][n] = (Length[k] + Npos - Length[n]) % (Npos + 1)}
Emptied(reset) == UNION {Cleared(n) : n \in reset}

RetryCheckpoint(cp, n) ==
  LET reset == RetryDrops(dot, n) IN
  [cp EXCEPT !.cur = n, !.completed = @ \ reset, !.keys = @ \ Emptied(reset)]

(* It looks at no hash, and saves before it resumes.                       *)
Retry(n) ==
  /\ Command
  /\ file \in Checkpoints
  /\ n \in Present[dot.shape]
  /\ BeginSave(RetryCheckpoint(file, n), "retry")
  /\ by' = "retry"
  /\ UNCHANGED <<dot, engine, file, tmp, shared, history, edits>>

(* The engine of a retry is given no hash of the DOT file, and saves none. *)
RetryResumes ==
  /\ pc = "resume"
  /\ IF Resumable(saving, dot, FALSE)
     THEN /\ \E n \in ResumePoints(saving, dot) : eng' = Engine(saving, dot, NoStamp, n)
          /\ pc' = "engine" /\ UNCHANGED <<saving, after, by>>
     ELSE GoOn("report")
  /\ reg' = "running"
  /\ UNCHANGED <<dot, snapshot, file, tmp, pid, history, bounds>>

(* StageAdvancer::mark and advance; neither looks at the graph.            *)
Mark(n, ok) ==
  /\ Command
  /\ file \in Checkpoints
  /\ IF ok THEN BeginSave([file EXCEPT !.cur = n, !.completed = @ \union {n},
                                       !.keys = @ \union Output[n]], "mark ok")
           ELSE BeginSave([file EXCEPT !.cur = n, !.completed = @ \ {n}], "mark failed")
  /\ by' = "operator"
  /\ UNCHANGED <<dot, engine, file, tmp, shared, history, edits>>

Advance(n) ==
  /\ Command
  /\ file \in Checkpoints
  /\ BeginSave([file EXCEPT !.cur = n], "advance")
  /\ by' = "operator"
  /\ UNCHANGED <<dot, engine, file, tmp, shared, history, edits>>

-----------------------------------------------------------------------------
(* The engine.                                                             *)

(* save_checkpoint.                                                        *)
Snapshot(e, n) ==
  [cur |-> n, completed |-> e.completed, hashes |-> e.hashes,
   shape |-> e.graph.shape, stamp |-> e.stamp, keys |-> e.keys]

StageCompletes ==
  LET n == eng.cur
      e == [eng EXCEPT !.completed = @ \union {n}, !.hashes[n] = eng.graph.text[n],
                       !.keys = @ \union Output[n]]
      next == Succ[eng.graph.shape][n]
  IN /\ pc = "engine"
     /\ \E m \in IF next = {} THEN {n} ELSE next : eng' = [e EXCEPT !.cur = m]
     /\ BeginSave(Snapshot(e, n), "complete")
     /\ done' = done \union {n}
     /\ UNCHANGED <<dot, snapshot, file, tmp, by, shared, latest, made, bounds>>

(* A stage that fails stays in the list of a run that completed it in an   *)
(* earlier pass. The run ends, or goes on along an edge for failures.      *)
StageFails ==
  /\ pc = "engine" /\ eng.cur # Exit
  /\ \/ BeginSave(Snapshot(eng, eng.cur), "fail") /\ UNCHANGED eng
     \/ /\ BeginSave(Snapshot(eng, eng.cur), "routed")
        /\ \E m \in Succ[eng.graph.shape][eng.cur] : eng' = [eng EXCEPT !.cur = m]
  /\ UNCHANGED <<dot, snapshot, file, tmp, by, shared, history, bounds>>

-----------------------------------------------------------------------------
(* The process dies; its files stay as they are.                           *)
Crash ==
  /\ pc # "idle" /\ GoOn("idle")
  /\ pid' = IF pid = "live" THEN "dead" ELSE pid
  /\ UNCHANGED <<dot, snapshot, file, tmp, reg, history, bounds>>

(* The server starts; it fails runs that the registry has as running and   *)
(* whose process is gone, by the process id they left.                     *)
Boot ==
  /\ by # "server"
  /\ reg = "running" /\ pid # "live"
  /\ reg' = "failed"
  /\ UNCHANGED <<dot, engine, file, tmp, pc, saving, after, by, pid, history, bounds>>

(* The operator edits the DOT file: a prompt, or the structure.            *)
Edit ==
  /\ Command /\ edits < MaxEdits
  /\ \/ \E n \in Editable : dot' = [dot EXCEPT !.text[n] = 1 - @]
     \/ \E g \in Shapes \ {dot.shape} : dot' = [dot EXCEPT !.shape = g]
  /\ edits' = edits + 1
  /\ UNCHANGED <<engine, file, tmp, pc, saving, after, by, shared, history>>

Choices == {"plain", "reload", "from snapshot"}
Save == SaveOpens \/ SaveWrites \/ SaveRemoves \/ SaveRenames
Next ==
  \/ Save \/ StageCompletes \/ StageFails \/ RetryResumes
  \/ EnterEngine \/ LeaveEngine \/ Report \/ Crash \/ Boot \/ Edit
  \/ \E who \in {"run", "server"} : Run(who)
  \/ \E who \in {"resume", "server"}, choice \in Choices, strict \in BOOLEAN :
       Resume(who, choice, strict)
  \/ \E n \in Nodes : Retry(n) \/ Advance(n) \/ Mark(n, TRUE) \/ Mark(n, FALSE)
Spec == Init /\ [][Next]_vars

-----------------------------------------------------------------------------
(* Types; checkpoint.json is always a whole checkpoint if it exists, which *)
(* every reader relies on, whenever the process that wrote it died.        *)
TypeOK ==
  /\ dot \in Versions /\ snapshot \in Versions \union {Absent}
  /\ file \in Checkpoints \union {Absent} /\ tmp \in Files
  /\ pc \in {"idle", "enter", "engine", "resume", "save", "write", "remove", "rename",
             "leave", "report"}
  /\ by \in {"nobody", "run", "resume", "retry", "server", "operator"}
  /\ pid \in {"none", "live", "dead"} /\ reg \in {"none", "running", "completed", "failed"}
  /\ saving \in Checkpoints /\ after \in Reasons /\ eng \in Engines
  /\ done \subseteq Nodes /\ latest \in Checkpoints \union {Absent}
  /\ made \in Versions \union {Absent}
  /\ edits \in 0..MaxEdits /\ commands \in 0..MaxCommands

(* No crash loses what was saved last: if checkpoint.json is not it, the   *)
(* temporary file is, whole, until a new run gives the old one up. So one  *)
(* rename by hand repairs what a crash between the two steps left behind.  *)
LatestIsOnDisk == latest # Absent => file = latest \/ tmp = latest

(* Nothing a resume skips is undone: every node in the engine's list, and  *)
(* in the checkpoint's, ran to an end or was marked as done since a retry  *)
(* or a mark last took it back, over every crash and edit in between.      *)
SkippedIsDone ==
  /\ eng.completed \subseteq done
  /\ file # Absent => file.completed \subseteq done

-----------------------------------------------------------------------------
(* The files implement CheckpointStore, for whoever works on the directory *)
(* and wherever they die: a save replaces the checkpoint in one step, when *)
(* the old file is removed, or, if there is none, when the new one has     *)
(* been written to its end.                                                *)
Saving == {"save", "write", "remove", "rename"}
Held == IF file # Absent THEN file ELSE IF tmp \in Checkpoints THEN tmp ELSE Absent
Store == INSTANCE CheckpointStore WITH None <- Absent, stored <- Held,
  visible <- (file # Absent), pending <- IF pc \in Saving THEN saving ELSE Absent
ImplementsStore == Store!Spec
=============================================================================
