-------------------------- MODULE TroubleshootBackup --------------------------
(***************************************************************************)
(* The operator's checkout under the sessions of the troubleshooter: what  *)
(* TroubleshootBackup captures before an agent, records after it, and      *)
(* restores on a rollback.                                                 *)
(*                                                                         *)
(* A tree says of every tracked file whose version it holds, and a commit  *)
(* is its tree. Untracked files, which a rollback reports and leaves, are  *)
(* left out; HEAD is on a branch.                                          *)
(***************************************************************************)
EXTENDS Naturals, FiniteSets

CONSTANTS
  Files,      \* tracked files
  Branches,   \* branches of the operator
  Main,       \* the one checked out at first
  Sessions    \* sessions of the troubleshooter on this checkout

ASSUME CheckoutAssumption ==
  /\ Main \in Branches
  /\ Sessions \intersect {"original", "operator"} = {}

VARIABLES
  branch,   \* the branch checked out
  heads,    \* the commit of each branch
  tree,     \* the working tree
  backup    \* the files of each session that rollback() reads

checkout == <<branch, heads, tree, backup>>

Versions == {"original", "operator"} \union Sessions
Trees == [Files -> Versions]

(* How much capture() wrote: nothing, backup-base.txt alone (as builds     *)
(* before current-branch.txt did), a part of the rest, everything.         *)
Artifacts == {"none", "base", "partial", "complete"}
Backups ==
  [artifacts : Artifacts, base : Trees, branch : Branches,
   preModified : SUBSET Files, agentModified : SUBSET Files]

Differing(a, b) == {f \in Files : a[f] # b[f]}
Dirty == Differing(tree, heads[branch])   \* git diff --name-only HEAD

Original == [f \in Files |-> "original"]
BackupInit ==
  /\ branch = Main /\ heads = [b \in Branches |-> Original] /\ tree = Original
  /\ backup = [s \in Sessions |->
       [artifacts |-> "none", base |-> Original, branch |-> Main,
        preModified |-> {}, agentModified |-> {}]]

-----------------------------------------------------------------------------
(* capture(): the state a rollback returns to, and what was dirty then.    *)
Captured(s, artifacts) ==
  [backup EXCEPT ![s] =
    [artifacts |-> artifacts, base |-> heads[branch], branch |-> branch,
     preModified |-> IF artifacts = "complete" THEN Dirty ELSE {}, agentModified |-> {}]]
Capture(s) ==
  /\ backup' = Captured(s, "complete")
  /\ UNCHANGED <<branch, heads, tree>>

(* The process dies in capture(), whose files are written one by one.      *)
CaptureInterrupted(s) ==
  /\ \E artifacts \in Artifacts \ {"complete"} : backup' = Captured(s, artifacts)
  /\ UNCHANGED <<branch, heads, tree>>

(* record_agent_touch(), once the agent has exited: what differs from the  *)
(* base, whoever changed it. A failure of git is only logged.              *)
Touched(s) == Differing(tree, backup[s].base)
RecordAgentTouch(s) ==
  /\ \E touched \in {backup[s].agentModified, Touched(s)} :
       backup' = [backup EXCEPT ![s].agentModified = touched]
  /\ UNCHANGED <<branch, heads, tree>>

(* Mutant: the preflight does not look at the working tree.                *)
RollbackAllowedDirty(s) ==
  \/ backup[s].artifacts = "base"
  \/ backup[s].artifacts = "complete" /\ branch = backup[s].branch

(* The preflight: the branch is the recorded one and every dirty file was  *)
(* dirty before or is recorded for the agent. Of a session without the     *)
(* three newer files neither is known: it takes any branch, if clean.      *)
RollbackAllowed(s) ==
  /\ \/ backup[s].artifacts = "base"
     \/ backup[s].artifacts = "complete" /\ branch = backup[s].branch
  /\ Dirty \subseteq backup[s].preModified \union backup[s].agentModified

(* git reset --hard to the base.                                           *)
Rollback(s) ==
  /\ RollbackAllowed(s)
  /\ heads' = [heads EXCEPT ![branch] = backup[s].base]
  /\ tree' = backup[s].base
  /\ UNCHANGED <<branch, backup>>

-----------------------------------------------------------------------------
(* What agents and the operator do to the checkout.                        *)
Write(version, f) ==
  /\ tree[f] # version
  /\ tree' = [tree EXCEPT ![f] = version]
  /\ UNCHANGED <<branch, heads, backup>>

Commit ==
  /\ Dirty # {}
  /\ heads' = [heads EXCEPT ![branch] = tree]
  /\ UNCHANGED <<branch, tree, backup>>

(* git carries dirty files over when the branches agree on them.           *)
Switch(b) ==
  /\ b # branch /\ Differing(heads[b], heads[branch]) \intersect Dirty = {}
  /\ branch' = b
  /\ tree' = [f \in Files |-> IF f \in Dirty THEN tree[f] ELSE heads[b][f]]
  /\ UNCHANGED <<heads, backup>>

BackupTypeOK ==
  /\ branch \in Branches /\ heads \in [Branches -> Trees] /\ tree \in Trees
  /\ backup \in [Sessions -> Backups]
=============================================================================
