---------------------------- MODULE ProcessRunner ----------------------------
(***************************************************************************)
(* PosixProcessRunner: run(), called by the threads of several stages on   *)
(* one runner, each with a child process, its pipes and what the child     *)
(* leaves behind, and kill_all() from a thread that cancels.               *)
(*                                                                         *)
(* The pipes are opened without O_CLOEXEC, so a child keeps every end its  *)
(* parent had open when it forked, those of other calls included. stdout   *)
(* and stderr are one pipe here: the loop treats them alike. Time is not   *)
(* measured: a deadline may strike at any iteration.                       *)
(***************************************************************************)
EXTENDS Naturals, FiniteSets

CONSTANTS
  Calls,       \* calls of run(), each in its thread
  Input,       \* [Calls -> Nat]: blocks of stdin_data
  Capacity,    \* blocks a pipe holds
  Deadlined,   \* the calls with timeout_ms or idle_timeout_ms set
  Closers,     \* the calls whose child may close its outputs and go on
  Readers,     \* the calls whose child reads its input to the end before it exits
  MaxOutput,   \* bound: [Calls -> Nat], blocks the child writes
  MaxKills     \* bound: calls of kill_all()

ASSUME ProcessAssumption ==
  /\ Input \in [Calls -> Nat]
  /\ Capacity \in Nat \ {0}
  /\ Deadlined \subseteq Calls /\ Closers \subseteq Calls /\ Readers \subseteq Calls
  /\ MaxOutput \in [Calls -> Nat] /\ MaxKills \in Nat

VARIABLES
  pc,         \* where the call is
  child,      \* its child process
  descendant, \* calls with a background process left in the child's group
  inherited,  \* ends of other calls' pipes the child was forked with
  sent,       \* blocks written to the child's stdin
  stdin,      \* blocks in that pipe
  wrote,      \* blocks the child wrote
  stdout,     \* blocks in that pipe
  collected,  \* blocks in stdout_data and stderr_data
  open,       \* calls whose read end of stdout is open
  timedOut,   \* calls with timed_out set
  active,     \* active_pids_
  killer,     \* the thread in kill_all()
  kills       \* calls of kill_all() so far

input == <<sent, stdin>>
output == <<wrote, stdout, collected>>
process == <<child, descendant, inherited>>
vars == <<pc, process, input, output, open, timedOut, active, killer, kills>>

Registered == {"writing", "polling", "checking", "killing", "draining", "waiting", "reaped"}
CallStates == {"idle", "piped", "forked", "done", "failed"} \union Registered
ChildStates == {"none", "new", "running", "silent", "zombie", "reaped"}
Ends == {"stdin read", "stdin write", "stdout write"} \X Calls

-----------------------------------------------------------------------------
Running(c) == child[c] \in {"running", "silent"}
Live(c) == Running(c) \/ child[c] = "new" \/ c \in descendant

(* The ends of c's pipes open in this process, besides the one it reads.   *)
OwnEnds(c) ==
  IF pc[c] \in {"piped", "forked"}
  THEN {<<"stdout write", c>>}
         \union (IF Input[c] > 0 THEN {<<"stdin read", c>>, <<"stdin write", c>>} ELSE {})
  ELSE IF pc[c] = "writing" /\ Input[c] > 0 THEN {<<"stdin write", c>>}
  ELSE {}

(* Whether a process other than c's own child has that end of c's pipes.   *)
HeldElsewhere(end, c) ==
  \/ <<end, c>> \in OwnEnds(c)
  \/ \E d \in Calls \ {c} : Live(d) /\ <<end, c>> \in inherited[d]
InputEnded(c) == stdin[c] = 0 /\ ~HeldElsewhere("stdin write", c)
OutputEnded(c) ==
  /\ stdout[c] = 0 /\ child[c] # "running" /\ c \notin descendant
  /\ ~HeldElsewhere("stdout write", c)
BrokenPipe(c) == child[c] \in {"zombie", "reaped"} /\ ~HeldElsewhere("stdin read", c)

MutexFree == killer = "idle"
Goto(c, label) == pc' = [pc EXCEPT ![c] = label]

Init ==
  /\ pc = [c \in Calls |-> "idle"]
  /\ child = [c \in Calls |-> "none"] /\ descendant = {}
  /\ inherited = [c \in Calls |-> {}]
  /\ sent = [c \in Calls |-> 0] /\ stdin = [c \in Calls |-> 0]
  /\ wrote = [c \in Calls |-> 0] /\ stdout = [c \in Calls |-> 0]
  /\ collected = [c \in Calls |-> 0]
  /\ open = {} /\ timedOut = {} /\ active = {}
  /\ killer = "idle" /\ kills = 0

-----------------------------------------------------------------------------
(* run() in the parent.                                                    *)

OpenPipes(c) ==
  /\ pc[c] = "idle"
  /\ Goto(c, "piped")
  /\ UNCHANGED <<process, input, output, open, timedOut, active, killer, kills>>

(* fork() fails, or a pipe does: every end is closed and run() fails.      *)
ForkFails(c) ==
  /\ pc[c] = "piped"
  /\ Goto(c, "failed")
  /\ UNCHANGED <<process, input, output, open, timedOut, active, killer, kills>>

Fork(c) ==
  /\ pc[c] = "piped"
  /\ Goto(c, "forked")
  /\ child' = [child EXCEPT ![c] = "new"]
  /\ inherited' = [inherited EXCEPT ![c] = UNION {OwnEnds(d) : d \in Calls \ {c}}]
  /\ open' = open \union {c}
  /\ UNCHANGED <<descendant, input, output, timedOut, active, killer, kills>>

(* The child's ends are closed and its pid joins active_pids_.             *)
Register(c) ==
  /\ pc[c] = "forked" /\ MutexFree
  /\ active' = active \union {c}
  /\ Goto(c, "writing")
  /\ UNCHANGED <<process, input, output, open, timedOut, killer, kills>>

(* A blocking write of one more block.                                     *)
WriteStdin(c) ==
  /\ pc[c] = "writing" /\ sent[c] < Input[c] /\ stdin[c] < Capacity /\ ~BrokenPipe(c)
  /\ sent' = [sent EXCEPT ![c] = @ + 1]
  /\ stdin' = [stdin EXCEPT ![c] = @ + 1]
  /\ UNCHANGED <<pc, process, output, open, timedOut, active, killer, kills>>

(* All is written, or the write failed with EPIPE: the end is closed, and  *)
(* the parent's setpgid makes the group if the child has not.              *)
BeginPolling(c) ==
  /\ pc[c] = "writing" /\ (sent[c] = Input[c] \/ BrokenPipe(c))
  /\ Goto(c, "polling")
  /\ child' = [child EXCEPT ![c] = IF @ = "new" THEN "running" ELSE @]
  /\ UNCHANGED <<descendant, inherited, input, output, open, timedOut, active, killer, kills>>

Read(c) ==
  /\ pc[c] = "polling" /\ stdout[c] > 0
  /\ Goto(c, "checking")
  /\ stdout' = [stdout EXCEPT ![c] = @ - 1]
  /\ collected' = [collected EXCEPT ![c] = @ + 1]
  /\ UNCHANGED <<process, input, wrote, open, timedOut, active, killer, kills>>

ReadEnd(c) ==
  /\ pc[c] = "polling" /\ OutputEnded(c)
  /\ Goto(c, "checking")
  /\ open' = open \ {c}
  /\ UNCHANGED <<process, input, output, timedOut, active, killer, kills>>

(* poll() returns after at most 500 ms with nothing to read.               *)
PollTimeout(c) ==
  /\ pc[c] = "polling" /\ stdout[c] = 0 /\ ~OutputEnded(c)
  /\ Goto(c, "checking")
  /\ UNCHANGED <<process, input, output, open, timedOut, active, killer, kills>>

(* The wall-clock or the idle limit is passed: SIGTERM, two seconds, and   *)
(* then SIGKILL to the group.                                              *)
Deadline(c) ==
  /\ pc[c] = "polling" /\ c \in Deadlined
  /\ Goto(c, "killing")
  /\ timedOut' = timedOut \union {c}
  /\ UNCHANGED <<process, input, output, open, active, killer, kills>>

(* Mutant: kill(pid) in place of kill(-pid).                               *)
SigkillToLeaders(cs) ==
  [child |-> [c \in Calls |-> IF c \in cs /\ Running(c) THEN "zombie" ELSE child[c]],
   descendant |-> descendant]

(* What SIGKILL to the process groups of the calls in cs leaves.           *)
AfterSigkill(cs) ==
  [child |-> [c \in Calls |-> IF c \in cs /\ Running(c) THEN "zombie" ELSE child[c]],
   descendant |-> descendant \ cs]
Killed(cs) ==
  /\ child' = AfterSigkill(cs).child
  /\ descendant' = AfterSigkill(cs).descendant

(* Mutant: the SIGTERM is not followed up.                                 *)
KillPolitely(c) ==
  /\ pc[c] = "killing"
  /\ Goto(c, "draining")
  /\ UNCHANGED <<process, input, output, open, timedOut, active, killer, kills>>

Kill(c) ==
  /\ pc[c] = "killing"
  /\ Goto(c, "draining")
  /\ Killed({c})
  /\ UNCHANGED <<inherited, input, output, open, timedOut, active, killer, kills>>

(* waitpid(WNOHANG) ends the loop when the child has exited, whoever else  *)
(* holds the pipes; so does the end of the output.                         *)
ExitNoticed(c) == child[c] = "zombie"
Check(c) ==
  /\ pc[c] = "checking"
  /\ Goto(c, IF ExitNoticed(c) \/ c \notin open THEN "draining" ELSE "polling")
  /\ child' = [child EXCEPT ![c] = IF ExitNoticed(c) THEN "reaped" ELSE @]
  /\ UNCHANGED <<descendant, inherited, input, output, open, timedOut, active, killer, kills>>

(* Mutant: nothing is read once the child has been reaped.                 *)
DrainedUnlessReaped(c) ==
  IF c \in open /\ child[c] # "reaped" THEN collected[c] + stdout[c] ELSE collected[c]

(* Whatever is left in the pipe is read before its end is closed.          *)
Drained(c) == IF c \in open THEN collected[c] + stdout[c] ELSE collected[c]
Drain(c) ==
  /\ pc[c] = "draining"
  /\ collected' = [collected EXCEPT ![c] = Drained(c)]
  /\ stdout' = [stdout EXCEPT ![c] = 0]
  /\ open' = open \ {c}
  /\ Goto(c, IF child[c] = "reaped" THEN "reaped" ELSE "waiting")
  /\ UNCHANGED <<process, input, wrote, timedOut, active, killer, kills>>

(* waitpid without WNOHANG.                                                *)
Wait(c) ==
  /\ pc[c] = "waiting" /\ child[c] = "zombie"
  /\ Goto(c, "reaped")
  /\ child' = [child EXCEPT ![c] = "reaped"]
  /\ UNCHANGED <<descendant, inherited, input, output, open, timedOut, active, killer, kills>>

(* Mutant: the pid is left in active_pids_.                                *)
UnregisteredNever(c) == active
Unregistered(c) == active \ {c}
Return(c) ==
  /\ pc[c] = "reaped" /\ MutexFree
  /\ active' = Unregistered(c)
  /\ Goto(c, "done")
  /\ UNCHANGED <<process, input, output, open, timedOut, killer, kills>>

-----------------------------------------------------------------------------
(* kill_all() holds pids_mutex_ from its SIGTERM to its SIGKILL. The half  *)
(* second in between is enough for a forked child to reach its setpgid.    *)

KillAllBegin ==
  /\ MutexFree /\ kills < MaxKills
  /\ kills' = kills + 1
  /\ killer' = IF active = {} THEN "idle" ELSE "killing"
  /\ UNCHANGED <<pc, process, input, output, open, timedOut, active>>

KillAllEnd ==
  /\ killer = "killing" /\ \A c \in active : child[c] # "new"
  /\ killer' = "idle"
  /\ Killed(active)
  /\ UNCHANGED <<pc, inherited, input, output, open, timedOut, active, kills>>

-----------------------------------------------------------------------------
(* The child, which may do what any program does.                          *)

ChildSetpgid(c) ==
  /\ child[c] = "new"
  /\ child' = [child EXCEPT ![c] = "running"]
  /\ UNCHANGED <<pc, descendant, inherited, input, output, open, timedOut, active, killer, kills>>

ChildReads(c) ==
  /\ Running(c) /\ stdin[c] > 0
  /\ stdin' = [stdin EXCEPT ![c] = @ - 1]
  /\ UNCHANGED <<pc, process, sent, output, open, timedOut, active, killer, kills>>

ChildWrites(c) ==
  /\ child[c] = "running" /\ stdout[c] < Capacity /\ wrote[c] < MaxOutput[c]
  /\ wrote' = [wrote EXCEPT ![c] = @ + 1]
  /\ stdout' = [stdout EXCEPT ![c] = @ + 1]
  /\ UNCHANGED <<pc, process, input, collected, open, timedOut, active, killer, kills>>

ChildClosesOutput(c) ==
  /\ child[c] = "running" /\ c \in Closers
  /\ child' = [child EXCEPT ![c] = "silent"]
  /\ UNCHANGED <<pc, descendant, inherited, input, output, open, timedOut, active, killer, kills>>

(* It starts a background process that inherits its group and its pipes.   *)
ChildSpawns(c) ==
  /\ child[c] = "running" /\ c \notin descendant
  /\ descendant' = descendant \union {c}
  /\ UNCHANGED <<pc, child, inherited, input, output, open, timedOut, active, killer, kills>>

ChildExits(c) ==
  /\ Running(c)
  /\ c \in Readers => InputEnded(c)
  /\ child' = [child EXCEPT ![c] = "zombie"]
  /\ UNCHANGED <<pc, descendant, inherited, input, output, open, timedOut, active, killer, kills>>

DescendantExits(c) ==
  /\ c \in descendant
  /\ descendant' = descendant \ {c}
  /\ UNCHANGED <<pc, child, inherited, input, output, open, timedOut, active, killer, kills>>

-----------------------------------------------------------------------------
Advance(c) ==
  \/ Fork(c) \/ ForkFails(c) \/ Register(c) \/ WriteStdin(c) \/ BeginPolling(c)
  \/ Read(c) \/ ReadEnd(c) \/ PollTimeout(c) \/ Kill(c) \/ Check(c) \/ Drain(c)
  \/ Wait(c) \/ Return(c)
Child(c) ==
  \/ ChildSetpgid(c) \/ ChildReads(c) \/ ChildWrites(c) \/ ChildClosesOutput(c)
  \/ ChildSpawns(c) \/ ChildExits(c) \/ DescendantExits(c)
Next == KillAllBegin \/ KillAllEnd \/ \E c \in Calls :
  OpenPipes(c) \/ Advance(c) \/ Deadline(c) \/ Child(c)

(* Threads are scheduled, a child gets to its setpgid, kill_all() goes on  *)
(* after its sleep, and a clock that is looked at for ever passes the      *)
(* deadline. Nothing makes a child read, write or exit.                    *)
Fairness ==
  /\ WF_vars(KillAllEnd)
  /\ \A c \in Calls : WF_vars(Advance(c)) /\ WF_vars(ChildSetpgid(c)) /\ SF_vars(Deadline(c))
Spec == Init /\ [][Next]_vars /\ Fairness

-----------------------------------------------------------------------------
(* Types; active_pids_ lists exactly the calls between their registration  *)
(* and their return, so kill_all() never signals a pid run() has given up. *)
TypeOK ==
  /\ pc \in [Calls -> CallStates] /\ child \in [Calls -> ChildStates]
  /\ descendant \subseteq Calls /\ inherited \in [Calls -> SUBSET Ends]
  /\ sent \in [Calls -> Nat] /\ stdin \in [Calls -> 0..Capacity]
  /\ stdout \in [Calls -> 0..Capacity]
  /\ \A c \in Calls : wrote[c] \in 0..MaxOutput[c] /\ collected[c] \in 0..wrote[c]
  /\ open \subseteq Calls /\ timedOut \subseteq Calls
  /\ active = {c \in Calls : pc[c] \in Registered}
  /\ killer \in {"idle", "killing"} /\ kills \in 0..MaxKills
  /\ \A c \in Calls : pc[c] \in {"reaped", "done"} => child[c] = "reaped"

(* A call returns all its child wrote, though the child may write and exit *)
(* between the loop's read and its waitpid, or be killed over a full pipe. *)
OutputIsComplete == \A c \in Calls : pc[c] = "done" => collected[c] = wrote[c]

(* After a timeout nothing of the child's process group is left behind.    *)
TimedOutIsGone == \A c \in timedOut : pc[c] = "done" => ~Live(c)

Fits(c) == Input[c] <= Capacity
Returned(c) == pc[c] \in {"done", "failed"}
(* A call returns soon after its child exits, whoever keeps the pipes open *)
(* (a background process, or another call's child).                        *)
ReturnsAfterExit(c) == child[c] = "zombie" ~> Returned(c)
(* One with a deadline returns whatever its child does, if the child keeps *)
(* an output open, even when it waits for an end of input that the child   *)
(* of another call keeps from it.                                          *)
ReturnsByDeadline(c) == c \in Deadlined \ Closers => (pc[c] = "piped" ~> Returned(c))
(* One whose child kill_all() has found returns, deadline or not.          *)
ReturnsAfterCancel(c) == killer = "killing" /\ c \in active ~> Returned(c)

(* A call whose input fits the pipe comes back from run(): in each of the  *)
(* three ways that it has to.                                              *)
CallsReturn ==
  \A c \in Calls : Fits(c) =>
    ReturnsAfterExit(c) /\ ReturnsByDeadline(c) /\ ReturnsAfterCancel(c)

-----------------------------------------------------------------------------
(* The runner implements ChildCall, whatever its children do and whenever  *)
(* somebody cancels: how a call reads, waits and is killed does not show   *)
(* in what its caller gets.                                                *)
PhaseAt(label) ==
  IF label \in {"idle", "piped"} THEN "idle"
  ELSE IF label = "done" THEN "returned"
  ELSE IF label = "failed" THEN "failed" ELSE "started"
LeaderAt(state) ==
  IF state = "none" THEN "none" ELSE IF state \in {"zombie", "reaped"} THEN "gone" ELSE "alive"
Phases == [c \in Calls |-> PhaseAt(pc[c])]
Leaders == [c \in Calls |-> LeaderAt(child[c])]
Results == [c \in Calls |-> IF pc[c] = "done" THEN collected[c] ELSE 0]
Call == INSTANCE ChildCall WITH phase <- Phases, leader <- Leaders,
                                strays <- descendant, result <- Results
ImplementsCall == Call!Spec
=============================================================================
