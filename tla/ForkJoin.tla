------------------------------ MODULE ForkJoin ------------------------------
(***************************************************************************)
(* What a thread that forks is promised: the threads it starts are its     *)
(* own, no other thread has started or awaits one of them, it goes on only *)
(* after the last of them has ended, and a process is left with no thread  *)
(* behind when its first one ends. Threads share the stack of the one that *)
(* forked them, so each of these is a matter of memory, not of results.    *)
(* Nodes, outcomes, the flags and the files are left to ParallelHandler.   *)
(***************************************************************************)
CONSTANTS Threads, Root, Groups

VARIABLES
  live,   \* the threads that run or wait
  waits   \* [Threads -> the group of threads it waits for, empty if it runs]

vars == <<live, waits>>

Init == live = {} /\ waits = [t \in Threads |-> {}]

(* The process starts, or is started again, with no thread but one.        *)
Enter ==
  /\ live = {}
  /\ live' = {Root}
  /\ UNCHANGED waits

(* Some of a group are started: those that have work to do.                *)
Fork(t, group) ==
  /\ t \in live /\ waits[t] = {}
  /\ t \notin group /\ group \intersect live = {}
  /\ \A u \in Threads : waits[u] \intersect group = {}
  /\ live \subseteq live' /\ live' \subseteq live \union group
  /\ waits' = [waits EXCEPT ![t] = group]

(* It goes on, or it ends with what it was told.                           *)
Join(t) ==
  /\ t \in live /\ waits[t] # {} /\ waits[t] \intersect live = {}
  /\ t = Root => live = {Root}
  /\ live' = live \/ live' = live \ {t}
  /\ waits' = [waits EXCEPT ![t] = {}]

End(t) ==
  /\ t \in live /\ waits[t] = {}
  /\ t = Root => live = {Root}
  /\ live' = live \ {t}
  /\ UNCHANGED waits

Crash ==
  /\ Root \in live
  /\ live' = {} /\ waits' = [t \in Threads |-> {}]

Next ==
  \/ Enter \/ Crash
  \/ \E t \in Threads : Join(t) \/ End(t) \/ \E group \in Groups : Fork(t, group)

Spec == Init /\ [][Next]_vars
=============================================================================
