------------------------------ MODULE Diagnosis ------------------------------
(***************************************************************************)
(* needle troubleshoot on a stage that failed: what it reads from the      *)
(* stage's directory, the kind of failure it names, the branches of a fork *)
(* it blames, and what it proposes to the operator.                        *)
(*                                                                         *)
(* A stage is its facts, as status.json, start_commit.txt and the sizes of *)
(* the files have them, and its prompt, a sequence of words and marks. A   *)
(* line that begins with the mark of a fence begins or ends one.           *)
(***************************************************************************)
EXTENDS Naturals, Sequences, FiniteSets, SequencesExt

Facts == {"conflict", "huge prompt", "idle", "wall_clock", "FAILURE",
          "commit", "earlier commit", "no start commit", "uncommitted", "unreadable", "logged"}
Roles == {"reviewer mode"}
Tasks == {"commit your changes"}
References == {"$var.x"}
Marks == {"fence", "\"", "\n"}

-----------------------------------------------------------------------------
(* Mutant: a quote that is open at the end of a line goes on in the next.  *)
NextLineInQuotes(acc) == [acc EXCEPT !.mark = FALSE, !.start = TRUE]

(* The marks of a line end with it.                                        *)
NextLine(acc) == [acc EXCEPT !.mark = FALSE, !.start = TRUE, !.quote = FALSE]

(* strip_fences_and_quotes.                                                *)
Strip(prompt, quotes) ==
  LET Read(acc, c) ==
        IF c = "\n" THEN NextLine(acc)
        ELSE IF acc.start /\ c = "fence" THEN [acc EXCEPT !.fence = ~@, !.mark = TRUE, !.start = FALSE]
        ELSE IF acc.fence \/ acc.mark THEN [acc EXCEPT !.start = FALSE]
        ELSE IF quotes /\ c = "\"" THEN [acc EXCEPT !.quote = ~@, !.start = FALSE]
        ELSE IF acc.quote THEN [acc EXCEPT !.start = FALSE]
        ELSE [acc EXCEPT !.out = @ \union {c}, !.start = FALSE]
  IN FoldLeft(Read, [fence |-> FALSE, mark |-> FALSE, quote |-> FALSE, start |-> TRUE, out |-> {}],
              prompt).out

(* fill_stage_signals; a status.json that cannot be parsed says nothing,   *)
(* and debug.log may name further references. A commit that was there when *)
(* the stage began is not its own.                                         *)
Signals(facts, prompt) ==
  LET status == IF "unreadable" \in facts
                THEN {} ELSE facts \intersect {"conflict", "idle", "wall_clock", "FAILURE",
                                               "commit", "earlier commit", "uncommitted"}
      added == status \intersect {"commit", "earlier commit"}
  IN [status |-> status, huge |-> "huge prompt" \in facts,
      added |-> added,
      own |-> IF "no start commit" \in facts THEN added ELSE added \ {"earlier commit"},
      words |-> Strip(prompt, TRUE) \intersect (Roles \union Tasks),
      unresolved |-> (Strip(prompt, FALSE) \intersect References)
                       \union (facts \intersect {"logged"})]

(* Where the work of a stage that fell silent is.                          *)
Idle(s) ==
  IF s.added # {} THEN "idle_stall_with_committed_work"
  ELSE IF "uncommitted" \in s.status THEN "idle_stall_with_uncommitted_work" ELSE "idle_stall_clean"

(* classify_primary: the first that applies; a timeout outranks the        *)
(* references.                                                             *)
Kind(s) ==
  IF "conflict" \in s.status THEN "cherry_pick_conflict"
  ELSE IF s.huge THEN "prompt_blowup"
  ELSE IF s.words \intersect Roles # {} /\ s.words \intersect Tasks # {} THEN "role_prompt_conflict"
  ELSE IF "wall_clock" \in s.status
    THEN IF s.own = {} THEN "wall_clock_without_own_progress" ELSE "wall_clock_with_progress"
  ELSE IF "idle" \in s.status THEN Idle(s)
  ELSE IF s.unresolved # {} THEN "variable_corrupted"
  ELSE IF "FAILURE" \in s.status THEN "self_exit_error" ELSE "unknown"

(* render_proposed_actions, by the commands it names.                      *)
Proposed(kind) ==
  CASE kind = "idle_stall_with_committed_work" -> {"mark", "advance"}
    [] kind = "idle_stall_with_uncommitted_work" -> {"inspect", "mark", "advance", "retry"}
    [] kind \in {"wall_clock_with_progress", "wall_clock_without_own_progress"} -> {"timeout", "retry"}
    [] kind \in {"role_prompt_conflict", "prompt_blowup"} -> {"prompt", "retry"}
    [] kind = "variable_corrupted" -> {"variables", "retry"}
    [] kind \in {"idle_stall_clean", "self_exit_error"} -> {"inspect", "retry"}
    [] kind = "cherry_pick_conflict" -> {"merge", "retry"}
    [] OTHER -> {"inspect", "escalate"}

(* collect_report: the branches of a fork that did not complete and say    *)
(* that they failed or timed out.                                          *)
Blamed(completed, branches, stages) ==
  {b \in branches \ completed :
     Signals(stages[b].facts, stages[b].prompt).status \intersect {"FAILURE", "idle", "wall_clock"} # {}}

-----------------------------------------------------------------------------
(* What of a prompt its author speaks in: no line of a fence, and nothing  *)
(* between the first and the second, the third and the fourth quote of a   *)
(* line.                                                                   *)
Before(prompt, i, P(_)) == Cardinality({j \in 1..(i - 1) : P(j)})
Spoken(prompt, quotes) ==
  LET Fence(j) == prompt[j] = "fence" /\ (j = 1 \/ prompt[j - 1] = "\n")
      Begin(i) == CHOOSE b \in 1..i :
                    /\ b = 1 \/ prompt[b - 1] = "\n"
                    /\ \A j \in b..(i - 1) : prompt[j] # "\n"
      Quote(i, j) == j >= Begin(i) /\ prompt[j] = "\""
  IN {prompt[i] : i \in
       {i \in DOMAIN prompt :
          /\ prompt[i] # "\n" /\ ~Fence(Begin(i))
          /\ Before(prompt, i, Fence) % 2 = 0
          /\ quotes => /\ prompt[i] # "\""
                       /\ Before(prompt, i, LAMBDA j : Quote(i, j)) % 2 = 0}}

(* A word in a fence or in quotes decides nothing.                         *)
PromptIsHeard(prompt) == \A quotes \in BOOLEAN : Strip(prompt, quotes) = Spoken(prompt, quotes)

(* A stage that timed out is not explained by a reference; to mark a stage *)
(* as done is proposed only where it left work, to run it again or to hand *)
(* it on always else.                                                      *)
FactsDecide(facts, prompt) ==
  LET s == Signals(facts, prompt)
      kind == Kind(s)
  IN /\ kind = "role_prompt_conflict" =>
          Roles \intersect Strip(prompt, TRUE) # {} /\ Tasks \intersect Strip(prompt, TRUE) # {}
     /\ s.status \intersect {"idle", "wall_clock"} # {} => kind \notin {"variable_corrupted", "unknown"}
     /\ "mark" \in Proposed(kind) => s.added # {} \/ "uncommitted" \in s.status
     /\ Proposed(kind) \intersect {"mark", "retry", "escalate"} # {}

(* Every branch that is blamed gets a reason.                              *)
BlameHasReasons(completed, branches, stages) ==
  \A b \in Blamed(completed, branches, stages) :
    Kind(Signals(stages[b].facts, stages[b].prompt)) # "unknown"

DiagnosesAreFounded(facts, prompt) ==
  /\ PromptIsHeard(prompt)
  /\ FactsDecide(facts, prompt)
  /\ BlameHasReasons({}, {"b"}, [b \in {"b"} |-> [facts |-> facts, prompt |-> prompt]])
=============================================================================
