---------------------------- MODULE OpenQuestion ----------------------------
(***************************************************************************)
(* What a stage that waits for a person is promised, by a session and by a *)
(* gate alike: from the moment it asks, the last answer that is posted is  *)
(* kept for it and it goes on with that one; what was posted before, or    *)
(* while nothing is asked, is lost. It goes on without an answer only when *)
(* the run has been cancelled. Sleeping, waking and the events are left to *)
(* Interaction.                                                            *)
(***************************************************************************)
CONSTANTS Answers, None

VARIABLES
  asked,     \* a stage waits for its answer
  mail,      \* the answer that is kept for it, or None
  given,     \* what the last stage that asked was given
  cancelled

vars == <<asked, mail, given, cancelled>>

Init == asked = FALSE /\ mail = None /\ given = None /\ cancelled = FALSE

Ask ==
  /\ ~asked
  /\ asked' = TRUE /\ mail' = None
  /\ UNCHANGED <<given, cancelled>>

Post ==
  /\ asked
  /\ mail' \in Answers
  /\ UNCHANGED <<asked, given, cancelled>>

Take ==
  /\ asked /\ mail # None
  /\ asked' = FALSE /\ given' = mail /\ mail' = None
  /\ UNCHANGED cancelled

GiveUp ==
  /\ asked /\ mail = None /\ cancelled
  /\ asked' = FALSE /\ given' = None
  /\ UNCHANGED <<mail, cancelled>>

Cancel ==
  /\ cancelled' = TRUE
  /\ UNCHANGED <<asked, mail, given>>

Next == Ask \/ Post \/ Take \/ GiveUp \/ Cancel

Spec == Init /\ [][Next]_vars
=============================================================================
