--------------------------- MODULE MCTroubleshoot ---------------------------
(* Sessions of the engine that diagnose and one over HTTP that may edit;   *)
(* the checkout has one file and two branches.                             *)
EXTENDS Troubleshoot
=============================================================================
