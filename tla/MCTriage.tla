------------------------------ MODULE MCTriage ------------------------------
(* Two requests at the same time, of the web or of commands.               *)
EXTENDS Triage

OperatorReasons == {"note", "baseline"}
=============================================================================
