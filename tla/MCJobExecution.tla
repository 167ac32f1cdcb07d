--------------------------- MODULE MCJobExecution ---------------------------
(* The instances of JobExecution that TLC checks. *)
EXTENDS JobExecution
=============================================================================
