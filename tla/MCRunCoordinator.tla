--------------------------- MODULE MCRunCoordinator ---------------------------
(* RunCoordinator for TLC, where progress is checked; MCRunService checks its safety. *)
EXTENDS RunCoordinator, TLC

CONSTANTS c1, c2, k1, k2, withFile, file

MCDeclared == withFile :> {file}
===============================================================================
