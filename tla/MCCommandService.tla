-------------------------- MODULE MCCommandService --------------------------
(* Small instances of CommandService.                                      *)
EXTENDS CommandService
=============================================================================
