---------------------------- MODULE MCToolExecutor ----------------------------
(***************************************************************************)
(* Instances of ToolExecutor for TLC.                                      *)
(***************************************************************************)
EXTENDS ToolExecutor
=============================================================================
