------------------------------ MODULE Lifecycle ------------------------------
(***************************************************************************)
(* The published life of an execution: its status moves along the allowed  *)
(* transitions of state_machine.py, a terminal status is never left, and   *)
(* its trace only grows.                                                   *)
(***************************************************************************)
EXTENDS StateMachine

VARIABLES status, trace

LInit == status = "created" /\ trace = {}

LMove ==
  /\ \/ status' = status
     \/ ValidExecutionTransition(status, status')
  /\ trace \subseteq trace'

LSpec == LInit /\ [][LMove]_<<status, trace>>
=============================================================================
