---------------------------- MODULE StateMachine ----------------------------
(***************************************************************************)
(* Execution and step statuses and the transitions the orchestrator        *)
(* permits (orchestrator/app/runtime/state_machine.py).                    *)
(***************************************************************************)

ExecutionStatus ==
  {"created", "planning", "executing", "validating", "awaiting_approval",
   "completed", "failed", "cancelled"}

StepStatus ==
  {"pending", "running", "succeeded", "failed", "skipped", "cancelled"}

\* _EXECUTION_ALLOWED.  executing -> completed is left out on purpose: the
\* validation phase comes first.
ExecutionAllowed ==
       {"created"}           \X {"planning", "failed", "cancelled"}
  \cup {"planning"}          \X {"executing", "failed", "cancelled"}
  \cup {"executing"}         \X {"validating", "failed", "cancelled"}
  \cup {"validating"}        \X {"completed", "executing", "failed",
                                 "awaiting_approval", "cancelled"}
  \cup {"awaiting_approval"} \X {"completed", "failed", "cancelled"}

\* _STEP_ALLOWED
StepAllowed ==
       {"pending"} \X {"running", "skipped", "cancelled"}
  \cup {"running"} \X {"succeeded", "failed", "cancelled"}

ExecutionTerminal == {"completed", "failed", "cancelled"}

StepTerminal == {"succeeded", "failed", "skipped", "cancelled"}

\* validate_execution_transition / validate_step_transition do not raise.
ValidExecutionTransition(from, to) ==
  /\ ~ (from \in ExecutionTerminal /\ from # to)
  /\ <<from, to>> \in ExecutionAllowed

ValidStepTransition(from, to) ==
  /\ ~ (from \in StepTerminal /\ from # to)
  /\ <<from, to>> \in StepAllowed
=============================================================================
