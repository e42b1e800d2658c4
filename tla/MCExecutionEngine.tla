-------------------------- MODULE MCExecutionEngine --------------------------
(***************************************************************************)
(* Instances of ExecutionEngine for TLC.                                   *)
(***************************************************************************)
EXTENDS ExecutionEngine

GovernedWorkflows == {"incident_triage"}
DefaultWorkflow   == {"default"}
AllWorkflows      == Workflow

ProdContexts == {[environment |-> "prod", policy_scope |-> "other"]}
AllContexts == Context
=============================================================================
