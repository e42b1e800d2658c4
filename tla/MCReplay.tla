------------------------------ MODULE MCReplay ------------------------------
(* Replay with exact, investigative and malformed requests, and two runs    *)
(* that differ in what each part of the comparison looks at.                *)
EXTENDS Replay, TLC

MCRequest(mode, overrides, start) ==
  [mode |-> mode, overrides |-> overrides, override_plan |-> FALSE, explained |-> TRUE,
   environment |-> "sandbox", start |-> start, execution_mode |-> "source"]

MCRequests ==
  {MCRequest("exact", NoKeys, TRUE),
   [MCRequest("investigative", [severity |-> "low"], TRUE) EXCEPT
      !.execution_mode = "background"],
   MCRequest("exact", NoKeys, FALSE),
   MCRequest("investigative", ProvenanceKey :> "forged", TRUE)}

MCResult(outcome) ==
  [completeness |-> "full", confidence |-> 8, validation |-> "passed",
   output |-> [status |-> "ok", outcome |-> outcome]]

MCStep(type, result) ==
  [step_type |-> type, status |-> "succeeded", agent |-> "agent", result |-> {result},
   created_at |-> 1]

MCTool(status) ==
  [tool_name |-> "read_logs", status |-> status, side_effect |-> "read_only",
   idempotency |-> "idempotent", created_at |-> 1]

MCReasoning(path) ==
  <<[event_type |-> "model_reasoning", path |-> path, task |-> "analyze_incident"]>>

\* A run that completes, and one with a step less that policy refuses.
MCCompletes ==
  [rows |-> [steps |-> <<MCStep("reasoning", MCResult("found")),
                         MCStep("validation", MCResult("held"))>>,
             tools |-> <<MCTool("succeeded")>>,
             evaluations |-> <<[decision |-> "allow", reason |-> "low risk"]>>,
             proposals |-> <<"page">>, approvals |-> <<>>],
   reasoning |-> MCReasoning("model_runtime"), status |-> "completed",
   validation |-> "passed", result |-> [outcome |-> "success"]]

MCFails ==
  [rows |-> [steps |-> <<MCStep("reasoning", MCResult("lost"))>>,
             tools |-> <<MCTool("failed"), MCTool("succeeded")>>,
             evaluations |-> <<[decision |-> "deny", reason |-> "prod"]>>,
             proposals |-> <<>>, approvals |-> <<[decision |-> "rejected"]>>],
   reasoning |-> MCReasoning("deterministic_fallback"), status |-> "failed",
   validation |-> "passed", result |-> [outcome |-> "denied"]]

MCRuns == {[source |-> MCCompletes, child |-> MCCompletes],
           [source |-> MCFails, child |-> MCCompletes]}
=============================================================================
