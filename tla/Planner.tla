------------------------------- MODULE Planner -------------------------------
(***************************************************************************)
(* The fixed plans of orchestrator/app/runtime/planner.py.  A step is      *)
(* identified by its planner_step_name: within one plan the names are      *)
(* distinct, and the random step keys carry no further information.        *)
(***************************************************************************)

Workflow == {"incident_triage", "cost_attribution", "default"}

\* plan.steps, in plan order
Plan ==
  [incident_triage  |-> <<"analyze_incident", "gather_evidence", "validate_incident">>,
   cost_attribution |-> <<"analyze_cost_anomaly", "retrieve_cost_evidence",
                          "correlate_usage_patterns", "validate_cost_attribution">>,
   default          |-> <<"reasoning", "validation">>]

StepName ==
  {"analyze_incident", "gather_evidence", "validate_incident",
   "analyze_cost_anomaly", "retrieve_cost_evidence", "correlate_usage_patterns",
   "validate_cost_attribution", "reasoning", "validation"}

\* plan.dependencies of all three plans: edges <<from_step, to_step>>
Dependencies ==
  {<<"analyze_incident", "gather_evidence">>,
   <<"gather_evidence", "validate_incident">>,
   <<"analyze_cost_anomaly", "retrieve_cost_evidence">>,
   <<"retrieve_cost_evidence", "correlate_usage_patterns">>,
   <<"correlate_usage_patterns", "validate_cost_attribution">>,
   <<"reasoning", "validation">>}

\* the steps whose kind is "validation"
ValidationSteps ==
  {"validate_incident", "validate_cost_attribution", "validation"}

\* the steps of the plan of workflow w
PlannedSteps(w) == {Plan[w][i] : i \in DOMAIN Plan[w]}
=============================================================================
