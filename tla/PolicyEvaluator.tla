--------------------------- MODULE PolicyEvaluator ---------------------------
(***************************************************************************)
(* The deterministic rule pack of policy-engine/policy_engine/evaluator.py.*)
(* Strings the rules never compare with are represented by "other".        *)
(***************************************************************************)

Environment == {"prod", "dev"}
PolicyScope == {"phase3_deny", "phase3_conditional", "other"}
ActionType  == {"escalate_incident", "other"}
Decision    == {"allow", "deny", "conditional"}

Context == [environment : Environment, policy_scope : PolicyScope]

\* Mutant of Evaluate: the environment is not looked at.
EvaluateIgnoringEnvironment(context, action) ==
  IF action # "escalate_incident"                THEN "deny"
  ELSE IF context.policy_scope = "phase3_deny"   THEN "deny"
  ELSE IF context.policy_scope = "phase3_conditional" THEN "conditional"
  ELSE "allow"

\* PolicyEvaluator.evaluate: the first rule that hits decides.
Evaluate(context, action) ==
  IF action # "escalate_incident"                THEN "deny"
  ELSE IF context.policy_scope = "phase3_deny"   THEN "deny"
  ELSE IF \/ context.environment = "prod"
          \/ context.policy_scope = "phase3_conditional" THEN "conditional"
  ELSE "allow"
=============================================================================
