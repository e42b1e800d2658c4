------------------------------ MODULE ReplayDiff ------------------------------
(***************************************************************************)
(* ReplayDiffService: what distinguishes a replay from its source, as a    *)
(* sequence of items.  An execution is a record, its rows are listed from  *)
(* the repository; an optional value is a set of at most one.              *)
(***************************************************************************)
EXTENDS Repository

ProvenanceKey == "__replay_provenance__"

Given(input, key) == IF key \in DOMAIN input THEN {input[key]} ELSE {}

\* Mutant of BusinessInput: the provenance is compared as well.
WholeInput(ex) == ex.input

BusinessInput(ex) == Without(ex.input, ProvenanceKey)

Provenance(ex) == Given(ex.input, ProvenanceKey)

IsLinked(source, replay) ==
  replay.parent = source.id \/ \E p \in Provenance(replay) : p.source = source.id

Item(category, severity, title) ==
  <<[category |-> category, severity |-> severity, title |-> title]>>

Differs(category, severity, title, a, b) ==
  IF a = b THEN <<>> ELSE Item(category, severity, title)

\* An item for each pair at the same place, as far as both sequences go.
Pairwise(Compare(_, _), ss, rs) ==
  FlattenSeq([i \in 1 .. Min({Len(ss), Len(rs)}) |-> Compare(ss[i], rs[i])])

CompareLineage(source, replay) ==
  (IF IsLinked(source, replay) THEN Item("lineage", "info", "linked_to_source")
   ELSE Item("lineage", "significant", "not_linked_to_source"))
  \o (IF \E p \in Provenance(replay) : DOMAIN p.overrides # {}
      THEN Item("input", "info", "investigative_input_overrides") ELSE <<>>)

CompareHeader(source, replay) ==
  Differs("execution_status", "significant", "execution_status", source.status, replay.status)
  \o Differs("execution_status", "significant", "workflow_type",
             source.workflow_type, replay.workflow_type)

\* An item for each field that differs, the sorted keys being one of their orders.
CompareInput(source, replay) ==
  LET src == BusinessInput(source)
      rep == BusinessInput(replay)
      keys == SetToSeq({k \in DOMAIN src \cup DOMAIN rep : Given(src, k) # Given(rep, k)})
      Overridden(k) == \E p \in Provenance(replay) : k \in DOMAIN p.overrides
  IN  FlattenSeq([i \in DOMAIN keys |->
        Item("input", IF Overridden(keys[i]) THEN "info" ELSE "warning", keys[i])])

ComparePlan(source, replay, ss, rs) ==
  Differs("plan", "warning", "current_plan_id", source.plan, replay.plan)
  \o Differs("plan", "significant", "step_count", Len(ss), Len(rs))

\* _compare_dict_fields over the keys of interest.
CompareFields(category, severity, keys, src, rep) ==
  LET changed == SetToSeq({k \in keys : Given(src, k) # Given(rep, k)})
  IN  FlattenSeq([i \in DOMAIN changed |-> Item(category, severity, changed[i])])

OutputKeys == {"status", "outcome", "summary", "severity", "root_cause", "recommendation"}

CompareStepResults(src, rep) ==
  IF src = {} /\ rep = {} THEN <<>>
  ELSE IF src = {} \/ rep = {} THEN Item("step", "warning", "step_result_presence")
  ELSE LET s == CHOOSE x \in src : TRUE
           r == CHOOSE x \in rep : TRUE
       IN  Differs("step", "warning", "completeness", s.completeness, r.completeness)
           \o Differs("step", "info", "confidence_score", s.confidence, r.confidence)
           \o Differs("validation", "warning", "step_validation_outcome",
                      s.validation, r.validation)
           \o CompareFields("step", "info", OutputKeys, s.output, r.output)

CompareStep(s, r) ==
  Differs("step", "warning", "step_type", s.step_type, r.step_type)
  \o Differs("step", "warning", "step_status", s.status, r.status)
  \o Differs("step", "info", "step_agent", s.agent, r.agent)
  \o CompareStepResults(s.result, r.result)

\* Mutant of CompareSteps: steps without a counterpart are passed over.
CompareStepPairs(ss, rs) == Pairwise(CompareStep, ss, rs)

CompareSteps(ss, rs) ==
  Pairwise(CompareStep, ss, rs)
  \o FlattenSeq([i \in 1 .. Len(rs) - Min({Len(ss), Len(rs)}) |->
                   Item("step", "significant", "extra_replay_step")])
  \o FlattenSeq([i \in 1 .. Len(ss) - Min({Len(ss), Len(rs)}) |->
                   Item("step", "significant", "missing_replay_step")])

Reasoning(ex) ==
  FlattenSeq([i \in DOMAIN ex.timeline |->
                IF ex.timeline[i].event_type = "model_reasoning" THEN <<ex.timeline[i]>> ELSE <<>>])

\* A path other than the model's and its fallback's makes a difference significant.
CompareReasoning(source, replay) ==
  LET Compare(s, r) ==
        Differs("model_reasoning",
                IF {s.path, r.path} \subseteq {"model_runtime", "deterministic_fallback"}
                THEN "warning" ELSE "significant",
                "model_path", s.path, r.path)
        \o Differs("model_reasoning", "info", "model_task", s.task, r.task)
  IN  Differs("model_reasoning", "warning", "model_reasoning_event_count",
              Len(Reasoning(source)), Len(Reasoning(replay)))
      \o Pairwise(Compare, Reasoning(source), Reasoning(replay))

CompareToolCalls(sc, rc) ==
  LET Compare(s, r) ==
        Differs("tool_call", "warning", "tool_name", s.tool_name, r.tool_name)
        \o Differs("tool_call", "warning", "tool_call_status", s.status, r.status)
        \o Differs("tool_call", "info", "side_effect_class", s.side_effect, r.side_effect)
        \o Differs("tool_call", "info", "idempotency", s.idempotency, r.idempotency)
  IN  Differs("tool_call", "warning", "tool_call_count", Len(sc), Len(rc))
      \o Pairwise(Compare, sc, rc)

\* Reasons are compared only where the decisions agree.
ComparePolicy(se, re, sourceProposals, replayProposals) ==
  LET Compare(s, r) ==
        IF s.decision # r.decision THEN Item("policy", "significant", "policy_decision")
        ELSE Differs("policy", "info", "policy_reason", s.reason, r.reason)
  IN  Differs("policy", "warning", "policy_evaluation_count", Len(se), Len(re))
      \o Pairwise(Compare, se, re)
      \o Differs("policy", "info", "action_proposal_count",
                 Len(sourceProposals), Len(replayProposals))

CompareApprovals(sa, ra) ==
  LET Compare(s, r) ==
        Differs("policy", "significant", "approval_decision", s.decision, r.decision)
  IN  Differs("policy", "warning", "approval_count", Len(sa), Len(ra))
      \o Pairwise(Compare, sa, ra)

CompareValidation(source, replay) ==
  Differs("validation", "warning", "validation_summary", source.validation, replay.validation)

ResultKeys == {"status", "outcome", "summary", "validation", "governance", "error", "message"}

CompareResult(source, replay) ==
  IF source.result = {} \/ replay.result = {}
  THEN Differs("result", "warning", "result_presence", source.result = {}, replay.result = {})
  ELSE CompareFields("result", "warning", ResultKeys,
                     CHOOSE x \in source.result : TRUE, CHOOSE x \in replay.result : TRUE)
=============================================================================
