------------------------------ MODULE Evaluation ------------------------------
(***************************************************************************)
(* evaluation-engine: the metrics of one execution, their rollups, the     *)
(* anomaly rules and the score.  A rate is a whole number of Units, chosen *)
(* so that the divisions of an instance come out even; NoRate stands for   *)
(* None.  Durations are reduced to where the latency comes from, and the   *)
(* explanatory notes are left out.  Rows that are counted are a function   *)
(* of places or keys.                                                      *)
(***************************************************************************)
EXTENDS Integers, Sequences, FiniteSets, SequencesExt

CONSTANTS
  Unit,           \* the rate 1.0
  MinModelEvents, \* MIN_MODEL_EVENTS_SINGLE_EXEC, 4
  MinExecutions,  \* MIN_EXECUTIONS_FOR_WORKFLOW_RULE, 5
  MinEvaluations, \* MIN_POLICY_EVALS_FOR_DENY_RULE, 6
  MinInvocations  \* MIN_TOOL_INVOCATIONS_FOR_FAILURE_RULE, 8

ASSUME UnitAssumption == Unit \in Nat \ {0}

ASSUME ThresholdAssumption ==
  {MinModelEvents, MinExecutions, MinEvaluations, MinInvocations} \subseteq Nat \ {0}

NoRate == -1

Rate(part, whole) == IF whole = 0 THEN NoRate ELSE (part * Unit) \div whole

Count(rows, Test(_)) == Cardinality({i \in DOMAIN rows : Test(rows[i])})

\* The sum of the naturals f takes, as a number of pairs.
Total(f) == Cardinality(UNION {{k} \X (1..f[k]) : k \in DOMAIN f})

Mean(rows, F(_)) ==
  LET known == {i \in DOMAIN rows : F(rows[i]) # NoRate}
  IN  IF known = {} THEN NoRate ELSE Total([i \in known |-> F(rows[i])]) \div Cardinality(known)

(***************************************************************************)
(* compute_execution_metrics: read is what was read of the execution - its *)
(* row, its steps, the results by step, its tool calls and decisions.      *)
(***************************************************************************)
IsReasoning(e) == e.event_type = "model_reasoning"
FellBack(e) == IsReasoning(e) /\ e.path = "deterministic_fallback"

\* _validation_success_from_results.  The engine's validation summary has
\* neither a status nor an overall, so without validation steps nothing is known.
ValidationSuccess(steps, results) ==
  LET judged == {s \in steps : s.type = "validation" /\ s.id \in DOMAIN results}
      Verdicts(s) == IF results[s.id].validation # "none" THEN {results[s.id].validation = "passed"}
                     ELSE IF s.status = "failed" THEN {FALSE} ELSE {}
      verdicts == UNION {Verdicts(s) : s \in judged}
  IN  IF verdicts = {} THEN "unknown" ELSE IF FALSE \in verdicts THEN "failed" ELSE "passed"

\* total_latency_ms: the wall clock of a completed execution, else the steps'.
LatencyFrom(execution, steps, results) ==
  IF execution.status = "completed" THEN "wall_clock"
  ELSE IF \E s \in steps : s.id \in DOMAIN results THEN "steps" ELSE "none"

ExecutionMetrics(x, read) ==
  LET events == Count(read.execution.trace_timeline, IsReasoning)
      fallbacks == Count(read.execution.trace_timeline, FellBack)
      succeeded == {t \in read.tools : t.status = "success"}
  IN  [execution_id |-> x, workflow_type |-> read.execution.workflow_type,
       status |-> read.execution.status,
       model_events |-> events, fallback_events |-> fallbacks,
       fallback_rate |-> Rate(fallbacks, events),
       validation |-> ValidationSuccess(read.steps, read.results),
       decisions |-> read.decisions,
       tools |-> Cardinality(read.tools),
       tool_rate |-> Rate(Cardinality(succeeded), Cardinality(read.tools)),
       latency |-> LatencyFrom(read.execution, read.steps, read.results)]

(***************************************************************************)
(* Rollups.                                                                *)
(***************************************************************************)
FallbackRate(m) == m.fallback_rate
ToolRate(m) == m.tool_rate
HasFailed(m) == m.status = "failed"

\* Where the decisions are d: a place among the rows and the evaluation's key.
Decided(rows, d) ==
  UNION {{i} \X {k \in DOMAIN rows[i].decisions : rows[i].decisions[k] = d} : i \in DOMAIN rows}

ByDecision(rows) ==
  LET kinds == UNION {{rows[i].decisions[k] : k \in DOMAIN rows[i].decisions} : i \in DOMAIN rows}
  IN  [d \in kinds |-> Cardinality(Decided(rows, d))]

WorkflowRollup(rows) ==
  [execution_count |-> Cardinality(DOMAIN rows), failed |-> Count(rows, HasFailed),
   mean_fallback |-> Mean(rows, FallbackRate), mean_tools |-> Mean(rows, ToolRate),
   decisions |-> ByDecision(rows)]

ByWorkflow(per) ==
  LET Of(w) == {i \in DOMAIN per : per[i].workflow_type = w}
  IN  [w \in {per[i].workflow_type : i \in DOMAIN per} |-> WorkflowRollup([i \in Of(w) |-> per[i]])]

\* extend_with_step_and_tool_dimensions: the executions as they were listed, with
\* the steps and tool calls loaded afterwards; a timeline row counts for the step
\* it names, if that was loaded.
ByStepType(listing, loaded) ==
  LET All == UNION {loaded[x].steps : x \in DOMAIN loaded}
      Events(type, Test(_)) == UNION {{<<e.execution_id, i>> :
                                i \in {j \in DOMAIN e.trace_timeline :
                                         /\ Test(e.trace_timeline[j])
                                         /\ \E s \in loaded[e.execution_id].steps :
                                              s.id = e.trace_timeline[j].step /\ s.type = type}} :
                             e \in ToSet(listing)}
  IN  [type \in {s.type : s \in All} |->
         [step_count |-> Cardinality({s \in All : s.type = type}),
          succeeded |-> Cardinality({s \in All : s.type = type /\ s.status = "succeeded"}),
          failed |-> Cardinality({s \in All : s.type = type /\ s.status = "failed"}),
          model_events |-> Cardinality(Events(type, IsReasoning)),
          fallback_events |-> Cardinality(Events(type, FellBack))]]

ByTool(loaded) ==
  LET All == UNION {loaded[x].tools : x \in DOMAIN loaded}
  IN  [n \in {t.tool_name : t \in All} |->
         [invocations |-> Cardinality({t \in All : t.tool_name = n}),
          failures |-> Cardinality({t \in All : t.tool_name = n /\ t.status # "success"})]]

Aggregate(per, listing, loaded) ==
  [executions_in_scope |-> Len(per), by_workflow |-> ByWorkflow(per),
   by_decision |-> ByDecision(per), by_step_type |-> ByStepType(listing, loaded),
   by_tool |-> ByTool(loaded)]

(***************************************************************************)
(* detect_anomalies and compute_evaluation_score.                          *)
(***************************************************************************)
HighFallback(m) == m.model_events >= MinModelEvents /\ 20 * m.fallback_rate >= 9 * Unit

\* Mutant of ElevatedFailures: most executions have to fail.
ElevatedFailuresMost(r) == r.execution_count >= MinExecutions /\ 2 * r.failed > r.execution_count

ElevatedFailures(r) == r.execution_count >= MinExecutions /\ 20 * r.failed >= 7 * r.execution_count

HighDenyShare(decisions) ==
  LET total == Total(decisions)
  IN  "deny" \in DOMAIN decisions /\ total >= MinEvaluations /\ 4 * decisions["deny"] >= total

RepeatedFailures(t) == t.invocations >= MinInvocations /\ 2 * t.failures >= t.invocations

DetectAnomalies(per, agg) ==
  {<<"high_model_fallback_single_execution", m.execution_id>> : m \in {n \in ToSet(per) : HighFallback(n)}}
  \cup {<<"elevated_execution_failure_rate", w>> :
          w \in {v \in DOMAIN agg.by_workflow : ElevatedFailures(agg.by_workflow[v])}}
  \cup {<<"high_policy_deny_share", d>> :
          d \in {"deny"} \cap {e \in DOMAIN agg.by_decision : HighDenyShare(agg.by_decision)}}
  \cup {<<"repeated_tool_failures", n>> :
          n \in {t \in DOMAIN agg.by_tool : RepeatedFailures(agg.by_tool[t])}}

\* In twentieths of a Unit.
EvaluationScore(per) ==
  LET tools == Mean(per, ToolRate)
      fallback == Mean(per, FallbackRate)
      base == 2 * (Unit - (Count(per, HasFailed) * Unit) \div Len(per))
  IN  IF per = <<>> \/ (tools = NoRate /\ fallback = NoRate) THEN NoRate
      ELSE IF fallback = NoRate THEN 18 * tools + base
      ELSE IF tools = NoRate THEN 18 * (Unit - fallback) + base
      ELSE 9 * tools + 9 * (Unit - fallback) + base
=============================================================================
