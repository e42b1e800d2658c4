-------------------------------- MODULE Mukti ---------------------------------
(***************************************************************************)
(* mukti-agent.  MuktiAnalyzer turns what was read of one execution into a *)
(* feedback row: the failure types, each once, and the patterns and        *)
(* suggestions as often as they were met.  CrossExecutionAnalyzer counts   *)
(* over the rows of many executions.  Texts are named by what they say;    *)
(* the limits on how many insights are listed are above the number of      *)
(* different ones there can be, so a listing is a set.                     *)
(***************************************************************************)
EXTENDS Integers, Sequences, FiniteSets, SequencesExt

Fallback == "model_deterministic_fallback"
Disputed == "operator_disputed_outcome"
Clean == "clean_success_path"
NoStep == <<>>

PolicyTypes == {"policy_evaluation_deny", "trace_policy_denied", "action_proposal_policy_denied"}

Pattern(type, step) == [type |-> type, step |-> step]
Suggestion(summary) == [category |-> "policy_rule", summary |-> summary]

RowsHaving(rows, Has(_)) ==
  FlattenSeq([i \in DOMAIN rows |-> IF Has(rows[i]) THEN <<rows[i]>> ELSE <<>>])

(***************************************************************************)
(* MuktiAnalyzer.analyze, of an input with the execution's row, its steps, *)
(* decisions, proposals' statuses and the labels operators gave it.        *)
(***************************************************************************)
FailureTypes(inp) ==
  LET Failure(type, met) == IF met THEN {type} ELSE {}
  IN  Failure("terminal_failed", inp.execution.status = "failed")
      \cup Failure("terminal_cancelled", inp.execution.status = "cancelled")
      \cup Failure("step_failure", \E s \in inp.steps : s.status = "failed")
      \cup Failure("policy_evaluation_deny", \E i \in DOMAIN inp.decisions : inp.decisions[i] = "deny")
      \cup Failure("trace_policy_denied",
             \E i \in DOMAIN inp.execution.trace_timeline :
               LET e == inp.execution.trace_timeline[i]
               IN  e.event_type = "governed_outcome" /\ e.path = "policy_denied")
      \cup Failure("action_proposal_policy_denied",
             \E i \in DOMAIN inp.proposals : inp.proposals[i] = "policy_denied")

\* Mutant of CleanSuccess: whatever has no failure yet is a success.
CleanUnlessFailed(inp) == FailureTypes(inp) = {}

CleanSuccess(inp) == inp.execution.status = "completed" /\ FailureTypes(inp) = {}

Patterns(inp) ==
  LET fellBack == RowsHaving(inp.execution.trace_timeline,
        LAMBDA e : e.event_type = "model_reasoning" /\ e.path = "deterministic_fallback")
      disputed == RowsHaving(inp.labels, LAMBDA l : l = "false_positive")
  IN  [i \in DOMAIN fellBack |-> Pattern(Fallback, fellBack[i].step)]
      \o [i \in DOMAIN disputed |-> Pattern(Disputed, NoStep)]
      \o (IF CleanSuccess(inp) THEN <<Pattern(Clean, NoStep)>> ELSE <<>>)

Suggestions(inp) ==
  LET denials == SelectSeq(inp.decisions, LAMBDA d : d = "deny")
      denied == SelectSeq(inp.proposals, LAMBDA p : p = "policy_denied")
  IN  [i \in DOMAIN denials |-> Suggestion("review_rules")]
      \o [i \in DOMAIN denied |-> Suggestion("align_intent")]

Analyze(x, inp, now) ==
  [execution_id |-> x, failure_types |-> FailureTypes(inp), patterns |-> Patterns(inp),
   suggestions |-> Suggestions(inp), created_at |-> now]

(***************************************************************************)
(* CrossExecutionAnalyzer, over rows, each under its key, and the          *)
(* summaries of the executions in scope.                                   *)
(***************************************************************************)
Severity(count) ==
  IF count >= 5 THEN "elevated" ELSE IF count >= 2 THEN "warning" ELSE "info"

Insight(category, key, count, executions, workflows, steps, score) ==
  [category |-> category, key |-> key, severity |-> Severity(count), evidence_count |-> count,
   executions |-> executions, workflows |-> workflows, steps |-> steps, rank_score |-> score]

\* What the rows with these keys are about.
ExecutionsOf(rows, keys) == {rows[k].execution_id : k \in keys}
WorkflowsOf(rows, keys, summaries) ==
  {summaries[x].workflow_type : x \in ExecutionsOf(rows, keys) \cap DOMAIN summaries}

\* Where a row carries a signal, and where the rows do: pairs of a key and a place.
TypeHits(row, type) == {type} \cap row.failure_types
PatternHits(row, type) == {i \in DOMAIN row.patterns : row.patterns[i].type = type}
SuggestionHits(row, summary) == {i \in DOMAIN row.suggestions : row.suggestions[i].summary = summary}

Met(rows, Hits(_, _), signal) == UNION {{k} \X Hits(rows[k], signal) : k \in DOMAIN rows}

\* One insight for each signal, counted as often as the rows carry it.
Tallied(category, rows, summaries, signals, Hits(_, _), least, weight) ==
  LET Of(s) == LET met == Met(rows, Hits, s)
                   having == {m[1] : m \in met}
               IN  Insight(category, s, Cardinality(met), ExecutionsOf(rows, having),
                           WorkflowsOf(rows, having, summaries), {}, Cardinality(met) * weight)
  IN  {i \in {Of(s) : s \in signals} : i.evidence_count >= least}

FailureKinds(rows) == UNION {rows[k].failure_types : k \in DOMAIN rows}
PatternKinds(rows) == UNION {{p.type : p \in ToSet(rows[k].patterns)} : k \in DOMAIN rows}
Summaries(rows) == UNION {{s.summary : s \in ToSet(rows[k].suggestions)} : k \in DOMAIN rows}

\* Mutant of TopFailureTypes: a type met once is no pattern.
TopFailureTypesRecurring(rows, summaries) ==
  Tallied("top_failure_type", rows, summaries, FailureKinds(rows), TypeHits, 2, 10)

TopFailureTypes(rows, summaries) ==
  Tallied("top_failure_type", rows, summaries, FailureKinds(rows), TypeHits, 1, 10)

RecurringPatterns(rows, summaries) ==
  Tallied("recurring_pattern", rows, summaries, PatternKinds(rows), PatternHits, 2, 8)

PolicyFriction(rows, summaries) ==
  Tallied("policy_friction", rows, summaries, FailureKinds(rows) \cap PolicyTypes, TypeHits, 1, 12)
  \cup Tallied("policy_friction", rows, summaries, Summaries(rows), SuggestionHits, 1, 12)

StepsOf(rows) ==
  (UNION {{p.step : p \in ToSet(rows[k].patterns)} : k \in DOMAIN rows}) \ {NoStep}

\* The rows of a workflow; a row whose execution is not in scope has none.
Within(rows, keys, summaries, w) ==
  {k \in keys : /\ rows[k].execution_id \in DOMAIN summaries
                /\ summaries[rows[k].execution_id].workflow_type = w}

\* Counted per workflow, in rows; if no row has one, in executions.  The steps
\* are those of every workflow.
ModelFallback(rows, summaries) ==
  LET hit == {k \in DOMAIN rows : PatternHits(rows[k], Fallback) # {}}
      workflows == WorkflowsOf(rows, hit, summaries)
      Of(key, keys, count, named) ==
        Insight("model_fallback", key, count, ExecutionsOf(rows, keys), named, StepsOf(rows), count * 9)
      spread == Cardinality(ExecutionsOf(rows, hit))
  IN  IF workflows # {}
        THEN {LET mine == Within(rows, hit, summaries, w) IN Of(w, mine, Cardinality(mine), {w}) : w \in workflows}
        ELSE IF spread >= 2 THEN {Of("global", hit, spread, {})} ELSE {}

Ended(summaries, row) ==
  /\ row.execution_id \in DOMAIN summaries
  /\ summaries[row.execution_id].status \in {"failed", "cancelled"}

UnstableWorkflows(rows, summaries) ==
  LET Mine(w) == Within(rows, DOMAIN rows, summaries, w)
      Size(w) == Cardinality(Mine(w))
      Failed(w) == Cardinality({k \in Mine(w) : Ended(summaries, rows[k])})
      Unstable(w) == Size(w) >= 2 /\ 2 * Failed(w) >= Size(w)
      Of(w) == Insight("unstable_workflow", w, Size(w), ExecutionsOf(rows, Mine(w)), {w}, {},
                       (100 * Failed(w)) \div Size(w) + Size(w))
  IN  {Of(w) : w \in {v \in WorkflowsOf(rows, DOMAIN rows, summaries) : Unstable(v)}}

UnstableSteps(rows, summaries) ==
  LET With(step) == {k \in DOMAIN rows : \E i \in DOMAIN rows[k].patterns : rows[k].patterns[i].step = step}
      Of(step) == LET count == Cardinality(ExecutionsOf(rows, With(step)))
                  IN  Insight("unstable_step", step, count, ExecutionsOf(rows, With(step)),
                              WorkflowsOf(rows, With(step), summaries), {step}, count * 7)
  IN  {i \in {Of(step) : step \in StepsOf(rows)} : i.evidence_count >= 2}

\* Ordered by rows, then by text; what is reported is the number of executions.
RankedSuggestions(rows, summaries) ==
  LET With(summary) == {k \in DOMAIN rows : SuggestionHits(rows[k], summary) # {}}
      Of(summary) == [category |-> "policy_rule", summary |-> summary,
                      weight |-> Cardinality(Met(rows, SuggestionHits, summary)),
                      evidence_count |-> Cardinality(ExecutionsOf(rows, With(summary))),
                      executions |-> ExecutionsOf(rows, With(summary)),
                      workflows |-> WorkflowsOf(rows, With(summary), summaries)]
  IN  {Of(summary) : summary \in Summaries(rows)}

AnalyzeCrossExecution(rows, summaries) ==
  [sample_size |-> Cardinality(DOMAIN rows),
   insights    |-> TopFailureTypes(rows, summaries) \cup RecurringPatterns(rows, summaries)
                   \cup PolicyFriction(rows, summaries) \cup ModelFallback(rows, summaries)
                   \cup UnstableWorkflows(rows, summaries) \cup UnstableSteps(rows, summaries),
   ranked      |-> RankedSuggestions(rows, summaries)]
=============================================================================
