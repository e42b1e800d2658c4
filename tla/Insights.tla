------------------------------- MODULE Insights -------------------------------
(***************************************************************************)
(* What is learned from executions while they run.  Drivers write their    *)
(* rows under PostgreSQL's constraints, operators leave feedback, the      *)
(* Mukti pipeline reads an execution part by part and stores what it makes *)
(* of it, and a caller asks the gateway for metrics, anomalies or insights *)
(* within its tenant.  Reads of one kind of row are a step of their own.   *)
(*                                                                         *)
(* A driver is the sequence of its writes: what decides them, and what     *)
(* other writers do to them, is ExecutionEngine's matter.  Timeline rows   *)
(* that no reader here looks at are left out.                              *)
(***************************************************************************)
EXTENDS Tables, Access, Planner, Mukti, Evaluation, Repository

CONSTANTS
  Executions,  \* names of executions
  Born,        \* the order in which they are created: a number for each
  Workflows,   \* the workflow of each
  Fates,       \* what may come of one: see Program
  Headers,     \* the headers callers send
  Workloads    \* what is stored at first, and how much is done and asked

ASSUME ExecutionsAssumption == IsFiniteSet(Executions) /\ Workflows \in [Executions -> Workflow]

ASSUME FatesAssumption ==
  \A f \in Fates : f.steps \in Nat /\ f.decision \in {"deny", "allow", "conditional"}

\* ListExecutions' name for the filter that is not given is no tenant's name.
ASSUME HeadersAssumption == \A h \in Headers : h.tenant # "any"

VARIABLES
  db,        \* the tables
  run,       \* of each execution: its tenant, fate and next write
  pipe,      \* the Mukti pipeline's place and what it has read
  request,   \* the caller's request and, in the end, its answer
  left,      \* bounds: analyses and remarks to come, writes of a driver, requests
  changed,   \* something was written since the request came in (history)
  refused    \* the tables that turned a row away (history)

vars == <<db, run, pipe, request, left, changed, refused>>

(***************************************************************************)
(* The writes of one execution, in the order the code makes them.          *)
(***************************************************************************)
Context(x) == <<x, "context">>
PlanId(x) == <<x, "plan">>
StepId(x, n) == <<x, n>>
Proposal(x) == <<x, "proposal">>
Verdict(x) == <<x, "evaluation">>

Write(table, key, row) == [table |-> table, key |-> key, row |-> row]

StepType(name) ==
  IF name \in ValidationSteps THEN "validation"
  ELSE IF name \in {"gather_evidence", "retrieve_cost_evidence"} THEN "retrieval"
  ELSE IF name = "correlate_usage_patterns" THEN "tool" ELSE "reasoning"

ToolsOf(name) ==
  CASE name = "gather_evidence" -> <<"incident_metadata_tool", "signal_lookup_tool">>
    [] name = "correlate_usage_patterns" -> <<"cloud_cost_tool", "metrics_lookup_tool">>
    [] OTHER -> <<>>

ModelSteps ==
  {"analyze_incident", "validate_incident", "analyze_cost_anomaly", "validate_cost_attribution"}

StepsOfPlan(x) == Plan[Workflows[x]]

Event(type, path, step) == [event_type |-> type, path |-> path, step |-> step]

\* The rows of the first n steps.
Reasoning(x, f, n) ==
  LET Of(i) == IF StepsOfPlan(x)[i] \in ModelSteps
                 THEN <<Event("model_reasoning", f.path, StepId(x, i))>> ELSE <<>>
  IN  FlattenSeq([i \in 1..n |-> Of(i)])

Record(x, status, timeline) ==
  [execution_id |-> x, workflow_type |-> Workflows[x], status |-> status,
   trace_timeline |-> timeline, created_at |-> Born[x], execution_context_id |-> Context(x)]

Planned(x, status, timeline) ==
  Write("executions", x, With(Record(x, status, timeline), "current_plan_id", PlanId(x)))

StepRow(x, n, status) ==
  Write("steps", StepId(x, n),
        [execution_id |-> x, plan_id |-> PlanId(x), type |-> StepType(StepsOfPlan(x)[n]), status |-> status])

\* ExecutionService.create_execution
Opening(x, tenant) ==
  <<Write("contexts", Context(x), [tenant_id |-> tenant]),
    Write("executions", x, Record(x, "created", <<>>))>>

\* Mutant of PlanWrites: the record points at its plan first.
PlanWritesLate(x) ==
  <<Planned(x, "executing", <<>>), Write("plans", PlanId(x), [execution_id |-> x, plan_version |-> 1])>>
  \o [n \in DOMAIN StepsOfPlan(x) |-> StepRow(x, n, "pending")]

PlanWrites(x) ==
  <<Write("executions", x, Record(x, "planning", <<>>)),
    Write("plans", PlanId(x), [execution_id |-> x, plan_version |-> 1])>>
  \o [n \in DOMAIN StepsOfPlan(x) |-> StepRow(x, n, "pending")]
  \o <<Planned(x, "executing", <<>>)>>

\* _run_step, and the move to validating before a validation step.
StepWrites(x, f, n) ==
  LET name == StepsOfPlan(x)[n]
      status == IF name \in ValidationSteps THEN "validating" ELSE "executing"
      Call(tool) == Write("tool_calls", <<x, n, tool>>,
                      [execution_id |-> x, step_id |-> StepId(x, n), tool_name |-> tool,
                       execution_context_id |-> Context(x), status |-> f.tool])
      validation == IF name \in ValidationSteps THEN f.validation ELSE "none"
  IN  (IF name \in ValidationSteps THEN <<Planned(x, status, Reasoning(x, f, n - 1))>> ELSE <<>>)
      \o <<StepRow(x, n, "running")>>
      \o [i \in DOMAIN ToolsOf(name) |-> Call(ToolsOf(name)[i])]
      \o (IF name \in ModelSteps THEN <<Planned(x, status, Reasoning(x, f, n))>> ELSE <<>>)
      \o <<Write("results", StepId(x, n), [step_id |-> StepId(x, n), validation |-> validation]),
           StepRow(x, n, "succeeded")>>

ProposalRow(x, status) ==
  Write("proposals", Proposal(x),
        [execution_id |-> x, step_id |-> StepId(x, Len(StepsOfPlan(x))), status |-> status])

Settled(x, f, status, path) ==
  Planned(x, status, Reasoning(x, f, Len(StepsOfPlan(x)))
                     \o (IF path = "none" THEN <<>> ELSE <<Event("governed_outcome", path, NoStep)>>))

\* submit_approval, with the references of the governance block.
ApprovalWrites(x, f) ==
  <<Write("approvals", <<x, "approval">>,
      [execution_id |-> x, policy_evaluation_id |-> Verdict(x), action_proposal_id |-> Proposal(x),
       decision |-> f.approval]),
    ProposalRow(x, IF f.approval = "approve" THEN "approved" ELSE "rejected"),
    IF f.approval = "approve" THEN Settled(x, f, "completed", "approval_granted")
                              ELSE Settled(x, f, "failed", "approval_rejected")>>

\* _finalize_incident_triage_governance, and the approval it may wait for.
GovernanceWrites(x, f) ==
  <<ProposalRow(x, "proposed"),
    Write("evaluations", Verdict(x),
      [execution_id |-> x, execution_context_id |-> Context(x), decision |-> f.decision])>>
  \o CASE f.decision = "deny" ->
            <<ProposalRow(x, "policy_denied"), Settled(x, f, "failed", "policy_denied")>>
       [] f.decision = "allow" ->
            <<ProposalRow(x, "approved"), Settled(x, f, "completed", "policy_allow")>>
       [] f.decision = "conditional" ->
            <<ProposalRow(x, "awaiting_approval"), Settled(x, f, "awaiting_approval", "none")>>
            \o ApprovalWrites(x, f)

\* A cancellation is seen after f.steps of the steps, or not at all.
Program(x, r) ==
  LET f == r.fate
      whole == f.steps >= Len(StepsOfPlan(x))
      ran == IF whole THEN Len(StepsOfPlan(x)) ELSE f.steps
  IN  Opening(x, r.tenant) \o PlanWrites(x) \o FlattenSeq([n \in 1..ran |-> StepWrites(x, f, n)])
      \o (IF ~ whole THEN <<Planned(x, "cancelled", Reasoning(x, f, ran))>>
          ELSE IF Workflows[x] = "incident_triage" THEN GovernanceWrites(x, f)
          ELSE <<Settled(x, f, "completed", "none")>>)

Stored(tables, w) == Save(tables, w.table, w.key, w.row)

\* A row that is turned away raises out of the writer.
TrySave(w) ==
  IF Accepts(db, w.table, w.key, w.row)
    THEN db' = Stored(db, w) /\ UNCHANGED refused
    ELSE refused' = refused \cup {w.table} /\ UNCHANGED db

\* POST /v1/executions: the context carries the tenant of the caller.
Create(x) ==
  /\ run[x].at = 0
  /\ \E h \in Headers, claimed \in {NoHeader} \cup {g.tenant : g \in Headers}, f \in Fates :
       /\ left.writes > 0 /\ MayWrite(Identity(h)) /\ MergeAllowed(Identity(h), claimed)
       /\ run' = [run EXCEPT ![x] = [tenant |-> Identity(h).tenant, fate |-> f, at |-> 1]]
  /\ UNCHANGED <<db, pipe, request, left, changed, refused>>

Drive(x) ==
  /\ run[x].at \in 1..Min({Len(Program(x, run[x])), left.writes})
  /\ TrySave(Program(x, run[x])[run[x].at])
  /\ run' = [run EXCEPT ![x].at = IF refused' = refused THEN @ + 1 ELSE Len(Program(x, run[x])) + 1]
  /\ changed' = TRUE
  /\ UNCHANGED <<pipe, request, left>>

(***************************************************************************)
(* Feedback: operators' remarks, and the pipeline that analyses an         *)
(* execution that has ended or waits for an approver.                      *)
(***************************************************************************)
NextId(table) == Cardinality(DOMAIN db[table]) + 1

\* POST /v1/executions/{id}/feedback
SubmitFeedback(x) ==
  /\ left.remarks > 0
  /\ \E h \in Headers, label \in {"seed", "false_positive"} :
       /\ MayWrite(Identity(h)) /\ Visible(db, Identity(h), x)
       /\ TrySave(Write("operator_feedback", NextId("operator_feedback"),
                        [execution_id |-> x, label |-> label]))
  /\ left' = [left EXCEPT !.remarks = @ - 1]
  /\ changed' = TRUE
  /\ UNCHANGED <<run, pipe, request>>

IdlePipe == [pc |-> "idle"]

\* In the order of the rows' keys, which is that of their times.
LabelsRead(x) ==
  LET rows == RowsHaving(db.operator_feedback, LAMBDA r : r.execution_id = x)
  IN  [i \in DOMAIN rows |-> rows[i].label]

\* The steps of x, each with its key; no reader minds their order.
StepsRead(x) == {With(db.steps[k], "id", k) : k \in RowsOf(db, "steps", x)}

\* There is at most one decision and one proposal.
DecisionsRead(x) == SetToSeq({db.evaluations[k].decision : k \in RowsOf(db, "evaluations", x)})
ProposalsRead(x) == SetToSeq({db.proposals[k].status : k \in RowsOf(db, "proposals", x)})

\* wait_for_execution, then run_mukti_pipeline's first read.
StartAnalysis(x) ==
  /\ pipe = IdlePipe /\ left.analyses > 0
  /\ x \in DOMAIN db.executions
  /\ db.executions[x].status \in {"completed", "failed", "cancelled", "awaiting_approval"}
  /\ pipe' = [pc |-> "execution", x |-> x, labels |-> LabelsRead(x)]
  /\ left' = [left EXCEPT !.analyses = @ - 1]
  /\ UNCHANGED <<db, run, request, changed, refused>>

\* build_mukti_analysis_input
PipeReads(pc, next, read) ==
  /\ pipe.pc = pc
  /\ pipe' = [Merged(pipe, read) EXCEPT !.pc = next]
  /\ UNCHANGED <<db, run, request, left, changed, refused>>

ReadExecution == PipeReads("execution", "steps", [execution |-> db.executions[pipe.x]])
ReadSteps == PipeReads("steps", "decisions", [steps |-> StepsRead(pipe.x)])
ReadDecisions == PipeReads("decisions", "proposals", [decisions |-> DecisionsRead(pipe.x)])
ReadProposals == PipeReads("proposals", "save", [proposals |-> ProposalsRead(pipe.x)])

SaveAnalysis ==
  /\ pipe.pc = "save"
  /\ LET now == NextId("execution_feedback")
     IN  TrySave(Write("execution_feedback", now, Analyze(pipe.x, pipe, now)))
  /\ pipe' = IdlePipe /\ changed' = TRUE
  /\ UNCHANGED <<run, request, left>>

(***************************************************************************)
(* Requests.                                                               *)
(***************************************************************************)
NoRequest == [pc |-> "idle"]
NoRead == [part |-> "execution"]

TenantOf(x) == db.contexts[db.executions[x].execution_context_id].tenant_id

\* list_executions, within the caller's tenant.
ListScope ==
  LET rows == [x \in DOMAIN db.executions |-> With(db.executions[x], "tenant", TenantOf(x))]
  IN  ListExecutions("postgres", rows, request.id.tenant, request.workflow, "any", request.limit)

Ask(kind, more) ==
  \E h \in Headers, queried \in {NoHeader} \cup {g.tenant : g \in Headers} :
    LET id == Identity(h)
    IN  request' = IF MayRead(id) /\ ScopeAllowed(id, queried)
                     THEN Merged([kind |-> kind, id |-> id, code |-> 200], more)
                     ELSE [pc |-> "done", kind |-> kind, id |-> id, code |-> 403]

\* GET /v1/metrics, /v1/insights/anomalies and /v1/insights/mukti
Receive(kind) ==
  /\ request = NoRequest /\ kind \in left.kinds
  /\ \E limit \in left.limits, workflow \in left.workflows :
       Ask(kind, [pc |-> "list", limit |-> limit, workflow |-> workflow])
  /\ changed' = FALSE
  /\ UNCHANGED <<db, run, pipe, left, refused>>

\* GET /v1/executions/{id}/metrics
ReceiveMetrics(x) ==
  /\ request = NoRequest /\ "metrics" \in left.kinds
  /\ \E h \in Headers :
       LET id == Identity(h)
           code == IF x \notin DOMAIN db.executions THEN 404
                   ELSE IF Visible(db, id, x) THEN 200 ELSE 403
       IN  request' = IF code = 200
                        THEN [kind |-> "metrics", id |-> id, code |-> code, pc |-> "metrics",
                              todo |-> <<x>>, read |-> NoRead, per |-> <<>>, listing |-> <<>>]
                        ELSE [kind |-> "metrics", id |-> id, code |-> code, pc |-> "done"]
  /\ changed' = FALSE
  /\ UNCHANGED <<db, run, pipe, left, refused>>

Step(next) ==
  /\ request' = next
  /\ UNCHANGED <<db, run, pipe, left, changed, refused>>

Names(listing) == [i \in DOMAIN listing |-> listing[i].execution_id]

List ==
  /\ request.pc = "list"
  /\ \E rows \in ListScope :
       Step(Merged(request,
              [listing |-> rows, todo |-> Names(rows), read |-> NoRead, per |-> <<>>,
               pc |-> IF request.kind = "mukti" THEN "feedback" ELSE "metrics"]))

\* The facade's pool: the newest rows of all tenants.
Pool(limit) == Min({500, Max({5 * limit, limit})})

NewestFeedback(limit) ==
  LET newest == NextId("execution_feedback") - 1
  IN  [k \in Max({1, newest + 1 - limit})..newest |-> db.execution_feedback[k]]

\* Mutant of InScope: whatever is in the pool.
InPool(rows, scope) == rows

InScope(rows, scope) ==
  [k \in {j \in DOMAIN rows : rows[j].execution_id \in scope} |-> rows[k]]

ReadFeedback ==
  /\ request.pc = "feedback"
  /\ LET scope == ToSet(Names(request.listing))
         summaries == [x \in scope |-> CHOOSE e \in ToSet(request.listing) : e.execution_id = x]
         rows == InScope(NewestFeedback(Pool(request.limit)), scope)
     IN  Step(Merged(request, [answer |-> AnalyzeCrossExecution(rows, summaries), pc |-> "done"]))

(***************************************************************************)
(* EvaluationService: of each execution the row, the steps, their results, *)
(* their tool calls and the decisions are read one after the other.        *)
(***************************************************************************)
Parts == <<"execution", "steps", "results", "tools", "decisions">>

ResultsRead(steps) == [k \in {s.id : s \in steps} \cap DOMAIN db.results |-> db.results[k]]
ToolsRead(steps) ==
  {With(db.tool_calls[k], "id", k) :
     k \in {c \in DOMAIN db.tool_calls : \E s \in steps : db.tool_calls[c].step_id = s.id}}

VerdictsRead(x) == [k \in RowsOf(db, "evaluations", x) |-> db.evaluations[k].decision]

Part(x, part, read) ==
  CASE part = "execution" -> [execution |-> db.executions[x]]
    [] part = "steps" -> [steps |-> StepsRead(x)]
    [] part = "results" -> [results |-> ResultsRead(read.steps)]
    [] part = "tools" -> [tools |-> ToolsRead(read.steps)]
    [] part = "decisions" -> [decisions |-> VerdictsRead(x)]

ReadMetrics ==
  /\ request.pc = "metrics" /\ request.todo # <<>>
  /\ LET x == Head(request.todo)
         part == request.read.part
         read == Merged(request.read, Part(x, part, request.read))
         i == CHOOSE j \in DOMAIN Parts : Parts[j] = part
     IN  IF i < Len(Parts)
           THEN Step([request EXCEPT !.read = With(read, "part", Parts[i + 1])])
           ELSE Step([request EXCEPT !.read = NoRead, !.todo = Tail(@),
                                     !.per = Append(@, ExecutionMetrics(x, read))])

\* The metrics of all executions are there: the first time round, the steps and
\* tool calls are loaded again; the second time, the summary is made.
MetricsRead ==
  /\ request.pc = "metrics" /\ request.todo = <<>>
  /\ CASE request.kind = "metrics" -> Step([request EXCEPT !.pc = "done"])
       [] request.kind # "metrics" /\ "agg" \notin DOMAIN request ->
            Step(Merged(request, [loaded |-> <<>>, todo |-> Names(request.listing), pc |-> "load"]))
       [] request.kind # "metrics" /\ "agg" \in DOMAIN request ->
            Step(Merged(request,
                   [anomalies |-> DetectAnomalies(request.per, request.agg),
                    score |-> EvaluationScore(request.per), pc |-> "done"]))

\* build_full_aggregated_metrics: the steps, then their tool calls.
LoadSteps ==
  /\ request.pc = "load" /\ request.todo # <<>>
  /\ Step([request EXCEPT !.pc = "tools", !.read = [steps |-> StepsRead(Head(request.todo))]])

LoadTools ==
  /\ request.pc = "tools"
  /\ LET x == Head(request.todo)
         dims == [steps |-> request.read.steps, tools |-> ToolsRead(request.read.steps)]
     IN  Step([request EXCEPT !.pc = "load", !.read = NoRead, !.todo = Tail(@),
                              !.loaded = With(@, x, dims)])

\* get_evaluation_summary lists and reads everything a second time.
Rollup ==
  /\ request.pc = "load" /\ request.todo = <<>>
  /\ LET rest == [k \in DOMAIN request \ {"loaded"} |-> request[k]]
     IN  Step(Merged(rest,
                [agg |-> Aggregate(request.per, request.listing, request.loaded),
                 pc |-> IF request.kind = "aggregated" THEN "done" ELSE "list"]))

Init ==
  \E w \in Workloads :
    /\ run = w.run
    /\ db = FoldLeft(Stored, Empty, w.written)
    /\ left = w.left
    /\ pipe = IdlePipe /\ request = NoRequest /\ changed = FALSE /\ refused = {}

Next ==
  \/ \E x \in Executions : Create(x) \/ Drive(x) \/ SubmitFeedback(x) \/ StartAnalysis(x)
  \/ ReadExecution \/ ReadSteps \/ ReadDecisions \/ ReadProposals \/ SaveAnalysis
  \/ \E kind \in {"aggregated", "anomalies", "mukti"} : Receive(kind)
  \/ \E x \in Executions : ReceiveMetrics(x)
  \/ List \/ ReadFeedback \/ ReadMetrics \/ MetricsRead \/ LoadSteps \/ LoadTools \/ Rollup

Spec == Init /\ [][Next]_vars

-----------------------------------------------------------------------------
Answered == request.pc = "done" /\ request.code = 200

\* The executions an answer speaks of.
Cited ==
  IF request.kind = "mukti"
    THEN ToSet(Names(request.listing))
         \cup UNION {i.executions : i \in request.answer.insights \cup request.answer.ranked}
    ELSE {m.execution_id : m \in ToSet(request.per)}

\* Whatever drivers, operators and the pipeline do in between, PostgreSQL turns no
\* row away for its keys: every save finds the rows it refers to and no key is taken
\* (the order of the saves in run_execution, governance, submit_approval and the
\* feedback service).  Ranges and enumerations of single columns are left out.
NothingRefused == refused = {}

\* An answer speaks only of executions whose context has the caller's tenant, which
\* is the tenant of whoever created them, although feedback is listed across
\* tenants (mukti_facade, _scoped_tenant_id, list_executions, merge_execution_context).
TenantSeesOnlyItsOwn ==
  Answered => \A x \in Cited : TenantOf(x) = request.id.tenant /\ run[x].tenant = TenantOf(x)

\* What a feedback row reports of its execution.
Reports(row, insight) ==
  CASE insight.category = "top_failure_type" -> insight.key \in row.failure_types
    [] insight.category = "recurring_pattern" -> PatternHits(row, insight.key) # {}
    [] insight.category = "policy_friction" ->
         insight.key \in row.failure_types \/ SuggestionHits(row, insight.key) # {}
    [] insight.category = "model_fallback" -> PatternHits(row, Fallback) # {}
    [] OTHER -> TRUE

\* The rows of the caller's executions that fewer than Pool rows are newer than.
Recent ==
  LET rows == db.execution_feedback
  IN  {k \in DOMAIN rows :
         /\ rows[k].execution_id \in ToSet(Names(request.listing))
         /\ Cardinality({j \in DOMAIN rows : rows[j].created_at > rows[k].created_at})
              < Pool(request.limit)}

\* An insight of any kind names only executions with a stored feedback row that reports
\* it.  Of two kinds the answer is exact while nothing is written: each failure type of
\* the recent rows is counted once for every row that has it, and a workflow is unstable
\* exactly when half of its recent rows are of failed or cancelled executions
\* (CrossExecutionAnalyzer).  The counts of the others are not promised: a recurring
\* pattern counts occurrences, so that two in one row make it recur in "2
\* execution_feedback row(s)" (cross_execution.py:157, 172).
InsightsGrounded ==
  Answered /\ request.kind = "mukti" =>
    LET rows == db.execution_feedback
        insights == request.answer.insights
        Having(f) == {k \in Recent : f \in rows[k].failure_types}
        Of(w) == {k \in Recent : db.executions[rows[k].execution_id].workflow_type = w}
        Bad(w) == {k \in Of(w) : db.executions[rows[k].execution_id].status \in {"failed", "cancelled"}}
    IN  /\ \A i \in insights : \A x \in i.executions :
             \E k \in DOMAIN rows : rows[k].execution_id = x /\ Reports(rows[k], i)
        /\ ~ changed =>
             /\ \A f \in UNION {rows[k].failure_types : k \in Recent} :
                  \E i \in insights : /\ i.category = "top_failure_type" /\ i.key = f
                                      /\ i.evidence_count = Cardinality(Having(f))
             /\ \A w \in Workflow :
                  (\E i \in insights : i.category = "unstable_workflow" /\ i.key = w)
                  <=> /\ Cardinality(Of(w)) >= 2
                      /\ 2 * Cardinality(Bad(w)) >= Cardinality(Of(w))

Denied(tables, x) ==
  \E e \in RowsOf(tables, "evaluations", x) : tables.evaluations[e].decision = "deny"

IsTrue(row, tables) ==
  LET x == row.execution_id
      ex == tables.executions[x]
  IN  /\ "terminal_failed" \in row.failure_types => ex.status = "failed"
      /\ "terminal_cancelled" \in row.failure_types => ex.status = "cancelled"
      /\ row.failure_types \cap PolicyTypes # {} => Denied(tables, x)
      /\ \A i \in DOMAIN row.patterns :
           /\ row.patterns[i].type = Fallback =>
                Event("model_reasoning", "deterministic_fallback", row.patterns[i].step)
                  \in ToSet(ex.trace_timeline)
           /\ row.patterns[i].type = Clean => ex.status = "completed" /\ ~ Denied(tables, x)

\* A stored analysis is true, although its parts were read one after the other and an
\* approver may have moved the execution on: each failure it names has happened, each
\* fallback is in the trace, and only a completed execution without a denial is called
\* a clean success (MuktiAnalyzer over build_mukti_analysis_input).
FeedbackIsTrue ==
  \A k \in DOMAIN db.execution_feedback : IsTrue(db.execution_feedback[k], db)

\* The rows of some executions that a rule is about, straight from the tables.
DecisionsOf(scope) == {k \in DOMAIN db.evaluations : db.evaluations[k].execution_id \in scope}
DenialsOf(scope) == {k \in DecisionsOf(scope) : db.evaluations[k].decision = "deny"}
CallsOf(tool, scope) ==
  {k \in DOMAIN db.tool_calls :
     db.tool_calls[k].execution_id \in scope /\ db.tool_calls[k].tool_name = tool}
FailuresOf(tool, scope) == {k \in CallsOf(tool, scope) : db.tool_calls[k].status # "success"}
RunsOf(w, scope) == {x \in scope : Workflows[x] = w}
FailedRuns(w, scope) == {x \in RunsOf(w, scope) : db.executions[x].status = "failed"}

\* What anomalies these executions show, no more and no less.
FlagsAreExact(flags, scope) ==
  /\ \A x \in scope :
       <<"elevated_execution_failure_rate", Workflows[x]>> \in flags <=>
         /\ Cardinality(RunsOf(Workflows[x], scope)) >= MinExecutions
         /\ 20 * Cardinality(FailedRuns(Workflows[x], scope)) >= 7 * Cardinality(RunsOf(Workflows[x], scope))
  /\ <<"high_policy_deny_share", "deny">> \in flags <=>
       /\ Cardinality(DenialsOf(scope)) > 0 /\ Cardinality(DecisionsOf(scope)) >= MinEvaluations
       /\ 4 * Cardinality(DenialsOf(scope)) >= Cardinality(DecisionsOf(scope))
  /\ \A t \in {db.tool_calls[k].tool_name : k \in DOMAIN db.tool_calls} :
       <<"repeated_tool_failures", t>> \in flags <=>
         /\ Cardinality(CallsOf(t, scope)) >= MinInvocations
         /\ 2 * Cardinality(FailuresOf(t, scope)) >= Cardinality(CallsOf(t, scope))

\* A report's own executions, and what it may say of them.
InReport(req) == {m.execution_id : m \in ToSet(req.per)}

ReportIsTrue(req) ==
  /\ req.score = NoRate \/ req.score \in 0..(20 * Unit)
  /\ \A w \in DOMAIN req.agg.by_workflow :
       req.agg.by_workflow[w].failed <= Cardinality(FailedRuns(w, DOMAIN db.executions))
  /\ ~ changed => FlagsAreExact(req.anomalies, InReport(req))

\* An anomaly report, put together from two listings and two readings of every
\* execution, has a score between 0 and 1 and counts only failures that are stored;
\* while nothing is written it flags exactly what the tables show
\* (get_evaluation_summary, detect_anomalies, compute_evaluation_score).
EvaluationIsSound == Answered /\ request.kind = "anomalies" => ReportIsTrue(request)

(***************************************************************************)
(* The inductive invariant behind the first two.                           *)
(***************************************************************************)
\* What the runs have written so far is stored, under the tenant that started them.
\* Of executions and plans, whose columns must be unique, there are no other rows.
Agree(tables, runs) ==
  /\ tables = [t \in DOMAIN ForeignKeys |-> tables[t]]
  /\ runs = [x \in Executions |-> [tenant |-> runs[x].tenant, fate |-> runs[x].fate, at |-> runs[x].at]]
  /\ \A x \in Executions :
       LET program == Program(x, runs[x])
       IN  /\ runs[x].at \in Nat /\ runs[x].fate \in Fates
           /\ \A i \in DOMAIN program : i < runs[x].at => program[i].key \in DOMAIN tables[program[i].table]
           /\ Context(x) \in DOMAIN tables.contexts =>
                runs[x].at > 0 /\ tables.contexts[Context(x)].tenant_id = runs[x].tenant
  /\ \A x \in DOMAIN tables.executions :
       /\ x \in Executions /\ Context(x) \in DOMAIN tables.contexts
       /\ {"execution_id", "workflow_type", "status"} \subseteq DOMAIN tables.executions[x]
       /\ tables.executions[x].execution_id = x
       /\ tables.executions[x].execution_context_id = Context(x)
  /\ \A k \in DOMAIN tables.plans :
       \E x \in Executions : k = PlanId(x) /\ tables.plans[k].execution_id = x
  /\ IsFiniteSet(DOMAIN tables.execution_feedback)

\* Each row of these tables is one that a run has written.
Written(tables, runs) ==
  \A t \in {"executions", "steps", "tool_calls", "evaluations", "proposals"} : \A k \in DOMAIN tables[t] :
    \E x \in Executions : \E i \in DOMAIN Program(x, runs[x]) :
      LET w == Program(x, runs[x])[i]
      IN  i < runs[x].at /\ w.table = t /\ w.key = k /\ w.row = tables[t][k]

Learned(tables) ==
  /\ tables.operator_feedback \in Seq(ToSet(tables.operator_feedback))
  /\ \A k \in DOMAIN tables.execution_feedback :
       LET row == tables.execution_feedback[k]
       IN  row.execution_id \in DOMAIN tables.executions /\ IsTrue(row, tables)

\* Feedback rows are numbered in the order of their times.
Numbered(tables) ==
  LET rows == tables.execution_feedback
  IN  /\ DOMAIN rows = 1..Cardinality(DOMAIN rows)
      /\ \A k \in DOMAIN rows : rows[k].created_at = k

\* What is stored at first is what the runs have written until then, and the feedback
\* among it is true and in order.
ASSUME WorkloadsAssumption ==
  \A w \in Workloads :
    /\ Agree(FoldLeft(Stored, Empty, w.written), w.run)
    /\ Written(FoldLeft(Stored, Empty, w.written), w.run)
    /\ Learned(FoldLeft(Stored, Empty, w.written))
    /\ Numbered(FoldLeft(Stored, Empty, w.written))
    /\ {"limits", "writes"} \subseteq DOMAIN w.left
    /\ w.left.limits \subseteq Nat /\ w.left.writes \in Nat

\* The pipeline analyses an execution that is stored.
PipeInv ==
  /\ pipe.pc # "idle" => {"pc", "x"} \subseteq DOMAIN pipe /\ pipe.x \in DOMAIN db.executions
  /\ {"limits", "writes"} \subseteq DOMAIN left
  /\ left.limits \subseteq Nat /\ left.writes \in Nat

\* The executions of the caller's tenant.
Own(tables, runs, id) == {x \in DOMAIN tables.executions : runs[x].tenant = id.tenant}

RowsOwn(rows, own) ==
  rows \in Seq(ToSet(rows)) /\ \A i \in DOMAIN rows : rows[i].execution_id \in own

\* A request that is answered with own executions only, and what it needs on the way.
Rightful(req, own) ==
  /\ req = [f \in DOMAIN req |-> req[f]] /\ {"pc", "kind", "id", "code"} \subseteq DOMAIN req
  /\ req.pc \in {"list", "feedback", "metrics", "load", "tools", "done"} /\ req.id.tenant # "any"
  /\ req.pc \in {"list", "load", "tools"} => req.kind # "metrics"
  /\ req.kind # "metrics" => "limit" \in DOMAIN req /\ req.limit \in Nat
  /\ req.kind # "metrics" /\ req.pc # "list" => "listing" \in DOMAIN req /\ RowsOwn(req.listing, own)
  /\ req.kind = "mukti" =>
       /\ req.pc \in {"list", "feedback", "done"}
       /\ req.pc = "done" => \A i \in req.answer.insights \cup req.answer.ranked : i.executions \subseteq own
  /\ req.kind # "mukti" =>
       /\ req.pc # "feedback"
       /\ req.pc # "list" => /\ {"todo", "per", "read"} \subseteq DOMAIN req
                             /\ req.todo \in Seq(own) /\ RowsOwn(req.per, own)
                             /\ req.pc = "tools" => req.todo # <<>>

RequestInv ==
  \/ request.pc = "idle"
  \/ request.pc = "done" /\ request.code # 200
  \/ Rightful(request, Own(db, run, request.id))

InsightsInv == refused = {} /\ Agree(db, run) /\ PipeInv /\ RequestInv

(***************************************************************************)
(* The inductive invariant behind FeedbackIsTrue: what the pipeline holds  *)
(* of an execution is old and yet true of what is stored now.              *)
(***************************************************************************)
PipeTrue(tables, p) ==
  /\ p = [f \in DOMAIN p |-> p[f]] /\ "pc" \in DOMAIN p
  /\ p.pc \in {"idle", "execution", "steps", "decisions", "proposals", "save"}
  /\ p.pc # "idle" => "labels" \in DOMAIN p /\ p.labels \in Seq(ToSet(p.labels))
  /\ p.pc \in {"steps", "decisions", "proposals", "save"} =>
       LET ex == tables.executions[p.x]
       IN  /\ "execution" \in DOMAIN p
           /\ p.execution.trace_timeline \in Seq(ToSet(ex.trace_timeline))
           /\ p.execution.status \in {"completed", "failed", "cancelled"} =>
                ex.status = p.execution.status
  /\ p.pc \in {"proposals", "save"} =>
       /\ "decisions" \in DOMAIN p
       /\ \A i \in DOMAIN p.decisions : p.decisions[i] = "deny" => Denied(tables, p.x)
  /\ p.pc = "save" =>
       \A i \in DOMAIN p.proposals : p.proposals[i] = "policy_denied" => Denied(tables, p.x)

LearningInv == Written(db, run) /\ Learned(db) /\ PipeTrue(db, pipe)

(***************************************************************************)
(* The inductive invariant behind InsightsGrounded: what was listed is     *)
(* what is stored, unless something was written since.                     *)
(***************************************************************************)
Current(tables, listing) ==
  \A i \in DOMAIN listing :
    LET ex == tables.executions[listing[i].execution_id]
    IN  listing[i].workflow_type = ex.workflow_type /\ listing[i].status = ex.status

GroundedInv ==
  /\ Numbered(db)
  /\ request.pc = "feedback" /\ ~ changed => Current(db, request.listing)
  /\ InsightsGrounded

(***************************************************************************)
(* The inductive invariant behind EvaluationIsSound.                       *)
(***************************************************************************)
\* What compute_execution_metrics reads of x, as it is stored, and what it has read
\* when it comes to a part.
PartsOf(x) ==
  [execution |-> db.executions[x], steps |-> StepsRead(x), results |-> ResultsRead(StepsRead(x)),
   tools |-> ToolsRead(StepsRead(x)), decisions |-> VerdictsRead(x)]

ReadBefore ==
  [execution |-> {}, steps |-> {"execution"}, results |-> {"execution", "steps"},
   tools |-> {"execution", "steps", "results"}, decisions |-> {"execution", "steps", "results", "tools"}]

\* The executions that were listed are different ones, and each is read in its turn.
InTurn(req) ==
  LET names == Names(req.listing)
  IN  /\ \A i, j \in DOMAIN names : names[i] = names[j] => i = j
      /\ req.pc = "metrics" => Names(req.per) \o req.todo = names
      /\ req.pc \in {"load", "tools", "done"} => Names(req.per) = names
      /\ req.pc \in {"load", "tools"} =>
           "loaded" \in DOMAIN req /\ DOMAIN req.loaded \cup ToSet(req.todo) = ToSet(names)

\* What was read is of the execution's workflow, a failure is final, and while nothing
\* is written all of it is what is stored.
ReadIsTrue(x, read) ==
  LET seen == ReadBefore[read.part]
  IN  /\ read.part \in DOMAIN ReadBefore /\ seen \subseteq DOMAIN read
      /\ "execution" \in seen =>
           /\ read.execution.trace_timeline \in Seq(ToSet(read.execution.trace_timeline))
           /\ read.execution.workflow_type = Workflows[x]
           /\ read.execution.status = "failed" => db.executions[x].status = "failed"
      /\ "tools" \in seen => IsFiniteSet(read.tools)
      /\ ~ changed => \A part \in seen : read[part] = PartsOf(x)[part]

IsRate(r) == r = NoRate \/ r \in 0..Unit

MetricsAreTrue(m) ==
  LET x == m.execution_id
  IN  /\ IsRate(m.fallback_rate) /\ IsRate(m.tool_rate) /\ m.workflow_type = Workflows[x]
      /\ m.status = "failed" => db.executions[x].status = "failed"
      /\ ~ changed => m = ExecutionMetrics(x, PartsOf(x))

\* The rollups count the rows of these executions.
Tells(agg, scope) ==
  /\ \A x \in scope :
       LET w == Workflows[x]
       IN  /\ w \in DOMAIN agg.by_workflow
           /\ agg.by_workflow[w].execution_count = Cardinality(RunsOf(w, scope))
           /\ agg.by_workflow[w].failed = Cardinality(FailedRuns(w, scope))
  /\ Total(agg.by_decision) = Cardinality(DecisionsOf(scope))
  /\ "deny" \in DOMAIN agg.by_decision <=> DenialsOf(scope) # {}
  /\ DenialsOf(scope) # {} => agg.by_decision["deny"] = Cardinality(DenialsOf(scope))
  /\ \A t \in {db.tool_calls[k].tool_name : k \in DOMAIN db.tool_calls} :
       /\ t \in DOMAIN agg.by_tool <=> CallsOf(t, scope) # {}
       /\ CallsOf(t, scope) # {} =>
            /\ agg.by_tool[t].invocations = Cardinality(CallsOf(t, scope))
            /\ agg.by_tool[t].failures = Cardinality(FailuresOf(t, scope))

\* What was loaded of an execution, or is about to be.
LoadedIsTrue(req) ==
  /\ req.pc \in {"load", "tools"} /\ ~ changed =>
       \A x \in DOMAIN req.loaded :
         req.loaded[x].steps = StepsRead(x) /\ req.loaded[x].tools = ToolsRead(StepsRead(x))
  /\ req.pc = "tools" => "steps" \in DOMAIN req.read
  /\ req.pc = "tools" /\ ~ changed => req.read.steps = StepsRead(Head(req.todo))

FailuresAreStored(agg) ==
  \A w \in DOMAIN agg.by_workflow :
    agg.by_workflow[w].failed \in 0..Cardinality(FailedRuns(w, DOMAIN db.executions))

RollupIsTrue(agg, scope) ==
  /\ FailuresAreStored(agg)
  /\ ~ changed => \E rows \in scope : Tells(agg, ToSet(Names(rows)))

SummaryIsTrue(req, scope) ==
  /\ "workflow" \in DOMAIN req
  /\ req.pc # "list" => /\ InTurn(req) /\ \A i \in DOMAIN req.per : MetricsAreTrue(req.per[i])
                        /\ ~ changed => req.listing \in scope
  /\ req.pc = "metrics" /\ req.todo # <<>> => ReadIsTrue(Head(req.todo), req.read)
  /\ LoadedIsTrue(req)
  /\ "agg" \in DOMAIN req => RollupIsTrue(req.agg, scope)
  /\ req.pc = "done" => "agg" \in DOMAIN req

EvaluationInv ==
  /\ request.pc # "idle" /\ request.code = 200 /\ request.kind \in {"aggregated", "anomalies"} =>
       SummaryIsTrue(request, ListScope)
  /\ EvaluationIsSound
=============================================================================
