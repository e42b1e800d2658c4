--------------------------- MODULE ExecutionEngine ---------------------------
(***************************************************************************)
(* One execution of the orchestrator: the thread that drives it (enqueue,  *)
(* worker, ExecutionEngine.run_execution), API threads that cancel it and  *)
(* API threads that submit approvals, all on one repository.               *)
(*                                                                         *)
(* The grain is one repository call per action.  get_execution hands out a *)
(* copy of the whole record and update_execution overwrites the whole      *)
(* record, without a version check, in both repositories; so every process *)
(* p holds copy[p], and what it writes is what it read, changed, however   *)
(* old it has become.                                                      *)
(*                                                                         *)
(* The timeline is the set of its rows (type and subject): no row recurs   *)
(* in the history of one record.                                           *)
(***************************************************************************)
EXTENDS Integers, Sequences, StateMachine, Planner, PolicyEvaluator

CONSTANTS
  Driver,        \* the thread that enqueues and then runs the execution
  Cancellers,    \* threads serving POST /executions/{id}/cancel
  Approvers,     \* threads serving POST /executions/{id}/approvals
  Workflows,     \* workflow types an execution may be created with
  Contexts,      \* execution contexts it may be created with
  HasModelRuntime, HasTooling  \* the capabilities the engine was built with

ASSUME ProcessAssumption ==
  /\ Driver \notin Cancellers \cup Approvers
  /\ Cancellers \cap Approvers = {}

ASSUME InputAssumption ==
  /\ Workflows \subseteq Workflow
  /\ Contexts \subseteq Context
  /\ HasModelRuntime \in BOOLEAN
  /\ HasTooling \in BOOLEAN

VARIABLES
  exec,       \* the stored execution record
  steps,      \* step rows: status of each step, "absent" before save_step
  results,    \* step results: "none", "recorded", or the validation outcome
  toolCalls,  \* tools with a saved ToolCall row
  proposal,   \* status of the stored action proposal, or "none"
  decision,   \* decision of the stored policy evaluation, or "none"
  approvals,  \* stored approvals: pairs <<approver, decision>>
  workflow, context,  \* fixed when the execution is created
  pc,         \* where each process stands
  copy,       \* the record each process last read or built
  cur, item, verdict  \* the driver's step, its work item and validation outcome

store   == <<exec, steps, results, toolCalls, proposal, decision, approvals>>
request == <<workflow, context>>
locals  == <<cur, item, verdict>>
vars    == <<store, request, pc, copy, locals>>

Process == {Driver} \cup Cancellers \cup Approvers

(***************************************************************************)
(* Records.                                                                *)
(***************************************************************************)
Tool == {"incident_metadata_tool", "signal_lookup_tool",
         "cloud_cost_tool", "metrics_lookup_tool"}

Event ==
       {"execution_status"} \X ExecutionStatus
  \cup {"step_started", "step_completed", "validation_performed",
        "model_reasoning", "knowledge_retrieved"} \X StepName
  \cup {"tool_call_completed"} \X Tool
  \cup {"action_proposed", "policy_evaluated", "approval_required"} \X {"proposal"}
  \cup {"governed_outcome"} \X {"policy_denied", "policy_allow",
                                "approval_rejected", "approval_granted"}
  \cup {"approval_received"} \X Approvers

\* cancel: the cancellation_requested flag of the runtime metadata.
\* plan: current_plan_id is set.  result: its "outcome"; the governance block
\* is there exactly in the "awaiting_approval" result.
\* validation: validation_summary.validation_outcome.status.
Execution ==
  [status     : ExecutionStatus,
   cancel     : BOOLEAN,
   plan       : BOOLEAN,
   result     : {"none", "success", "failed", "awaiting_approval", "cancelled"},
   validation : {"none", "passed", "failed"},
   timeline   : SUBSET Event]

ProposalStatus ==
  {"proposed", "policy_denied", "awaiting_approval", "approved", "rejected"}

NewExecution ==
  [status |-> "created", cancel |-> FALSE, plan |-> FALSE, result |-> "none",
   validation |-> "none", timeline |-> {}]

\* _append_timeline
AppendTimeline(r, rows) == [r EXCEPT !.timeline = @ \cup rows]

MoveTo(r, status) ==
  [r EXCEPT !.status = status,
            !.timeline = @ \cup {<<"execution_status", status>>}]

CancelMeta(r) == [r EXCEPT !.cancel = TRUE]

\* Mutants of Cancelled: the old result stays; a terminal record is cancelled too.
CancelledKeepsResult(r) ==
  IF ValidExecutionTransition(r.status, "cancelled")
    THEN MoveTo(CancelMeta(r), "cancelled") ELSE CancelMeta(r)

CancelledAlways(r) ==
  [MoveTo(CancelMeta(r), "cancelled") EXCEPT !.result = "cancelled"]

\* cancel_execution: a terminal record only gets the flag.
Cancelled(r) ==
  IF ValidExecutionTransition(r.status, "cancelled")
    THEN [MoveTo(CancelMeta(r), "cancelled") EXCEPT !.result = "cancelled"]
    ELSE CancelMeta(r)

\* _build_completion_result: the outcome it reports does not depend on what the
\* validation step found.
CompletionResult == "success"

\* A record as run_execution, the governance step and submit_approval close it.
Close(r, status, result, v, rows) ==
  [MoveTo(AppendTimeline(r, rows), status)
     EXCEPT !.result = result, !.validation = v]

(***************************************************************************)
(* What the driver computes from the rows it lists.                        *)
(***************************************************************************)
Listed == {s \in StepName : steps[s] # "absent"}

\* Mutant of IsReady: an edge is followed both ways.
IsReadyEitherWay(s) ==
  \A d \in StepName :
    <<d, s>> \in Dependencies \/ <<s, d>> \in Dependencies => steps[d] = "succeeded"

\* _is_ready
IsReady(s) == \A d \in StepName : <<d, s>> \in Dependencies => steps[d] = "succeeded"

\* _next_pending_ready over _steps_in_plan_order: the places in the plan of the
\* pending steps that are ready; the first one runs.
ReadyPlaces ==
  {i \in DOMAIN Plan[workflow] :
     steps[Plan[workflow][i]] = "pending" /\ IsReady(Plan[workflow][i])}

AllSucceeded == \A s \in Listed : steps[s] = "succeeded"

\* Mutant of EntersValidating: waits for the validation step to have run.
EntersValidatingLate(r) ==
  /\ r.status = "executing"
  /\ \A s \in Listed : steps[s] = "succeeded"
  /\ \E s \in Listed \cap ValidationSteps : steps[s] = "pending"

\* _maybe_enter_validating
EntersValidating(r) ==
  /\ r.status = "executing"
  /\ \E s \in Listed : s \in ValidationSteps
  /\ \E s \in Listed : s \notin ValidationSteps
  /\ \A s \in Listed \ ValidationSteps : steps[s] = "succeeded"
  /\ \E s \in Listed \cap ValidationSteps : steps[s] = "pending"

\* Mutant of MaybeEnterValidating: the validation phase is skipped.
MaybeComplete(r) ==
  IF EntersValidating(r) THEN MoveTo(r, "completed") ELSE r

MaybeEnterValidating(r) ==
  IF EntersValidating(r) THEN MoveTo(r, "validating") ELSE r

\* Mutant of ValidationSummary: looks among the steps still to run.
ValidationSummaryOfPending ==
  LET v == {s \in Listed \cap ValidationSteps : steps[s] = "pending"}
  IN  IF v = {} THEN "none" ELSE results[CHOOSE s \in v : TRUE]

\* _validation_summary_from_steps: every plan has one validation step.
ValidationSummary ==
  LET v == {s \in Listed : s \in ValidationSteps}
  IN  IF v = {} THEN "none" ELSE results[CHOOSE s \in v : TRUE]

\* What the steps that use a service do before their result is saved, in order.
\* Each item ends with a row appended to the timeline.
GatherEvidence       == <<"retrieve", "incident_metadata_tool", "signal_lookup_tool">>
RetrieveCostEvidence == <<"retrieve">>
CorrelateUsage       == <<"cloud_cost_tool", "metrics_lookup_tool">>
IncidentReasoning    == <<"model">>
CostReasoning        == <<"model">>

\* _should_use_tooling_for_step, then _should_use_model_for_step; any other step
\* goes to the StepExecutor.
Work(s) ==
  IF HasTooling /\ s = "gather_evidence" THEN GatherEvidence
  ELSE IF HasTooling /\ s = "retrieve_cost_evidence" THEN RetrieveCostEvidence
  ELSE IF HasTooling /\ s = "correlate_usage_patterns" THEN CorrelateUsage
  ELSE IF HasModelRuntime /\ s \in {"analyze_incident", "validate_incident"}
    THEN IncidentReasoning
  ELSE IF HasModelRuntime /\ s \in {"analyze_cost_anomaly", "validate_cost_attribution"}
    THEN CostReasoning
  ELSE <<>>

\* The validation status a model may report, and the one StepExecutor reports.
ModelVerdicts == {"passed", "failed"}
ExecutorVerdict == "passed"

\* Mutant of StepRows: a tool row names the step instead of the tool.
StepRowsByStep(s, i) ==
  IF i = 0 THEN {<<"step_started", s>>}
  ELSE IF i \in DOMAIN Work(s) THEN {<<"tool_call_completed", s>>}
  ELSE {<<"step_completed", s>>}

\* The rows appended around item i of the current step: 0 is the start of the
\* step, Len(Work) + 1 its end.
StepRows(s, i) ==
  IF i = 0 THEN {<<"step_started", s>>}
  ELSE IF i \in DOMAIN Work(s) THEN
    {IF Work(s)[i] = "model" THEN <<"model_reasoning", s>>
     ELSE IF Work(s)[i] = "retrieve" THEN <<"knowledge_retrieved", s>>
     ELSE <<"tool_call_completed", Work(s)[i]>>}
  ELSE {<<"step_completed", s>>} \cup
       (IF s \in ValidationSteps THEN {<<"validation_performed", s>>} ELSE {})

(***************************************************************************)
(* Shapes of the actions.                                                  *)
(***************************************************************************)
\* p reads (or builds) record r and goes on at `next`; the store is untouched.
Hold(p, r, next) ==
  /\ copy' = [copy EXCEPT ![p] = r]
  /\ pc' = [pc EXCEPT ![p] = next]

\* update_execution: p's copy overwrites the stored record.
WriteBack(p, next) ==
  /\ exec' = copy[p]
  /\ pc' = [pc EXCEPT ![p] = next]
  /\ UNCHANGED <<steps, results, toolCalls, proposal, decision, approvals,
                 request, copy, locals>>

(***************************************************************************)
(* The driver: enqueue_execution, then the worker.                         *)
(***************************************************************************)
\* mark_queued clears the cancellation flag.
EnqueueRead ==
  /\ pc[Driver] = "enqueue_read"
  /\ Hold(Driver, [exec EXCEPT !.cancel = FALSE], "enqueue_write")
  /\ UNCHANGED <<store, request, locals>>

EnqueueWrite ==
  /\ pc[Driver] = "enqueue_write"
  /\ WriteBack(Driver, "worker_read")

\* record_worker_started; the worker's id is not part of the model.
WorkerRead ==
  /\ pc[Driver] = "worker_read"
  /\ Hold(Driver, exec, "worker_write")
  /\ UNCHANGED <<store, request, locals>>

WorkerWrite ==
  /\ pc[Driver] = "worker_write"
  /\ WriteBack(Driver, "run")

(***************************************************************************)
(* run_execution.                                                          *)
(***************************************************************************)
AfterRunRead(status) ==
  IF status \in ExecutionTerminal THEN "done"
  ELSE IF status = "created" THEN "planning_write"
  ELSE IF status = "planning" THEN "plan"
  ELSE "loop"

RunExecution ==
  /\ pc[Driver] = "run"
  /\ Hold(Driver,
          IF exec.status = "created" THEN MoveTo(exec, "planning") ELSE exec,
          AfterRunRead(exec.status))
  /\ UNCHANGED <<store, request, locals>>

EnterPlanning ==
  /\ pc[Driver] = "planning_write"
  /\ WriteBack(Driver, "plan")

\* create_plan, save_plan, save_step for each step; the record is moved on
\* without being read again.
SavePlan ==
  /\ pc[Driver] = "plan"
  /\ steps' = [s \in StepName |->
                 IF s \in PlannedSteps(workflow) THEN "pending" ELSE steps[s]]
  /\ Hold(Driver,
          [MoveTo(copy[Driver], "executing") EXCEPT !.plan = TRUE],
          "executing_write")
  /\ UNCHANGED <<exec, results, toolCalls, proposal, decision, approvals,
                 request, locals>>

EnterExecuting ==
  /\ pc[Driver] = "executing_write"
  /\ WriteBack(Driver, "loop")

\* Top of the loop: the flag is tested before the status.
AfterLoopRead(r) ==
  IF r.cancel THEN "cancel"
  ELSE IF r.status \in ExecutionTerminal \cup {"awaiting_approval"} THEN "done"
  ELSE IF ~ r.plan THEN "fail"
  ELSE "loop_write"

LoopRead ==
  /\ pc[Driver] = "loop"
  /\ Hold(Driver,
          IF AfterLoopRead(exec) = "loop_write"
            THEN MaybeEnterValidating(exec) ELSE exec,
          AfterLoopRead(exec))
  /\ UNCHANGED <<store, request, locals>>

\* The record is written back whether or not it changed.
LoopWrite ==
  /\ pc[Driver] = "loop_write"
  /\ WriteBack(Driver, "dispatch")

\* Second read of the iteration: only a terminal status stops here, the flag
\* is not looked at again.
Dispatch ==
  /\ pc[Driver] = "dispatch"
  /\ exec.status \notin ExecutionTerminal
  /\ \/ /\ ReadyPlaces # {}
        /\ \E i \in ReadyPlaces :
             /\ \A j \in ReadyPlaces : i <= j
             /\ cur' = Plan[workflow][i]
        /\ Hold(Driver, exec, "step_begin")
     \/ /\ ReadyPlaces = {}
        /\ AllSucceeded
        /\ exec.status = "validating"
        /\ IF workflow = "incident_triage"
             THEN Hold(Driver, exec, "propose")
             ELSE Hold(Driver,
                       Close(exec, "completed", CompletionResult, ValidationSummary, {}),
                       "final_write")
        /\ UNCHANGED cur
     \/ /\ ReadyPlaces = {}   \* the three OrchestrationErrors at the end
        /\ ~ (AllSucceeded /\ exec.status = "validating")
        /\ Hold(Driver, exec, "fail")
        /\ UNCHANGED cur
  /\ UNCHANGED <<store, request, item, verdict>>

DispatchStops ==
  /\ pc[Driver] = "dispatch"
  /\ exec.status \in ExecutionTerminal
  /\ Hold(Driver, exec, "done")
  /\ UNCHANGED <<store, request, locals>>

(***************************************************************************)
(* _run_step.                                                              *)
(***************************************************************************)
\* get_step, validate_step_transition, update_step(RUNNING)
StepBegin ==
  /\ pc[Driver] = "step_begin"
  /\ ValidStepTransition(steps[cur], "running")
  /\ steps' = [steps EXCEPT ![cur] = "running"]
  /\ item' = 0
  /\ verdict' = ExecutorVerdict
  /\ pc' = [pc EXCEPT ![Driver] = "append_read"]
  /\ UNCHANGED <<exec, results, toolCalls, proposal, decision, approvals,
                 request, copy, cur>>

\* Mutant of AfterAppend: off by one, the last work item is not done.
AfterAppendEarly(s, i) ==
  IF i + 1 < Len(Work(s)) THEN "work"
  ELSE IF i <= Len(Work(s)) THEN "step_result"
  ELSE "loop"

\* Where _run_step goes once the rows of item i are written.
AfterAppend(s, i) ==
  IF i < Len(Work(s)) THEN "work"
  ELSE IF i = Len(Work(s)) THEN "step_result"
  ELSE "loop"

\* One get_execution / _append_timeline / update_execution round.
AppendRead ==
  /\ pc[Driver] = "append_read"
  /\ Hold(Driver, AppendTimeline(exec, StepRows(cur, item)), "append_write")
  /\ UNCHANGED <<store, request, locals>>

AppendWrite ==
  /\ pc[Driver] = "append_write"
  /\ WriteBack(Driver, AfterAppend(cur, item))

\* The next work item: a tool is invoked and its ToolCall saved, knowledge is
\* retrieved, or the model is called.  A model that fails falls back on the
\* step executor; one that answers may report any validation status.
StepWork ==
  /\ pc[Driver] = "work"
  /\ item' = item + 1
  /\ LET w == Work(cur)[item + 1]
     IN  /\ toolCalls' = toolCalls \cup (IF w \in Tool THEN {w} ELSE {})
         /\ verdict' \in IF w = "model" /\ cur \in ValidationSteps
                           THEN ModelVerdicts ELSE {verdict}
  /\ pc' = [pc EXCEPT ![Driver] = "append_read"]
  /\ UNCHANGED <<exec, steps, results, proposal, decision, approvals,
                 request, copy, cur>>

SaveStepResult ==
  /\ pc[Driver] = "step_result"
  /\ steps[cur] = "running"    \* StepExecutor insists
  /\ results' = [results EXCEPT ![cur] =
                   IF cur \in ValidationSteps THEN verdict ELSE "recorded"]
  /\ pc' = [pc EXCEPT ![Driver] = "step_succeed"]
  /\ UNCHANGED <<exec, steps, toolCalls, proposal, decision, approvals,
                 request, copy, locals>>

StepSucceed ==
  /\ pc[Driver] = "step_succeed"
  /\ steps' = [steps EXCEPT ![cur] = "succeeded"]
  /\ item' = Len(Work(cur)) + 1
  /\ pc' = [pc EXCEPT ![Driver] = "append_read"]
  /\ UNCHANGED <<exec, results, toolCalls, proposal, decision, approvals,
                 request, copy, cur, verdict>>

(***************************************************************************)
(* _finalize_incident_triage_governance, on the record Dispatch read.      *)
(***************************************************************************)
Propose ==
  /\ pc[Driver] = "propose"
  /\ proposal' = "proposed"
  /\ Hold(Driver, AppendTimeline(copy[Driver], {<<"action_proposed", "proposal">>}),
          "evaluate")
  /\ UNCHANGED <<exec, steps, results, toolCalls, decision, approvals,
                 request, locals>>

EvaluatePolicy ==
  /\ pc[Driver] = "evaluate"
  /\ decision' = Evaluate(context, "escalate_incident")
  /\ Hold(Driver, AppendTimeline(copy[Driver], {<<"policy_evaluated", "proposal">>}),
          "settle")
  /\ UNCHANGED <<exec, steps, results, toolCalls, proposal, approvals,
                 request, locals>>

SettleDenied ==
  /\ decision = "deny"
  /\ proposal' = "policy_denied"
  /\ Hold(Driver, Close(copy[Driver], "failed", "failed", ValidationSummary,
                        {<<"governed_outcome", "policy_denied">>}),
          "final_write")

SettleAllowed ==
  /\ decision = "allow"
  /\ proposal' = "approved"
  /\ Hold(Driver, Close(copy[Driver], "completed", CompletionResult, ValidationSummary,
                        {<<"governed_outcome", "policy_allow">>}),
          "final_write")

\* Mutant of SettleConditional: the proposal is approved at once.
SettleConditionalApproved ==
  /\ decision = "conditional"
  /\ proposal' = "approved"
  /\ Hold(Driver, Close(copy[Driver], "awaiting_approval", "awaiting_approval",
                        ValidationSummary, {<<"approval_required", "proposal">>}),
          "final_write")

SettleConditional ==
  /\ decision = "conditional"
  /\ proposal' = "awaiting_approval"
  /\ Hold(Driver, Close(copy[Driver], "awaiting_approval", "awaiting_approval",
                        ValidationSummary, {<<"approval_required", "proposal">>}),
          "final_write")

SettleProposal ==
  /\ pc[Driver] = "settle"
  /\ SettleDenied \/ SettleAllowed \/ SettleConditional
  /\ UNCHANGED <<exec, steps, results, toolCalls, decision, approvals,
                 request, locals>>

FinalWrite ==
  /\ pc[Driver] = "final_write"
  /\ WriteBack(Driver, "done")

(***************************************************************************)
(* The driver's way out: cancel_execution when it sees the flag,           *)
(* fail_execution when run_execution raised OrchestrationError.            *)
(***************************************************************************)
DriverCancels ==
  /\ pc[Driver] = "cancel"
  /\ Hold(Driver, Cancelled(exec), "final_write")
  /\ UNCHANGED <<store, request, locals>>

DriverFails ==
  /\ pc[Driver] = "fail"
  /\ IF ValidExecutionTransition(exec.status, "failed")
       THEN Hold(Driver, [MoveTo(exec, "failed") EXCEPT !.result = "failed"],
                 "final_write")
       ELSE Hold(Driver, exec, "done")
  /\ UNCHANGED <<store, request, locals>>

(***************************************************************************)
(* ExecutionService.request_cancellation: one read-modify-write for the    *)
(* flag, then cancel_execution does a second one.                          *)
(***************************************************************************)
RequestCancellationRead(c) ==
  /\ pc[c] = "idle"
  /\ Hold(c, CancelMeta(exec), "request_write")
  /\ UNCHANGED <<store, request, locals>>

\* Mutant of AfterRequest: setting the flag is all a request does.
AfterRequestFlagOnly(status) == "done"

AfterRequest(status) ==
  IF status \in ExecutionTerminal THEN "done" ELSE "cancel_read"

RequestCancellationWrite(c) ==
  /\ pc[c] = "request_write"
  /\ WriteBack(c, AfterRequest(copy[c].status))

CancelExecutionRead(c) ==
  /\ pc[c] = "cancel_read"
  /\ Hold(c, Cancelled(exec), "cancel_write")
  /\ UNCHANGED <<store, request, locals>>

CancelExecutionWrite(c) ==
  /\ pc[c] = "cancel_write"
  /\ WriteBack(c, "done")

(***************************************************************************)
(* ExecutionEngine.submit_approval.                                        *)
(***************************************************************************)
\* The pc of an approver past the checks carries its decision.
SubmitApproval(a) ==
  /\ pc[a] = "idle"
  /\ exec.status = "awaiting_approval"
  /\ exec.result = "awaiting_approval"
  /\ \E d \in {"approve", "reject"} : Hold(a, exec, d)
  /\ UNCHANGED <<store, request, locals>>

\* Not awaiting approval, or a "defer": OrchestrationError, answered with 409.
SubmitApprovalRefused(a) ==
  /\ pc[a] = "idle"
  /\ pc' = [pc EXCEPT ![a] = "refused"]
  /\ UNCHANGED <<store, request, copy, locals>>

SaveApproval(a) ==
  /\ pc[a] \in {"approve", "reject"}
  /\ approvals' = approvals \cup {<<a, pc[a]>>}
  /\ Hold(a, AppendTimeline(copy[a], {<<"approval_received", a>>}),
          IF pc[a] = "approve" THEN "granted" ELSE "rejected")
  /\ UNCHANGED <<exec, steps, results, toolCalls, proposal, decision,
                 request, locals>>

\* get_action_proposal, list_steps, save_action_proposal
ResolveRejected(a) ==
  /\ pc[a] = "rejected"
  /\ proposal # "none"
  /\ proposal' = "rejected"
  /\ Hold(a, Close(copy[a], "failed", "failed", ValidationSummary,
                   {<<"governed_outcome", "approval_rejected">>}),
          "approval_write")
  /\ UNCHANGED <<exec, steps, results, toolCalls, decision, approvals,
                 request, locals>>

ResolveGranted(a) ==
  /\ pc[a] = "granted"
  /\ proposal # "none"
  /\ proposal' = "approved"
  /\ Hold(a, Close(copy[a], "completed", CompletionResult, ValidationSummary,
                   {<<"governed_outcome", "approval_granted">>}),
          "approval_write")
  /\ UNCHANGED <<exec, steps, results, toolCalls, decision, approvals,
                 request, locals>>

ApprovalWrite(a) ==
  /\ pc[a] = "approval_write"
  /\ WriteBack(a, "done")

(***************************************************************************)
(* The specification.                                                      *)
(***************************************************************************)
Init ==
  /\ exec = NewExecution
  /\ steps = [s \in StepName |-> "absent"]
  /\ results = [s \in StepName |-> "none"]
  /\ toolCalls = {}
  /\ proposal = "none"
  /\ decision = "none"
  /\ approvals = {}
  /\ workflow \in Workflows
  /\ context \in Contexts
  \* background mode enqueues, interactive mode starts at once
  /\ \E first \in {"enqueue_read", "run"} :
       pc = [p \in Process |-> IF p = Driver THEN first ELSE "idle"]
  /\ copy = [p \in Process |-> NewExecution]
  /\ cur = "analyze_incident"
  /\ item = 0
  /\ verdict = ExecutorVerdict

DriverNext ==
  \/ EnqueueRead \/ EnqueueWrite \/ WorkerRead \/ WorkerWrite
  \/ RunExecution \/ EnterPlanning \/ SavePlan \/ EnterExecuting
  \/ LoopRead \/ LoopWrite \/ Dispatch \/ DispatchStops
  \/ StepBegin \/ AppendRead \/ AppendWrite \/ StepWork
  \/ SaveStepResult \/ StepSucceed
  \/ Propose \/ EvaluatePolicy \/ SettleProposal \/ FinalWrite
  \/ DriverCancels \/ DriverFails

CancellerNext(c) ==
  \/ RequestCancellationRead(c) \/ RequestCancellationWrite(c)
  \/ CancelExecutionRead(c) \/ CancelExecutionWrite(c)

\* What an approver does once it is past the checks.
ApproverContinues(a) ==
  \/ SaveApproval(a) \/ ResolveRejected(a) \/ ResolveGranted(a) \/ ApprovalWrite(a)

ApproverNext(a) ==
  SubmitApproval(a) \/ SubmitApprovalRefused(a) \/ ApproverContinues(a)

\* Every request thread and the driver have returned.
Finished ==
  /\ pc[Driver] = "done"
  /\ \A p \in Cancellers \cup Approvers : pc[p] \in {"idle", "done", "refused"}
  /\ UNCHANGED vars

Next ==
  \/ DriverNext
  \/ \E c \in Cancellers : CancellerNext(c)
  \/ \E a \in Approvers : ApproverNext(a)
  \/ Finished

\* A thread that has begun a call keeps running; nobody has to call.
Fairness ==
  /\ WF_vars(DriverNext)
  /\ \A c \in Cancellers : WF_vars(pc[c] # "idle" /\ CancellerNext(c))
  /\ \A a \in Approvers : WF_vars(ApproverContinues(a))

Spec == Init /\ [][Next]_vars
FairSpec == Spec /\ Fairness

(***************************************************************************)
(* Properties.                                                             *)
(***************************************************************************)
DriverPc ==
  {"enqueue_read", "enqueue_write", "worker_read", "worker_write", "run",
   "planning_write", "plan", "executing_write", "loop", "loop_write",
   "dispatch", "step_begin", "append_read", "append_write", "work",
   "step_result", "step_succeed", "propose", "evaluate", "settle",
   "final_write", "cancel", "fail", "done"}

CancellerPc == {"idle", "request_write", "cancel_read", "cancel_write", "done"}

ApproverPc ==
  {"idle", "refused", "approve", "reject", "granted", "rejected",
   "approval_write", "done"}

PcOK ==
  /\ pc \in [Process -> DriverPc \cup CancellerPc \cup ApproverPc]
  /\ pc[Driver] \in DriverPc
  /\ \A c \in Cancellers : pc[c] \in CancellerPc
  /\ \A a \in Approvers : pc[a] \in ApproverPc

\* Type correctness: the stored record, every thread's copy of it, the step and
\* governance rows and the driver's registers stay within their types.
TypeOK ==
  /\ exec \in Execution
  /\ steps \in [StepName -> StepStatus \cup {"absent"}]
  /\ results \in [StepName -> {"none", "recorded", "passed", "failed"}]
  /\ \A s \in ValidationSteps : results[s] # "recorded"
  /\ toolCalls \subseteq Tool
  /\ proposal \in ProposalStatus \cup {"none"}
  /\ decision \in Decision \cup {"none"}
  /\ approvals \subseteq Approvers \X {"approve", "reject"}
  /\ workflow \in Workflows
  /\ context \in Contexts
  /\ PcOK
  /\ copy \in [Process -> Execution]
  /\ cur \in StepName
  /\ item \in Nat
  /\ verdict \in {"passed", "failed"}

\* The steps of the plan have all run and the record carries the outcome the
\* validation step reported.
FullyValidated(r) ==
  /\ \A s \in PlannedSteps(workflow) : steps[s] = "succeeded" /\ results[s] # "none"
  /\ \E s \in PlannedSteps(workflow) \cap ValidationSteps :
       r.validation = results[s]

\* No execution is completed, or put before an approver, without its whole plan
\* having run and its validation outcome being on the record, although the
\* writers that complete it (the driver, an approver) work on copies that other
\* threads may have made stale.
CompletedIsValidated ==
  exec.status \in {"completed", "awaiting_approval"} => FullyValidated(exec)

\* An incident triage is completed only where policy lets it be: never under
\* phase3_deny, and in prod or under phase3_conditional only once an approval of
\* it is stored, whatever order cancels, approvals and the driver interleave in.
CompletionAuthorized ==
  exec.status = "completed" /\ workflow = "incident_triage" =>
    /\ context.policy_scope # "phase3_deny"
    /\ context.environment = "prod" \/ context.policy_scope = "phase3_conditional"
         => \E a \in Approvers : <<a, "approve">> \in approvals

\* A step result is saved only when every tool call the step makes is stored and
\* every step it depends on has its result: validation and the model prompts
\* read those rows, and a trace must show what they were based on.
EvidenceComplete ==
  \A s \in StepName : results[s] # "none" =>
    /\ \A i \in DOMAIN Work(s) : Work(s)[i] \in Tool => Work(s)[i] \in toolCalls
    /\ \A d \in StepName : <<d, s>> \in Dependencies => results[d] # "none"

\* A record agrees with itself.
Coherent(r) ==
  /\ r.status = "awaiting_approval" <=> r.result = "awaiting_approval"
  /\ r.status = "cancelled" <=> r.result = "cancelled"
  /\ r.status = "completed" => r.result = "success"
  /\ r.status # "created" => <<"execution_status", r.status>> \in r.timeline

\* The stored record agrees with itself after any interleaving of whole-record
\* overwrites: its result and its last status row are the ones of its status (a
\* cancelled execution offers no approval, a completed one shows its outcome).
\* The cancellation flag is left out: enqueue_execution clears it on a record
\* that was cancelled before it was queued.
RecordCoherent == Coherent(exec)

ActionRefused == decision = "deny" \/ \E a \in Approvers : <<a, "reject">> \in approvals

\* Somebody has called request_cancellation.
CancellationAsked == \E c \in Cancellers : pc[c] # "idle"

PlanSucceeded == \A s \in PlannedSteps(workflow) : steps[s] = "succeeded"

\* A completed or failed record has run its whole plan, one that failed was refused
\* or was being cancelled, and a cancelled one was asked to be.
Accounted(r) ==
  /\ r.status \in {"completed", "failed"} => PlanSucceeded
  /\ r.status = "failed" => ActionRefused \/ CancellationAsked
  /\ r.status = "cancelled" => CancellationAsked

\* Whatever the threads overwrite, the end an execution comes to was asked for, and
\* only cancelling leaves steps open.  A stale write of a cancel request may make
\* the loop fail the run it wanted cancelled (orchestrator.py:222), and nothing else
\* makes it fail but a refusal.  The steps of a cancelled execution may be pending or
\* running for good, for cancel_execution does not touch them, although
\* docs/architecture/runtime-model.md:273 has every step in a terminal status before
\* an execution is completed, failed or cancelled; the cancelled case is left out.
EndsAreAccountedFor == Accounted(exec)

\* p holds a record it is going to write.
PendingWrite(p) ==
  pc[p] \in {"enqueue_write", "worker_write", "planning_write", "plan",
             "executing_write", "loop_write", "append_write", "propose",
             "evaluate", "settle", "final_write", "request_write",
             "cancel_write", "approve", "reject", "granted", "rejected",
             "approval_write"}

\* A terminal status is final from the moment no thread still holds a copy it
\* read before: every later read of the record stops its reader.
SettledForGood ==
  \A s \in ExecutionTerminal :
    [](exec.status = s /\ (\A p \in Process : ~ PendingWrite(p))
        => [](exec.status = s))

\* The decisions some approver has stored.
Verdicts == {v \in {"approve", "reject"} : \E a \in Approvers : <<a, v>> \in approvals}

\* The threads together do no more to the governed action than Governance says.
Gov == INSTANCE Governance
  WITH verdicts <- Verdicts,
       released <- (workflow = "incident_triage" /\ exec.status = "completed")

\* The engine implements Governance: proposal, policy evaluation, verdicts and
\* completion happen in the promised order under every interleaving.
GovernanceImplemented == Gov!GSpec

\* Once every call that began has returned, the execution is closed or waits for
\* an approval: no race leaves it in a state that nothing will move on.
Settles ==
  <>[](exec.status \in ExecutionTerminal \cup {"awaiting_approval"})

(***************************************************************************)
(* Properties of a single writer: no cancellation, one approver.           *)
(* The last two state what the documents say of any number of writers.     *)
(***************************************************************************)
Life == INSTANCE Lifecycle WITH status <- exec.status, trace <- exec.timeline

\* The status moves along the allowed transitions only, and the trace only grows.
LifecycleImplemented == Life!LSpec

\* An execution fails only because policy denied its action or an approver
\* rejected it: none of the engine's internal errors is reachable.
FailsOnlyWhenRefused == exec.status = "failed" => ActionRefused

\* docs/architecture/api-design.md: "Terminal states (completed, failed,
\* cancelled) do not transition further."
TerminalStatesFinal ==
  [][exec.status \in ExecutionTerminal => exec'.status = exec.status]_vars

\* docs/architecture/api-design.md: once the proposal is approved or rejected, a
\* conflicting approval request is refused.
NoConflictingVerdicts ==
  [][\A a \in Approvers :
       /\ <<a, "reject">> \in approvals' \ approvals => proposal # "approved"
       /\ <<a, "approve">> \in approvals' \ approvals => proposal # "rejected"]_vars

(***************************************************************************)
(* The inductive invariant.  A record is sound, wherever it is: in the     *)
(* store, or in the hands of a thread that may write it at any time.       *)
(***************************************************************************)
Planned == \A s \in PlannedSteps(workflow) : steps[s] # "absent"

Approved == \E a \in Approvers : <<a, "approve">> \in approvals

Sound(r) ==
  /\ Coherent(r)
  /\ r.status \in {"executing", "validating", "awaiting_approval", "completed"} => Planned
  /\ r.status \in {"completed", "awaiting_approval"} => FullyValidated(r)
  /\ r.status = "awaiting_approval" =>
       /\ workflow = "incident_triage"
       /\ decision = "conditional"
       /\ proposal \in {"awaiting_approval", "approved", "rejected"}
  /\ r.status = "completed" /\ workflow = "incident_triage" =>
       decision = "allow" \/ (decision = "conditional" /\ Approved)

\* Before the plan is saved there are no step rows.
BeforePlan ==
  {"enqueue_read", "enqueue_write", "worker_read", "worker_write", "run",
   "planning_write", "plan"}

\* The loop: the plan is saved, and governance has not begun.
InLoop ==
  {"executing_write", "loop", "loop_write", "dispatch", "step_begin",
   "append_read", "append_write", "work", "step_result", "step_succeed"}

InGovernance == {"propose", "evaluate", "settle"}

DriverInv ==
  /\ pc[Driver] \in BeforePlan => \A s \in StepName : steps[s] = "absent"
  /\ pc[Driver] \in {"planning_write", "plan"} => copy[Driver].status = "planning"
  /\ pc[Driver] \in InLoop \cup InGovernance => Planned
  /\ \A s \in StepName : steps[s] # "absent" => s \in PlannedSteps(workflow)
  /\ \A s \in StepName : steps[s] = "succeeded" => results[s] # "none"
  /\ pc[Driver] = "step_succeed" => steps[cur] = "running" /\ results[cur] # "none"
  /\ pc[Driver] \in InGovernance =>
       /\ workflow = "incident_triage"
       /\ copy[Driver].status = "validating"
       /\ \A s \in PlannedSteps(workflow) : steps[s] = "succeeded"
  /\ pc[Driver] \in BeforePlan \cup InLoop \cup {"propose"} => proposal = "none"
  /\ pc[Driver] \in {"evaluate", "settle"} => proposal = "proposed"
  /\ pc[Driver] \in BeforePlan \cup InLoop \cup {"propose", "evaluate"} => decision = "none"
  /\ pc[Driver] = "settle" => decision # "none"
  /\ decision # "none" => decision = Evaluate(context, "escalate_incident")

ApproverInv ==
  \A a \in Approvers :
    /\ pc[a] \in {"approve", "reject", "granted", "rejected"} =>
         copy[a].status = "awaiting_approval"
    /\ pc[a] = "granted" => <<a, "approve">> \in approvals
    /\ pc[a] = "rejected" => <<a, "reject">> \in approvals

AllSound == Sound(exec) /\ \A p \in Process : Sound(copy[p])

IInv ==
  /\ TypeOK
  /\ AllSound
  /\ DriverInv
  /\ ApproverInv

\* EvidenceComplete made inductive: the step in progress is ready, and the tools
\* of the work items done so far are recorded.
EvidenceInv ==
  /\ EvidenceComplete
  /\ pc[Driver] \in {"step_begin", "append_read", "append_write", "work", "step_result",
                     "step_succeed"}
       => \A d \in StepName : <<d, cur>> \in Dependencies => steps[d] = "succeeded"
  /\ pc[Driver] \in {"append_read", "append_write", "work"} =>
       \A i \in DOMAIN Work(cur) :
         i <= item /\ Work(cur)[i] \in Tool => Work(cur)[i] \in toolCalls
  /\ pc[Driver] = "step_result" =>
       \A i \in DOMAIN Work(cur) : Work(cur)[i] \in Tool => Work(cur)[i] \in toolCalls

\* The step in progress has begun; it may not have ended.
InStep == {"append_read", "append_write", "work", "step_result", "step_succeed"}

\* Steps run one at a time and in order, whatever else happens to the record.
StepOrder ==
  /\ \A s \in StepName : steps[s] \in {"absent", "pending", "running", "succeeded"}
  /\ \A s \in StepName : steps[s] = "running" => s = cur /\ pc[Driver] \in InStep
  /\ pc[Driver] \in {"append_read", "append_write"} /\ steps[cur] = "running" =>
       item <= Len(Work(cur))
  /\ pc[Driver] = "work" => item < Len(Work(cur))
  /\ \A d, s \in StepName :
       <<d, s>> \in Dependencies /\ steps[s] \in {"running", "succeeded"} => steps[d] = "succeeded"

(***************************************************************************)
(* While nobody asks for cancellation, where the driver stands says what   *)
(* is stored, and the driver holds a continuation of it.                   *)
(***************************************************************************)
\* r is the stored record, or an allowed next one.
Continues(r) ==
  /\ r.status = exec.status \/ ValidExecutionTransition(exec.status, r.status)
  /\ exec.timeline \subseteq r.timeline

\* The status stored while the driver is at a place.
StoredAt(place) ==
  CASE place \in BeforePlan \ {"plan"}         -> {"created"}
    [] place \in {"plan", "executing_write"}   -> {"planning"}
    [] place \in InLoop \ {"executing_write"}  -> {"executing", "validating"}
    [] place \in InGovernance \cup {"final_write"} -> {"validating"}
    [] OTHER                                   -> {"completed", "awaiting_approval", "failed"}

ToValidate == \E s \in PlannedSteps(workflow) \ ValidationSteps : steps[s] # "succeeded"

\* The validation step waits for the validation phase.
PhaseInv ==
  /\ pc[Driver] = "executing_write"
       \/ (pc[Driver] \in InLoop /\ exec.status = "executing")
       => \A s \in PlannedSteps(workflow) \cap ValidationSteps : steps[s] = "pending"
  /\ pc[Driver] = "loop_write" /\ copy[Driver].status = "executing" => ToValidate
  /\ pc[Driver] = "dispatch" /\ exec.status = "executing" => ToValidate
  /\ pc[Driver] \in {"step_begin"} \cup InStep /\ exec.status = "executing" =>
       cur \notin ValidationSteps
  /\ pc[Driver] \in {"final_write", "done"} =>
       \A s \in PlannedSteps(workflow) : steps[s] = "succeeded"

\* What the driver is about to write.
DriverHolds ==
  /\ pc[Driver] \in {"enqueue_write", "worker_write"} => copy[Driver].status = "created"
  /\ pc[Driver] = "executing_write" => copy[Driver].status = "executing" /\ copy[Driver].plan
  /\ pc[Driver] \in {"loop_write", "append_write"} =>
       copy[Driver].status \in {"executing", "validating"} /\ copy[Driver].plan
  /\ pc[Driver] = "append_write" \/ (pc[Driver] = "loop_write" /\ copy[Driver].status = "executing")
       => copy[Driver].status = exec.status
  /\ pc[Driver] = "final_write" =>
       /\ copy[Driver].status \in {"completed", "awaiting_approval", "failed"}
       /\ copy[Driver].status = "failed" => decision = "deny"

\* Approvers past the checks come after the driver.
ApproverHolds ==
  \A a \in Approvers : PendingWrite(a) =>
    /\ pc[Driver] = "done"
    /\ pc[a] = "approval_write" =>
         /\ copy[a].status \in {"completed", "failed"}
         /\ copy[a].status = "failed" => <<a, "reject">> \in approvals

\* As long as nobody asks for cancellation.
QuietInv ==
  /\ ~ exec.cancel /\ \A p \in Process : ~ copy[p].cancel
  /\ exec.status \in StoredAt(pc[Driver])
  /\ pc[Driver] \notin {"cancel", "fail"}
  /\ pc[Driver] \in InLoop \ {"executing_write"} => exec.plan
  /\ PhaseInv
  /\ DriverHolds
  /\ ApproverHolds
  /\ PendingWrite(Driver) => Continues(copy[Driver])
  /\ FailsOnlyWhenRefused

\* A single approver works on the record as it is.
LoneInv ==
  \A a \in Approvers : PendingWrite(a) =>
    exec.status = "awaiting_approval" /\ Continues(copy[a])

SingleWriter == Cancellers = {} /\ \A a, b \in Approvers : a = b

(***************************************************************************)
(* The inductive invariant of ends, for any number of threads.             *)
(***************************************************************************)
\* The loop goes on with a plan, unless it is going to see the flag: a record from
\* before the plan was saved is only written back by whoever raises it.
PlanKnown(r) == r.plan \/ r.cancel

EndsInv ==
  /\ ~ CancellationAsked => QuietInv
  /\ Accounted(exec) /\ \A p \in Process : Accounted(copy[p])
  /\ \A c \in Cancellers : PendingWrite(c) => copy[c].cancel
  /\ \A a \in Approvers : pc[a] = "approval_write" => proposal # "none"
  /\ pc[Driver] \in InLoop \ {"executing_write"} => PlanKnown(exec)
  /\ pc[Driver] \in {"executing_write", "loop_write", "append_write"} => PlanKnown(copy[Driver])
  /\ pc[Driver] = "fail" => PlanSucceeded

(***************************************************************************)
(* Settled records.  Once the stored status is a terminal s and whoever is *)
(* about to write holds a record of status s, it stays so.                 *)
(***************************************************************************)
SettledAs(s) ==
  /\ exec.status = s
  /\ \A p \in Process : PendingWrite(p) => copy[p].status = s
===============================================================================
