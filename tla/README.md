# A verification of agentic-ai-platform

TLA+ modules that model the platform's services, TLC runs that check them on small
instances, and TLAPS proofs of the central safety properties for every instance. `PROJECT.json` lists components, runs, mutants, the definition to
source map, findings, hazards and theorems; this file explains them.

## 1. The system

The platform runs *executions*: an execution is a stored record with a status,
a plan of steps, a trace timeline, a validation summary and a result. All Python
services run in one process (the API gateway), with an in-memory or a Postgres
repository. Threads share nothing but the repository, the work queue and the
idempotency dictionary.

| Part | State | Operations | Talks to |
|---|---|---|---|
| orchestrator engine (`runtime/orchestrator.py`) | none of its own: reads and overwrites the record, steps, step results, tool calls, proposal, evaluation, approvals | `run_execution`, `submit_approval`, `cancel_execution`, `fail_execution` | repository, policy, tools, knowledge, model |
| lifecycle tables (`state_machine.py`) | - | allowed execution and step transitions | engine |
| planner (`planner.py`) | - | one fixed plan per workflow type | engine |
| step executor (`step_executor.py`) | - | deterministic result of a step without services | engine |
| execution service, queue, worker | FIFO of execution ids; runtime metadata in the record (`cancellation_requested`) | create, enqueue, record worker start, request cancellation | gateway, engine |
| repository (`adapters/repository.py`, `models.py`, the SQL schema) | all rows | get, save, whole-row update; no versions; listings by time | everybody |
| policy-engine | - | decide a proposal: allow, deny, conditional | engine |
| tool-runtime | one thread pool per attempt | invoke with timeout, retries, cancellation check | engine, handlers |
| model-runtime | - | structured calls with classified retries | engine |
| knowledge-service | corpus of chunks | ingest a document, retrieve | engine |
| api-gateway intake | idempotency keys, worker thread, background tasks | create, cancel, approve | services |
| api-gateway event stream (`streaming/`) | a cursor per stream | poll, diff, send, heartbeat | repository |
| api-gateway identity and tenancy | - | resolve the caller, require a role, merge a context, tenant visibility | every router |
| replay service, replay diff | - | create a child of an execution and run it; compare two executions | repository, engine |
| feedback-service | operator and execution feedback rows | insert, list | gateway, mukti |
| mukti-agent | - | analyse one execution; find patterns over many | repository, feedback |
| evaluation-engine | - | metrics, aggregates, anomalies, score | repository |
| observability, operator-console | counters; a browser's view | - | - |

What is hard in this code:

* **Whole-record overwrites.** `update_execution` replaces the record without a
  version check, and every writer (the driver's loop, each timeline append, the
  cancel request, the approval) works on a copy it read earlier. Any of them may
  undo another.
* **Requests against a running loop.** Cancels and approvals arrive between any
  two repository calls of the driver, and of each other.
* **Timers.** A tool call that timed out is still running.
* **A process that restarts** loses the queue and the idempotency keys while
  Postgres keeps the records.
* **Check-then-act** on idempotency keys and on the approval status.
* **Readers of a moving record.** The stream, the replay service, the diff, the analysis
  and the evaluation read the record and its rows with several calls, and what they put
  together may be of different moments; two of them take everything twice.
* **Retries and fallbacks.** A provider call is repeated when its failure is transient, and
  whatever else goes wrong, the trace write included, ends in a deterministic result.
* **Two backends.** The in-memory repository checks no foreign key, keeps the order of
  insertion and raises when it is listed while somebody inserts; PostgreSQL does none of
  that and stores an execution's mode inside its input.

`PROJECT.json` lists the hazards one by one, at the line where each one bites.

What makes the parts correct: an execution is completed only after its whole plan
and its validation, and a governed one only with authority; the record agrees with
itself; evidence is stored before what rests on it; everything settles; a tool is
not run beside itself, nor more often than its policy says; an execution is started
once, and duplicate requests do not fork it; a stream tells one verdict, with everything
that led to it; a replay is what was asked for and a diff reports exactly what differs; a
result can be traced to the path it came from and a citation to the corpus; no tenant sees
another's executions; what is reported about executions rests on stored rows.

## 2. Modules

| Module | Models | Remarks |
|---|---|---|
| `StateMachine` | `state_machine.py` | transition tables as sets of pairs |
| `Planner` | `planner.py` | steps are named by `planner_step_name`, unique in a plan |
| `PolicyEvaluator` | `policy_engine/evaluator.py` | strings no rule compares with are "other" |
| `ExecutionEngine` | `orchestrator.py`, `execution_service.py`, `runtime_meta.py`, `worker.py` | the core: one execution, its driver, cancellers, approvers |
| `Governance` | abstract | what is promised about a governed action |
| `Lifecycle` | abstract | the published life of a record |
| `ToolExecutor` | `tool_runtime/executor.py` | one invocation |
| `Gateway` | `execution_facade.py`, `queue.py`, `worker.py`, `main.py`, `dependencies.py` | from request to running thread, restarts |
| `ModelRuntime` | `model_runtime/` | replies of a provider and how they are classified |
| `Knowledge` | `knowledge_service/ingestion.py`, `retrieval.py` | chunks as windows of a text; scores are small numbers; the sort is an order by score and title with ties by place |
| `StepServices` | `resilient.py`, the model and retrieval steps of `orchestrator.py` | composes the two with the engine's fallback |
| `Repository` | `adapters/repository.py` | row conversions and listings of both backends |
| `Tables` | `adapters/models.py`, `feedback_service/models.py`, the SQL schema | foreign keys by table, unique keys, checks |
| `ReplayDiff` | `replay_diff_service.py` | the comparisons as operators |
| `Replay` | `replay_service.py`, the child's run | extends `ReplayDiff`, which extends `Repository` |
| `Stream` | `streaming/sse.py`, `streaming/diff.py`, `build_trace_projection` | one stream against three writers |
| `Access` | `auth.py`, `rbac.py`, `tenant_access.py`, `context_merge.py` | operators |
| `Mukti` | `mukti_agent/` | operators |
| `Evaluation` | `evaluation_engine/` | operators; rates in whole units; rows that are counted are functions of places or keys |
| `Insights` | `mukti_facade.py`, `evaluation_engine/service.py`, `mukti_input.py`, routers | composes `Tables`, `Access`, `Mukti`, `Evaluation`, `Repository`, `Planner` |
| `ExecutionEngineProofs`, `ToolExecutorProofs`, `GatewayProofs`, `StepServicesProofs`, `StreamProofs`, `ReplayProofs`, `InsightsProofs` | - | theorems, one module per component |
| `InductionLemmas` | - | induction stated with sets, `FlattenSeq`, loops, sequences put together, falling orders, sizes of finite sets |
| `MC*` | - | instances for TLC |

### ExecutionEngine

The grain is one repository call per action: a read (`Hold`) puts a record into
`copy[p]` of thread `p`, what the code computes from it is done to the copy in the
same action, and the write (`WriteBack`) stores `copy[p]`, whatever the stored record
has become. Reads of several tables between two writes (record, then steps) are one
action where only the reading thread writes those tables.

`exec` is the record: status, the cancellation flag, whether a plan is set, the
outcome in `result`, the validation status and the timeline as the set of its rows
(no row recurs in the history of one record). `steps`, `results`, `toolCalls`,
`proposal`, `decision`, `approvals` are the other tables. `pc`, `copy` and the
driver's `cur`, `item`, `verdict` are local. `item` counts the work items of a step:
retrievals, tool calls and model calls, each of which ends in a read-append-write of
the timeline.

| Code | Actions |
|---|---|
| `enqueue_execution`, `record_worker_started` | `EnqueueRead/Write`, `WorkerRead/Write` |
| `run_execution` up to the loop | `RunExecution`, `EnterPlanning`, `SavePlan`, `EnterExecuting` |
| the loop | `LoopRead`, `LoopWrite`, `Dispatch`, `DispatchStops` |
| `_run_step` and the service calls | `StepBegin`, `AppendRead/Write`, `StepWork`, `SaveStepResult`, `StepSucceed` |
| `_finalize_incident_triage_governance` | `Propose`, `EvaluatePolicy`, `SettleProposal`, `FinalWrite` |
| `cancel_execution` / `fail_execution` from the driver | `DriverCancels`, `DriverFails`, `FinalWrite` |
| `request_cancellation` | `RequestCancellationRead/Write`, `CancelExecutionRead/Write` |
| `submit_approval` | `SubmitApproval`, `SubmitApprovalRefused`, `SaveApproval`, `ResolveRejected/Granted`, `ApprovalWrite` |

The validation status a model reports is arbitrary; the step executor always reports
"passed". Payload texts, confidence numbers and timestamps are left out. A crash of
the driver needs no action of its own for safety: `Spec` has no fairness, so every
behaviour in which the driver stops anywhere is included.

### ToolExecutor

One invocation: the checks before the loop, the loop with its attempts, a pool thread
per attempt, a timer that may fire at any moment before the handler ends, the join on
leaving the pool, the back-off, and a cancellation flag that may be raised and lowered
(the engine's stale writes lower it). `starts` and `lateStarts` are history variables.
A handler is external: it may end in any way at any time.

### Gateway

Requests with or without idempotency key, in both modes, under every combination of
the settings `schedule_execution_start`, `use_execution_worker_queue`, `use_postgres`.
Look-up, save, remember and schedule are separate steps. The run itself is abstract: it
starts and ends, or raises: start_execution handles an `OrchestrationError` and nothing
else, so an exception ends the only worker thread (`WorkerDies`) or one background task
(`TaskRaises`). `Restart` empties what lives in the process. `starts`, `told`, `late` and
`crashed` are history variables. Requests are numbered as they come in, which is no
restriction and halves the states.

### StepServices

One pass over the plan of an incident triage or a cost attribution, at the grain of one
provider call, one trace write, one result write. `Attempt` takes any reply
`ModelRuntime!Outcomes` allows for the provider configured; `Backoff` is `time.sleep`, which
raises for a negative backoff; `TraceModel` writes the row of a good result, and if that
write fails the engine's `except` makes it a `Fallback`. Repository calls may fail before or
after they took effect (`MaxFaults`). `Ingest` adds documents between steps. Texts are terms
and windows; a similarity is a small number given with each row.

### Stream

`Poll` reads the record and looks at the time limit, `Project` reads it again,
`ProjectSteps` lists steps, `Diff` lists approvals and turns the difference to the cursor
into a batch, `Send` yields one event at a time and decides whether to go on, `Sleep` lets
time pass. `Disconnect` may come at any time and `ReadRaises` at any read: the in-memory
repository iterates a dictionary others insert into. The driver, the approver and the
canceller write the record from copies, so rows and terminal statuses may be taken back;
`overwritten` remembers that.

### Replay and ReplayDiff

`Replay` takes `create_replay` apart into its repository calls, runs the child with a
loop that has the reads and writes of `run_execution` and one pass for all steps, lets an
operator find the child in the listing and cancel it at any moment, lets the source go on,
and compares the two once, list by list. What a run leaves behind (`Runs`) is given with
the instance; how it gets there is `ExecutionEngine`'s matter. Records pass through
`Persist` and `Restore` at every read and write.

### Insights

A driver is the sequence of rows it writes (`Program`), each of them checked against
`Tables!Accepts`; an exception leaves `refused` set. The pipeline of the seed script reads
labels, record, steps, decisions and proposals one after the other and stores what
`Mukti!Analyze` makes of them. A request passes `Access`, lists executions in its scope and
then reads what it needs, one kind of row at a time; an anomaly report does all of it
twice, as `get_evaluation_summary` does. `Workloads` are starting points: a run from its
beginning, and pieces of runs that are analysed, asked about or evaluated.

## 3. Runs

| Run | Instance | Shows |
|---|---|---|
| `engine_concurrent` | incident triage, prod (conditional), 1 canceller, 2 approvers, tools and model; 105 000 states | invariants of completion, authority, evidence and coherence, finality once nobody holds a copy, ends that were asked for, refinement of `Governance`, settling |
| `engine_single_writer` | all workflows and contexts, 1 approver, no canceller | refinement of `Lifecycle`; only a refusal makes an execution fail |
| `tool_executor` | 2 retries (the registry's `read_policy`), 3 changes of the flag | overlap, budget, cancellation, what the audit row says (and overstates), return |
| `gateway` | 3 requests, 1 key, 2 of a key at a time, all settings, 1 exception, 1 restart; 458 000 states | nothing starts twice, late duplicates create nothing, what was scheduled ends |
| `step_services` | budgets below, at and above zero, every provider and reply, 1 failing write, 2 ingestions, windows of 4 with overlap 1; 143 000 states | classified retries, traces that tell the source, citations of the best rows searched, covered documents, every step gets a result |
| `stream` | two polls and the time limit, driver, approver, 1 cancellation; 246 000 states | one verdict, rows in order, nothing missing at the end, the stream ends |
| `replay` | four requests, both backends, sources running, cancelled and finished, equal and different runs; 436 000 states | completed replays are faithful, answers are true, the diff agrees with itself and with the runs |
| `insights` | 3 executions of 2 tenants, five fates, callers of both tenants and without headers; 106 000 states | no write breaks a key, tenants are apart, insights, feedback and evaluation rest on rows |

The bounds are enough for the interesting cases: with one canceller (two
read-modify-writes) and two approvers every pair of writers overlaps, the driver's third
write can undo both, and two verdicts can conflict; two retries give a first, a middle and
a last attempt; three flag changes raise, lower and raise it again; three requests let two
race and a third come later, before or after an exception or a restart; two polls of a
stream see a record before and after any write, and a third would only repeat the
second; a document of three windows has a first, a middle and a last one; two runs that
differ in every table let each comparison fire. The thresholds of the evaluation are
scaled down to 2 so that three executions can cross them, and the pool of the insights is
reached with a limit of 1 and four stored rows. The numbers of threads, retries, flag
changes, requests, keys, restarts and exceptions are arbitrary in the proofs.

Four runs look for, and find, violations of what the repository's documents say. They are
described in `findings`:

* `terminal_states`: `enqueue_execution` reads the record, a cancel request stores it as
  cancelled, and `enqueue_execution` writes its older copy back: the status goes from
  cancelled to created (`execution_service.py:113-117`). It is the first of several
  read-modify-writes that can do so; the loop's write-back (`orchestrator.py:176`) is another.
* `conflicting_verdicts`: a rejection is stored and applied after the proposal was
  approved.
* `duplicate_keys`: overlapping requests with one key create two executions.
* `replay_of_cancelled`: a replay inherits the cancellation flag and cancels itself.

Every property of a passing run has a mutant of the mapped code that violates it.

## 4. Fairness

`ExecutionEngine!FairSpec`: the driver thread keeps running (it is the worker thread or a
background task, and the engine has no unbounded wait of its own), and a request that
passed its first read finishes. Nobody is assumed to send a cancel or an approval.
`ToolExecutor!FairSpec` adds that handlers end, which `_run_with_timeout` does not enforce
(section 7). `Gateway!FairSpec`: the worker and the request threads keep running and a run
ends, which is what `Settles` shows of the engine. `StepServices!FairSpec`: the engine's
thread keeps running, for a provider call ends by its HTTP timeout. `Stream!FairSpec`: the
event loop keeps resuming the generator; nothing is assumed of the writers or the client.
`Replay` and `Insights` have safety properties only.

## 5. Proofs

`ExecutionEngineProofs` proves, for every set of cancellers and approvers, every
selection of workflows and contexts and with or without services:

* `TypeCorrect`, `CompletionIsValidated`, `RecordsStayCoherent`, `CompletionIsAuthorized`,
  `EvidenceIsComplete` - the invariants of `engine_concurrent`;
* `EngineImplementsGovernance` - the refinement, step by step.

The argument: any copy may be written at any time, so a property of the stored record is
not inductive; the same property must hold of every copy. `Sound(r)` says what a record
may claim (its status agrees with result and trace; active statuses imply a saved plan;
completed or awaiting approval implies that all planned steps succeeded with results and
that the validation status is the one the validation step reported; and which policy
decision stands behind it). `AllSound` states it of the store and of all copies. What
`Sound` refers to outside the record only grows: steps that succeeded stay so, results and
approvals stay, the decision is made once. So a copy that was sound when it was read is
sound when it is written, however late. `DriverInv` ties the driver's position to the
tables (no rows before the plan, no proposal before governance, ...), and `ApproverInv`
ties an approver's position to its stored verdict. `EvidenceInv` is the strengthening
for `EvidenceComplete`: the current step is ready and the tools of the items done are
recorded.

`ToolExecutorProofs` proves the four safety properties and type correctness for every
`MaxRetries` and `MaxFlagChanges`. `AuditAgrees` states the count of the row as it is, the
whole budget for every error that ends the loop early included (section 7). The strengthening, `LoopInv`, counts: handlers started
equal the attempts passed, all joined but the last; `LateInv` says a check passed since
the flag was last raised.

`GatewayProofs` proves `NothingStartsTwice` and `LateDuplicatesAreAnswered` for every number
of requests, keys, restarts and exceptions. `StartedOnce` alone is not inductive: that a
queued execution was not started before needs to know that only requests that have been
answered are queued, that the worker holds none of them, and that a task is never one of
either (`HandedOver`, `NotStarted`). That late duplicates create nothing needs what the
dictionary keeps (`KeysKept`: what was told of a key is there, and what is there is stored)
and the order within a request (`CreatedInOrder`).

Four more theorems of `ExecutionEngineProofs` are about ends:

* `SettledIsFinal`: a terminal status is final once nobody holds an older copy, for any
  number of threads. `SettledAs` is inductive: the record has the status and every copy
  that may still be written has it too.
* `EndsAreAccounted`, for any number of cancellers and approvers: a completed or failed
  execution has run its whole plan, a failed one was refused or was being cancelled, a
  cancelled one was asked to be. `EndsInv` says it of every copy too and adds `QuietInv`: while
  nobody has asked for cancellation, what the driver holds is the record or an allowed next one
  (`Continues`), and the loop meets a complete plan only in a record that is validating.
  That steps succeed in the order of the plan (`StepOrder`, lemma `StepsRunInOrder`) is what
  makes a loop that finds no ready step find a complete plan.
* `FailuresAreRefusals` follows from it where nobody cancels (`Cancellers = {}`), with any
  number of approvers.
* `EngineImplementsLifecycle` has the hypothesis `SingleWriter` (no canceller, at most one
  approver), which its run satisfies too. Without it the statement is false: `terminal_states`
  shows a cancellation taken back, and two approvers lose each other's timeline rows.
  `LoneInv` says of the one approver what `QuietInv` says of the driver.

`StepServicesProofs` proves `RetriesStayClassified` and `FallbackHasAReason` for every set of
budgets, corpora and documents and any number of failing writes. The strengthening,
`LoopPlaces`, says that in the loop the attempt counts the calls and all of them were
transient, and that a result on its way to the trace is that of the last call; that there
is a first attempt for a negative budget is a lemma of its own. `TraceIsTrue` adds where
the row of the result at hand is in the timeline. `CitationsAreGrounded` rests on what the
sort computes: the place of a row is the number of rows ahead of it, which is a bijection
because "ahead" is a strict total order, so the first `limit` places hold no row worse than
one left out. The rows it speaks of are the rows in scope or, when the filters match none,
all of them (`Knowledge!Searched`). `DocumentsAreCovered` is about the windows `chunk_text` cuts: a downward
induction over their starts (`WindowsHaveValues`, `ChunksCover`). It has the hypothesis
`NamedApart`: the caller of `ingest_document` chooses `document_id`, and two documents of
one id would be indistinguishable in the corpus.

`StreamProofs` proves the four safety properties for every time limit and heartbeat and any
number of cancellations. `VerdictInv`: an open stream has told no verdict, and the batch that
has one closes it. `RowsInv`: while no row was overwritten, what was sent and is about to be
sent are the timeline's rows up to the cursor. `StoredInv` and `ToldInv`: what a poll reads
after a final status is final, and what the cursor counts was told. What the loop over the timeline emits (`FlattenSeq`)
is proved in `InductionLemmas`. The branch of `sse.py` that makes sure of a terminal envelope
is shown never to be needed (`VerdictInv`).

`ReplayProofs` proves `CompletedReplaysAreFaithful`, `ReplayAnswersAreTrue`,
`DiffsHangTogether` for every set of requests and runs and both repositories, and
`DiffsTellTheTruth` for every set of requests and runs. `ReplayInv` follows the child's record through every
copy (service, driver, operator): a copy that was read before the provenance was attached has
come no further than executing (`Sound`), and whoever writes one back puts the cancellation
flag on it (`Late`), so the driver that meets it does not complete. A source's own input may hold anything
but the key `__orch_execution_mode__`, which the PostgreSQL repository takes out of the
input when it reads a row back (`Repository!Plain`).

`DiffsHangTogether` compares two listings of the steps taken by different reads, with the
driver, an operator and the source at work in between. `DiffInv` has three parts: no copy of
a driven child is completed or failed, and its rows are sequences (`SettledInv`); what the
comparison read as completed or failed is still so in the store, and its driver has left the
rows alone since (`PairInv`); and at each read the items so far say of the step counts what
the stored rows say (`ItemsInv`). The rest is about the comparison: of all its parts only the
plan's and the steps' produce an item that speaks of the number of steps, for executions
with any input.

`DiffsTellTheTruth` says for which runs a diff of an exact replay is silent: those that are
alike (`Alike`) in everything the comparison looks at, and no others, whatever their rows and
whatever happens between its reads. `TruthInv` holds while nobody interferes. A source that
has ended is the record its run made of it, and what the service read (`KeptInv`). The
child's record is at each place of its driver what the driver has made of it so far, its
copies are the record, and an ended child has the source's input with the provenance, its
run's rows, its run's reasoning in the timeline and its run's result (`AloneInv`). And each part of the comparison
that has been done says as much as the two runs differ in it (`ToldInv`). What each
`Compare...` says of its lists is a lemma (`HushSteps`, `HushReasoning`, `HushToolCalls`, ...).
A listing in memory leaves rows in the order they have when their times do not decrease
(`ListedInOrder`): a sorting permutation that is increasing is the identity.

`InsightsProofs` proves, for every number of executions, fates and requests:

* `NothingIsTurnedAway`: the program of a driver is closed under the foreign keys in the order of
  its writes (`Closed`), for plans of any length; what is stored is what the programs have
  written so far (`Agree`), so each next row is accepted. `Tables` has the foreign keys, the
  unique keys and the one CHECK that relates columns; CHECKs on the values of one column
  (enumerations, `confidence_score`, `plan_version`, `retry_count`, `latency_ms`) are left out.
* `TenantsSeeOnlyTheirOwn`: a request only ever holds rows of its own tenant's executions
  (`Rightful`). The listing filters executions, the routers filter feedback, and no insight of
  the analyzer names an execution that is not in a row it was given (one lemma per
  insight).
* `FeedbackIsAlwaysTrue`: what the pipeline stored of an execution is true then and stays so,
  although each of its reads happens at another time. `LearningInv` says why. Every row of
  `executions`, `steps`, `tool_calls`, `evaluations` and `proposals` is one that its run wrote
  (`Written`), and what the program of a run writes tells a story (`Story`, proved for plans of any length):
  timelines only grow, only the last write has a final status, and a denial is on record
  before a proposal or an execution shows it. So the tables only get better (`Better`), and
  what the pipeline holds is old and yet true (`PipeTrue`, `TruthLasts`).
* `InsightsRestOnFeedback`: an insight of any kind names only executions with a stored row that
  reports it. Of two kinds it says more: while nothing is written each failure type of the
  recent rows is counted once for every row that has it, and a workflow is unstable exactly
  when half of its recent rows are of failed or cancelled executions. The counts of the other
  four kinds are not stated (section 7). Feedback rows are numbered in the order of their times, so the pool
  holds the newest, and what was listed is what is stored while nothing is written
  (`GroundedInv`). What the analyzer makes of the rows it was given is one lemma per kind of
  insight.
* `EvaluationsAreSound`: an anomaly report has a score between 0 and 1 and counts no failure
  that is not stored, whoever writes while it is put together; and while nobody writes it flags
  exactly the workflows, denials and tools that the tables show. `EvaluationInv` follows a
  request through its two listings and two readings of every execution: what was read is of
  that execution's workflow, a failure that was read is still stored (`Better`), and while
  nothing is written each part is what is stored (`ReadIsTrue`, `LoadedIsTrue`), so each rollup
  is the number of stored rows it stands for (`Tells`). The lemmas on `ByWorkflow`, `ByDecision`
  and `ByTool` count pairs and disjoint unions of rows; rates and thresholds are arithmetic.
  The theorem has the hypothesis `BornApart`: creation times are integers, no two alike. With
  ties and a limit the two listings of one report may be of different executions (section 7).

Assumptions are the named `ASSUME`s of the modules, and TLC evaluates each of them:

| Module | Assumed |
|---|---|
| `ExecutionEngine` | threads have different names; workflows, contexts and capabilities are of their kinds |
| `ToolExecutor`, `Gateway`, `Stream` | bounds are naturals (a heartbeat of at least one tick), `NoKey` is no key, deployments are settings |
| `StepServices` | `Overlap < ChunkSize`, budgets are integers, scores are naturals; a corpus is not empty, since `corpus or DEFAULT_CORPUS` replaces an empty one |
| `Replay` | a requested mode is one of the enum or absent; overrides are finite; a run ends completed, failed or waiting, and its rows are sequences; steps and tool calls are in the order of their times, the first step has begun, a step has at most one result (`RowsAssumption`) |
| `Insights` | finitely many executions; a decision is one of three; no tenant is called as the filter that is not given; `WorkloadsAssumption`: what is stored at first is what its runs have written, and the feedback among it is true and numbered in the order of its times; an empty start satisfies both |

Statements about all lengths of a loop or a sequence need induction. The library's induction
theorem takes a predicate as a parameter; `InductionLemmas` states it with the set of
numbers at which the predicate holds, which the provers can use, and derives from it what
recursive functions and `FlattenSeq` compute.

Only model-checked is liveness (`Settles`, `InvocationReturns`, `FiniteExit`, `StepsComplete`,
`StreamEnds`), which is out of the prover's reach under fairness. The four runs that look for a
violation have no theorem by their nature. Every other property of a run is stated by a theorem.

## 6. What could come next

1. `DiffTellsTheTruth` for PostgreSQL, once the steps of a plan have an order in the table (section 7).
2. Observability, if a decision ever rests on a counter.

## 7. Observations that no run reports

These follow from the models or came up while reading, and each is visible in a module:

* A validation step that reports failed does not keep the run from completing
  (`orchestrator.py:193`, `ExecutionEngine!Dispatch`), while
  `docs/architecture/runtime-model.md:356` says failed validation blocks promotion.
* `cancel_execution` closes the record and leaves steps pending or running and a proposal
  awaiting approval, and nothing settles them later (`orchestrator.py:1660`), while
  `docs/architecture/runtime-model.md:273` has every step in a terminal status before the
  execution is completed, failed or cancelled. `EndsAreAccountedFor` states it for the first two.
* An execution somebody asked to cancel may end as failed: the request's first write puts an
  older status back between the driver's `LoopWrite` and its second read, and with all steps
  succeeded outside validating the loop fails the run (`orchestrator.py:222`,
  `ExecutionEngine!Dispatch`).
* With several writers timeline rows are lost, since `_append_timeline` writes a whole record
  (`orchestrator.py:1162`); with one writer none is (`LifecycleImplemented`).
* A tool call that ends with a non-transient error is recorded with
  `retry_count = max_attempts - 1` although nothing was retried (`tool_runtime/executor.py:196`),
  and `tool_retries_total` adds it up; `docs/architecture/runtime-model.md:312` counts attempts
  with it. `AuditAgreesWithHandlers` states the overcount.
* A tool call that timed out waits for its handler when it leaves the pool
  (`tool_runtime/executor.py:216`, `ToolExecutor!Join`).
* With Postgres, an execution that was stored and not run before a restart is never run
  (`queue.py:22`, `Gateway!Restart`): `FiniteExit` excepts it.
* When a request's filters match no row of the corpus, the whole corpus is searched and the
  answer does not show it (`retrieval.py:140`, `Knowledge!Searched`), nor that the rows may
  not be of the version it reports, while `knowledge-service/README.md:16` says filters must match chunk metadata.
  `gather_evidence` filters by `incident_id` (`orchestrator.py:615`), which no row of the shipped
  corpus has: there every incident triage cites rows outside its filter.
* Every ranked chunk gets the title of the row scored last (`retrieval.py:171`,
  `Knowledge!ScoreAndRank`).
* The HTTP providers have no methods for the cost tasks: their steps always fall back.
* In Postgres the steps of a plan share one time of creation, so a diff of equal runs may
  report differences (`DiffTellsTheTruth` is stated for the in-memory order).
* A stream whose timeline shrank under a stale write may skip rows; `RowsInOrder` speaks of
  timelines that only grew.
* A worker thread that died takes nothing from the queue any more (`main.py:39`,
  `Gateway!WorkerDies`): `FiniteExit` excepts it too.
* A replay that failed may have lost its provenance to an operator's copy; the other half of
  `CompletedReplayIsFaithful` is why it cannot complete.
* The pipeline accepts executions that wait for an approver; its analysis stays true
  (`FeedbackIsTrue`) and may be incomplete.
* Feedback is filtered by tenant after the newest rows of all tenants were taken, so a busy
  tenant thins out another's insights (`Insights!Pool`).
* A `recurring_pattern` counts occurrences: two fallbacks in one row recur "in 2
  execution_feedback row(s)", and one execution suffices (`cross_execution.py:157`,
  `Mukti!RecurringPatterns`).
* No pattern's step recurs in two executions, so `unstable_step` is never reported; and no
  execution has the four model events its own fallback rule asks for.
* Nothing orders executions of one creation time in a listing
  (`repository.py` sorts by `created_at` alone). `get_evaluation_summary` lists twice, so at
  its limit the metrics and the rollups of one report may be of different executions
  (`Insights!ListScope`, `InsightsProofs!BornApart`).
* `chunk_text` does not advance when overlap is not smaller than chunk size
  (`ChunkAssumption`).
* The `not terminal_sent` branch of the stream is never entered.

## 8. Not modelled

Observability is write-only. The operator console is a client of the gateway; it closes a
stream at the first terminal event, which `Disconnect` covers. SQL connections and
transactions beyond single statements, HTTP parsing, prompts, wording and timestamps are
left out everywhere; bounded renderings of values in a diff too. The policy listing and the
health endpoints read constants.
