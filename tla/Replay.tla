-------------------------------- MODULE Replay --------------------------------
(***************************************************************************)
(* One replay request: ReplayService.create_replay with the run of the     *)
(* child it may start, an operator who finds the child in the list of      *)
(* replays and cancels it, a source that others still write, and one       *)
(* ReplayDiffService.compare of the two.  The record of an execution is    *)
(* written as a whole from a copy read before.                             *)
(***************************************************************************)
EXTENDS ReplayDiff, StateMachine

CONSTANTS
  Requests,  \* the replay requests
  Runs       \* what the two runs may leave behind: their rows and how they end

\* A mode is an ExecutionMode, or not given.
ASSUME RequestsAssumption ==
  \A r \in Requests :
    r.execution_mode \in Modes \cup {"source"} /\ IsFiniteSet(DOMAIN r.overrides)

Lists == {"steps", "tools", "evaluations", "proposals", "approvals"}
AreRows(lists) ==
  DOMAIN lists = Lists /\ \A part \in Lists : lists[part] \in Seq(ToSet(lists[part]))

\* A run leaves sequences of rows, some in the timeline, and ends, or waits for an approver.
ASSUME RunsAssumption ==
  \A r \in Runs : \A run \in {r.source, r.child} :
    /\ run.reasoning \in Seq(ToSet(run.reasoning)) /\ AreRows(run.rows)
    /\ run.status \in {"completed", "failed", "awaiting_approval"}

\* The rows are in the order in which they were created, the first step has begun, and a
\* step has at most one result.
InOrder(list) ==
  \A i, j \in DOMAIN list :
    list[i].created_at \in Int /\ (i < j => list[i].created_at <= list[j].created_at)

ASSUME RowsAssumption ==
  \A r \in Runs : \A run \in {r.source, r.child} :
    /\ InOrder(run.rows.steps) /\ InOrder(run.rows.tools)
    /\ run.rows.steps # <<>> /\ "status" \in DOMAIN run.rows.steps[1]
    /\ run.rows.steps[1].status # "pending"
    /\ \A i \in DOMAIN run.rows.steps : \A x, y \in run.rows.steps[i].result : x = y

VARIABLES
  backend, request,
  runs,                        \* what the source's and the child's run leave behind
  stored, rows,                \* the executions, and what is listed by execution
  pc, src, child, answer,      \* create_replay and run_execution
  canceller, cancelCopy,
  differ, pair, items, report, \* compare: the records it holds, its items
  moved                        \* the source was written since src was read (history)

fixed == <<backend, request, runs>>
store == <<stored, rows>>
service == <<pc, src, child, answer>>
cancelling == <<canceller, cancelCopy>>
diffing == <<differ, pair, items, report>>
vars == <<fixed, store, service, cancelling, diffing, moved>>

Terminal == ExecutionTerminal
MetaKey == "__orch_runtime_meta__"
NoKeys == [k \in {} |-> ""]
None == [status |-> "none"]
NoRows == [steps |-> <<>>, tools |-> <<>>, evaluations |-> <<>>, proposals |-> <<>>,
           approvals |-> <<>>]

Get(id) == Restore(backend, stored[id])
Put(id, ex) ==
  [i \in DOMAIN stored \cup {id} |-> IF i = id THEN Persist(backend, ex) ELSE stored[i]]

Row(type) == [event_type |-> type]
Moves(ex, status) ==
  [ex EXCEPT !.status = status, !.timeline = Append(@, Row(status))]
Flag(ex) == [ex EXCEPT !.input = With(@, MetaKey, "requested")]
Flagged(ex) == Given(ex.input, MetaKey) = {"requested"}

\* cancel_execution, on the copy it has read.
Cancelled(ex) ==
  IF ex.status \in Terminal THEN Flag(ex)
  ELSE [Moves(Flag(ex), "cancelled") EXCEPT !.result = {[outcome |-> "cancelled"]}]

(***************************************************************************)
(* create_replay.                                                          *)
(***************************************************************************)
ReadSource ==
  /\ pc = "read"
  /\ src' = Get("source") /\ moved' = FALSE
  /\ pc' = "validate"
  /\ UNCHANGED <<fixed, store, child, answer, cancelling, diffing>>

\* _validate_request, and the reserved key of the overrides.
Refused(r) ==
  \/ r.mode = "exact" /\ (DOMAIN r.overrides # {} \/ r.override_plan)
  \/ r.mode = "investigative" /\ (~ r.explained \/ ProvenanceKey \in DOMAIN r.overrides)
  \/ r.environment = "blank"

Validate ==
  /\ pc = "validate"
  /\ IF Refused(request) THEN pc' = "answered" /\ answer' = "refused"
     ELSE pc' = "create" /\ UNCHANGED answer
  /\ UNCHANGED <<fixed, store, src, child, cancelling, diffing, moved>>

Mode == IF request.execution_mode = "source" THEN src.execution_mode ELSE request.execution_mode

\* create_execution, with an empty input.
Create ==
  /\ pc = "create"
  /\ child' = [id |-> "child", status |-> "created", workflow_type |-> src.workflow_type,
               parent |-> "source", plan |-> "none", input |-> NoKeys,
               execution_mode |-> Mode, timeline |-> <<>>, validation |-> "none",
               result |-> {}, created_at |-> 2]
  /\ stored' = Put("child", child')
  /\ rows' = [rows EXCEPT !.child = NoRows]
  /\ pc' = "attach"
  /\ UNCHANGED <<fixed, src, answer, cancelling, diffing, moved>>

ProvenanceOf(r) == [source |-> "source", mode |-> r.mode, overrides |-> r.overrides]

\* The source's input without the provenance it may have itself, and the overrides.
ReplayInput == Merged(Without(src.input, ProvenanceKey), request.overrides)

Attached(ex) ==
  [ex EXCEPT !.input = With(ReplayInput, ProvenanceKey, ProvenanceOf(request)),
             !.timeline = Append(@, Row("replay_created"))]

\* Mutant of Attach: the input is not copied, the source gets the key as well.
AttachInPlace ==
  /\ pc = "attach"
  /\ child' = Attached(child)
  /\ LET source == [Get("source") EXCEPT !.input = child'.input]
     IN  stored' = [i \in DOMAIN stored |->
                      Persist(backend, IF i = "child" THEN child' ELSE source)]
  /\ pc' = IF request.start THEN "start" ELSE "recheck"
  /\ UNCHANGED <<fixed, rows, src, answer, cancelling, diffing, moved>>

\* The child as it was created, with its input, provenance and row, is written back.
Attach ==
  /\ pc = "attach"
  /\ child' = Attached(child)
  /\ stored' = Put("child", child')
  /\ pc' = IF request.start THEN "start" ELSE "recheck"
  /\ UNCHANGED <<fixed, rows, src, answer, cancelling, diffing, moved>>

Recheck ==
  /\ pc = "recheck"
  /\ answer' = IF Get("source") = src THEN "replayed" ELSE "mutated"
  /\ pc' = "answered" /\ child' = None
  /\ UNCHANGED <<fixed, store, src, cancelling, diffing, moved>>

\* A repository call raises: what was stored before stays.
Raises ==
  /\ pc \in {"read", "create", "attach", "recheck"}
  /\ pc' = "answered" /\ answer' = "error" /\ child' = None
  /\ UNCHANGED <<fixed, store, src, cancelling, diffing, moved>>

(***************************************************************************)
(* run_execution of the child; each step of its plan is ExecutionEngine's  *)
(* matter and one pass of the loop here.                                   *)
(***************************************************************************)
Planning ==
  \/ /\ pc = "start"
     /\ child' = Get("child")
     /\ pc' = IF child'.status \in Terminal THEN "recheck" ELSE "planning"
     /\ UNCHANGED <<store>>
  \/ /\ pc = "planning"
     /\ child' = Moves(child, "planning") /\ stored' = Put("child", child')
     /\ pc' = "plan" /\ UNCHANGED rows
  \/ /\ pc = "plan"
     /\ rows' = [rows EXCEPT !.child.steps =
                   [i \in DOMAIN runs.child.rows.steps |->
                      [runs.child.rows.steps[i] EXCEPT !.status = "pending", !.result = {}]]]
     /\ child' = [Moves(child, "executing") EXCEPT !.plan = "child_plan"]
     /\ stored' = Put("child", child')
     /\ pc' = "loop"

PlanChild ==
  Planning /\ UNCHANGED <<fixed, src, answer, cancelling, diffing, moved>>

Worked == rows.child = runs.child.rows

\* Mutant of Loop: the flag is not looked at.
LoopOn ==
  /\ pc = "loop"
  /\ child' = Get("child")
  /\ pc' = IF child'.status \in Terminal THEN "recheck" ELSE "write"
  /\ UNCHANGED <<fixed, store, src, answer, cancelling, diffing, moved>>

\* The top of the loop.
Loop ==
  /\ pc = "loop"
  /\ child' = Get("child")
  /\ pc' = IF Flagged(child') THEN "stop"
           ELSE IF child'.status \in Terminal THEN "recheck" ELSE "write"
  /\ UNCHANGED <<fixed, store, src, answer, cancelling, diffing, moved>>

\* cancel_execution reads the record once more; its own races are ExecutionEngine's.
Stop ==
  /\ pc = "stop"
  /\ stored' = Put("child", Cancelled(Get("child")))
  /\ pc' = "recheck"
  /\ UNCHANGED <<fixed, rows, src, child, answer, cancelling, diffing, moved>>

\* _maybe_enter_validating, and its copy is written back, changed or not.
WriteBack ==
  /\ pc = "write"
  /\ stored' = Put("child", IF Worked /\ child.status = "executing"
                            THEN Moves(child, "validating") ELSE child)
  /\ pc' = "again" /\ child' = None
  /\ UNCHANGED <<fixed, rows, src, answer, cancelling, diffing, moved>>

Again ==
  /\ pc = "again"
  /\ child' = Get("child")
  /\ pc' = IF child'.status \in Terminal THEN "recheck"
           ELSE IF ~ Worked THEN "work"
           ELSE IF child'.status = "validating" THEN "finish" ELSE "fail"
  /\ UNCHANGED <<fixed, store, src, answer, cancelling, diffing, moved>>

\* All steps are done in a record that is not being validated: the loop raises an
\* OrchestrationError and fail_execution reads the record once more.
Fail ==
  /\ pc = "fail"
  /\ LET ex == Get("child")
     IN  stored' = IF ValidExecutionTransition(ex.status, "failed")
                   THEN Put("child", [Moves(ex, "failed") EXCEPT
                                        !.result = {[outcome |-> "failed"]}])
                   ELSE stored
  /\ pc' = "recheck"
  /\ UNCHANGED <<fixed, rows, src, child, answer, cancelling, diffing, moved>>

\* The steps leave their rows and then their rows in the timeline.
Work ==
  \/ /\ pc = "work"
     /\ rows' = [rows EXCEPT !.child = runs.child.rows]
     /\ child' = Get("child") /\ pc' = "trace"
     /\ UNCHANGED <<fixed, stored, src, answer, cancelling, diffing, moved>>
  \/ /\ pc = "trace"
     /\ stored' = Put("child", [child EXCEPT !.timeline = @ \o runs.child.reasoning])
     /\ pc' = "loop" /\ child' = None
     /\ UNCHANGED <<fixed, rows, src, answer, cancelling, diffing, moved>>

Finished(ex, run) ==
  [Moves(ex, run.status) EXCEPT !.validation = run.validation, !.result = {run.result}]

Finish ==
  /\ pc = "finish"
  /\ stored' = Put("child", Finished(child, runs.child))
  /\ pc' = "recheck" /\ child' = None
  /\ UNCHANGED <<fixed, rows, src, answer, cancelling, diffing, moved>>

(***************************************************************************)
(* request_cancellation of the child, which the operator finds in          *)
(* list_replays_for_source: it flags its copy and then calls               *)
(* cancel_execution.                                                       *)
(***************************************************************************)
\* In the order in which they were created.
Executions == <<Get("source")>> \o (IF "child" \in DOMAIN stored THEN <<Get("child")>> ELSE <<>>)

CancelChild ==
  \/ /\ canceller = "idle"
     /\ \E listed \in ListByParent(backend, Executions, "source", 50) :
          \E i \in DOMAIN listed : cancelCopy' = listed[i]
     /\ canceller' = "flag" /\ UNCHANGED stored
  \/ /\ canceller = "flag"
     /\ stored' = Put("child", Flag(cancelCopy))
     /\ canceller' = IF cancelCopy.status \in Terminal THEN "done" ELSE "cancel"
     /\ cancelCopy' = None
  \/ /\ canceller = "cancel"
     /\ stored' = Put("child", Cancelled(Get("child")))
     /\ canceller' = "done" /\ UNCHANGED cancelCopy

Cancel == CancelChild /\ UNCHANGED <<fixed, rows, service, diffing, moved>>

\* The source's own run ends, or an operator cancels it, at whatever status it is.
SourceMoves ==
  /\ ~ moved /\ pc # "read"
  /\ \/ /\ Get("source").status = "executing"
        /\ rows' = [rows EXCEPT !.source = runs.source.rows]
        /\ stored' = Put("source", Finished(Get("source"), runs.source))
     \/ /\ ~ Flagged(Get("source"))
        /\ stored' = Put("source", Cancelled(Get("source")))
        /\ UNCHANGED rows
  /\ moved' = TRUE
  /\ UNCHANGED <<fixed, service, cancelling, diffing>>

(***************************************************************************)
(* compare.                                                                *)
(***************************************************************************)
\* The lists that a part of the comparison reads, for source and replay.
Listed(part, Compare(_, _)) ==
  \E s \in ListRows(backend, rows.source[part]), r \in ListRows(backend, rows.child[part]) :
    items' = items \o Compare(s, r)

\* Bound: one comparison, of a replay that has ended (a cancelled one may still be driven).
DiffSource ==
  /\ differ = "idle" /\ "child" \in DOMAIN stored
  /\ Get("child").status \in Terminal
  /\ pair' = [pair EXCEPT !.source = Get("source")]
  /\ differ' = "replay"
  /\ UNCHANGED <<items, report>>

DiffReplay ==
  /\ differ = "replay"
  /\ LET replay == Get("child")
     IN  /\ pair' = [pair EXCEPT !.replay = replay]
         /\ items' = CompareLineage(pair.source, replay) \o CompareHeader(pair.source, replay)
                       \o CompareInput(pair.source, replay)
  /\ differ' = "plan"
  /\ UNCHANGED report

DiffPlan ==
  /\ differ = "plan"
  /\ Listed("steps", LAMBDA s, r : ComparePlan(pair.source, pair.replay, s, r))
  /\ differ' = "steps"
  /\ UNCHANGED <<pair, report>>

DiffSteps ==
  /\ differ = "steps"
  /\ Listed("steps", LAMBDA s, r :
               CompareSteps(s, r) \o CompareReasoning(pair.source, pair.replay))
  /\ differ' = "rest"
  /\ UNCHANGED <<pair, report>>

\* The rest; evaluations, proposals and approvals have distinct times.
DiffRest ==
  /\ differ = "rest"
  /\ Listed("tools", LAMBDA s, r :
        CompareToolCalls(s, r)
          \o ComparePolicy(rows.source.evaluations, rows.child.evaluations,
                           rows.source.proposals, rows.child.proposals)
          \o CompareApprovals(rows.source.approvals, rows.child.approvals)
          \o CompareValidation(pair.source, pair.replay)
          \o CompareResult(pair.source, pair.replay))
  /\ differ' = "recheck"
  /\ UNCHANGED <<pair, report>>

DiffRecheck ==
  /\ differ = "recheck"
  /\ report' = IF Get("source") = pair.source /\ Get("child") = pair.replay
               THEN "answered" ELSE "mutated"
  /\ differ' = "done"
  /\ IF report' = "answered" THEN UNCHANGED <<pair, items>>
     ELSE pair' = [source |-> None, replay |-> None] /\ items' = <<>>

Diff ==
  /\ DiffSource \/ DiffReplay \/ DiffPlan \/ DiffSteps \/ DiffRest \/ DiffRecheck
  /\ UNCHANGED <<fixed, store, service, cancelling, moved>>

(***************************************************************************)
(* The specification.                                                      *)
(***************************************************************************)
\* A source that has run, runs or was cancelled before its first step.
SourceAt(status, run) ==
  LET fresh == [id |-> "source", status |-> "executing", workflow_type |-> "incident_triage",
                parent |-> "none", plan |-> "source_plan",
                input |-> With([severity |-> "high"], MetaKey, "queued"),
                execution_mode |-> "interactive", timeline |-> <<>>,
                validation |-> "none", result |-> {}, created_at |-> 1]
  IN  CASE status = "executing" -> fresh
        [] status = "cancelled" -> Cancelled(fresh)
        [] OTHER -> Finished([fresh EXCEPT !.timeline = run.reasoning], run)

Init ==
  /\ backend \in Backends /\ request \in Requests /\ runs \in Runs
  /\ \E status \in {"executing", "cancelled", "finished"} :
       /\ stored = [source |-> Persist(backend, SourceAt(status, runs.source))]
       /\ rows = [source |-> IF status = "finished" THEN runs.source.rows ELSE NoRows,
                  child |-> NoRows]
  /\ pc = "read" /\ src = None /\ child = None /\ answer = "none"
  /\ canceller = "idle" /\ cancelCopy = None
  /\ differ = "idle" /\ pair = [source |-> None, replay |-> None]
  /\ items = <<>> /\ report = "none"
  /\ moved = FALSE

Done == pc = "answered" /\ UNCHANGED vars

Next ==
  \/ ReadSource \/ Validate \/ Create \/ Attach \/ Recheck \/ Raises
  \/ PlanChild \/ Loop \/ Stop \/ WriteBack \/ Again \/ Fail \/ Work \/ Finish
  \/ Cancel \/ SourceMoves \/ Diff \/ Done

Spec == Init /\ [][Next]_vars

(***************************************************************************)
(* Properties.                                                             *)
(***************************************************************************)
Titles == {items[i].title : i \in DOMAIN items}
Settled(ex) == ex.status \in {"completed", "failed"}

\* An input without the keys that are reserved.
Plain(input) == Without(Without(Without(input, ModeKey), MetaKey), ProvenanceKey)

\* What the request asks for, and a child that is it.
Asked == [provenance |-> ProvenanceOf(request), input |-> Plain(ReplayInput), mode |-> Mode]

Faithful(ex, asked) ==
  /\ Provenance(ex) = {asked.provenance}
  /\ Plain(ex.input) = asked.input
  /\ ex.execution_mode = asked.mode
  /\ ex.timeline # <<>> /\ ex.timeline[1].event_type = "replay_created"

\* docs/runbooks/replaying-executions.md: a replay that completed has its provenance,
\* the input that was asked for, the mode and the row that tells of its creation,
\* although an operator may have written back the child as it was before any of this
\* was attached.  (A failed one may have lost them: such a copy makes the loop fail.)
CompletedReplayIsFaithful ==
  "child" \in DOMAIN stored /\ Get("child").status = "completed" => Faithful(Get("child"), Asked)

\* A refused request leaves nothing behind, one that is told the source has moved was
\* told the truth, and an answered one has left a child with its provenance unless an
\* operator has been at it.
AnswersAreTrue ==
  /\ answer = "refused" => "child" \notin DOMAIN stored
  /\ answer = "mutated" => moved
  /\ answer = "replayed" => /\ "child" \in DOMAIN stored
                            /\ Provenance(Get("child")) # {} \/ canceller # "idle"

Says(list, category, title) == \E e \in ToSet(list) : e.category = category /\ e.title = title

OneCountDiffers(list) == Says(list, "plan", "step_count")
OneIsLonger(list) ==
  Says(list, "step", "extra_replay_step") \/ Says(list, "step", "missing_replay_step")

\* Steps are listed twice, for the plan and one by one: the two agree in every answer
\* about executions that were read completed or failed.  (A cancelled one may still be
\* driven, and get its steps between the two.)
DiffHangsTogether ==
  report = "answered" /\ Settled(pair.source) /\ Settled(pair.replay) =>
    (OneCountDiffers(items) <=> OneIsLonger(items))

\* What the comparison looks at, of two runs.
SameKeys(keys, x, y) == \A k \in keys : Given(x, k) = Given(y, k)
Paired(ss, rs, Same(_, _)) == Len(ss) = Len(rs) /\ \A i \in DOMAIN ss : Same(ss[i], rs[i])
SameIn(fields, s, r) == \A f \in fields : s[f] = r[f]

SameStep(s, r) ==
  /\ SameIn({"step_type", "status", "agent"}, s, r)
  /\ s.result = {} <=> r.result = {}
  /\ \A x \in s.result, y \in r.result :
       SameIn({"completeness", "confidence", "validation"}, x, y)
       /\ SameKeys(OutputKeys, x.output, y.output)

ReasoningOf(run) == Reasoning([timeline |-> run.reasoning])
SameReasoning(a, b) ==
  Paired(ReasoningOf(a), ReasoningOf(b), LAMBDA s, r : SameIn({"path", "task"}, s, r))

SameRest(a, b) ==
  /\ Paired(a.rows.tools, b.rows.tools,
            LAMBDA s, r : SameIn({"tool_name", "status", "side_effect", "idempotency"}, s, r))
  /\ Paired(a.rows.evaluations, b.rows.evaluations,
            LAMBDA s, r : SameIn({"decision", "reason"}, s, r))
  /\ Len(a.rows.proposals) = Len(b.rows.proposals)
  /\ Paired(a.rows.approvals, b.rows.approvals, LAMBDA s, r : SameIn({"decision"}, s, r))
  /\ a.validation = b.validation /\ SameKeys(ResultKeys, a.result, b.result)

Alike(a, b) ==
  /\ a.status = b.status /\ Paired(a.rows.steps, b.rows.steps, SameStep)
  /\ SameReasoning(a, b) /\ SameRest(a, b)

\* A diff of an exact replay that ran undisturbed finds differences beyond its lineage
\* and its own plan exactly when the two runs differ in what it looks at, although its
\* parts are read one after the other.  With PostgreSQL it may find some in equal runs:
\* the steps of a plan have one time of creation.
Silent == Titles \subseteq {"linked_to_source", "current_plan_id"}

DiffTellsTheTruth ==
  /\ report = "answered" /\ request.mode = "exact" /\ backend = "memory"
  /\ Settled(pair.source) /\ Settled(pair.replay) /\ ~ moved /\ canceller = "idle"
  => (Silent <=> Alike(runs.source, runs.child))

\* docs/runbooks/replaying-executions.md:42: a replay that is started runs, unless an
\* operator cancels it.
StartedReplayRuns ==
  "child" \in DOMAIN stored /\ Get("child").status = "cancelled" => canceller # "idle"

(***************************************************************************)
(* The inductive invariant behind the first two.                           *)
(***************************************************************************)
Fields == {"id", "status", "workflow_type", "parent", "plan", "input", "execution_mode",
           "timeline", "validation", "result", "created_at"}
TimelineRow ==
  {Row(type) : type \in ExecutionStatus \cup {"replay_created"}}
  \cup UNION {ToSet(r.source.reasoning) \cup ToSet(r.child.reasoning) : r \in Runs}

IsExecution(ex) ==
  /\ ex = [f \in Fields |-> ex[f]]
  /\ ex.input = [k \in DOMAIN ex.input |-> ex.input[k]] /\ IsFiniteSet(DOMAIN ex.input)
  /\ ex.execution_mode \in Modes /\ ex.timeline \in Seq(TimelineRow)

\* The driver is between the row that tells of the child's creation and the end.
Driven == pc \in {"start", "planning", "plan", "loop", "stop", "write", "again", "work",
                 "trace", "finish", "fail", "recheck"}
HasChild == "child" \in DOMAIN stored

StoredInv ==
  /\ backend \in Backends /\ request \in Requests /\ runs \in Runs
  /\ DOMAIN stored \in {{"source"}, {"source", "child"}}
  /\ \A id \in DOMAIN stored : IsExecution(Get(id))
  /\ Get("source").parent = "none"

WhereInv ==
  /\ Driven \/ pc \in {"read", "validate", "create", "attach", "answered"}
  /\ pc = "attach" \/ Driven => HasChild
  /\ pc \in {"read", "validate", "create"} \/ answer = "refused" => ~ HasChild
  /\ answer \in {"refused", "replayed", "mutated"} => pc = "answered"
  /\ answer = "replayed" \/ canceller # "idle" => HasChild

\* As long as nobody else has written it, the source is what was read.
SourceInv ==
  /\ pc \notin {"read", "answered"} => IsExecution(src) /\ (~ moved => Get("source") = src)
  /\ answer = "mutated" => moved

\* A copy that was read too early has come no further than this.
Sound(ex, asked) ==
  \/ Faithful(ex, asked)
  \/ ex.status \in {"created", "planning", "executing", "cancelled", "failed"}

\* And whoever writes it back flags it.
Late(ex, asked) == Sound(ex, asked) /\ (Faithful(ex, asked) \/ Flagged(ex))

ChildInv ==
  /\ HasChild => Sound(Get("child"), Asked)
  /\ Driven => Late(Get("child"), Asked)
  /\ canceller = "flag" => IsExecution(cancelCopy) /\ Sound(cancelCopy, Asked)

CopyInv ==
  /\ pc = "attach" => /\ IsExecution(child) /\ child.execution_mode = Mode
                     /\ child.status = "created" /\ child.timeline = <<>>
  /\ pc \in {"planning", "plan", "trace"} => IsExecution(child) /\ Late(child, Asked)
  /\ pc \in {"write", "finish"} => IsExecution(child) /\ Faithful(child, Asked)

\* Until an operator cancels it, the child has a provenance.
ProvenanceInv ==
  canceller = "idle" =>
    /\ Driven \/ answer = "replayed" => Provenance(Get("child")) # {}
    /\ pc \in {"planning", "plan", "trace", "write", "finish"} => Provenance(child) # {}

ReplayInv == StoredInv /\ WhereInv /\ SourceInv /\ ChildInv /\ CopyInv /\ ProvenanceInv

(***************************************************************************)
(* DiffHangsTogether made inductive: whoever is completed or failed stays  *)
(* so, with the rows it has, in every copy and in the pair compared, and   *)
(* the items collected agree with those rows.                              *)
(***************************************************************************)
Driving == pc \notin {"recheck", "answered"}

SettledInv ==
  /\ rows = [source |-> rows.source, child |-> rows.child]
  /\ AreRows(rows.source) /\ AreRows(rows.child)
  /\ Driving =>
       /\ HasChild => ~ Settled(Get("child"))
       /\ pc \in {"attach", "planning", "plan", "trace", "write"} => ~ Settled(child)
       /\ canceller = "flag" => ~ Settled(cancelCopy)

PairInv ==
  /\ pair = [source |-> pair.source, replay |-> pair.replay]
  /\ differ # "idle" => HasChild
  /\ differ \notin {"idle", "done"} => IsExecution(pair.source)
                                   /\ (Settled(pair.source) => Settled(Get("source")))
  /\ differ \notin {"idle", "replay", "done"} => IsExecution(pair.replay)
                                              /\ (Settled(pair.replay) => ~ Driving)

ItemsInv ==
  /\ items \in Seq(ToSet(items))
  /\ report = "answered" => differ = "done"
  /\ differ \in {"idle", "replay", "plan"} => ~ OneCountDiffers(items)
  /\ differ \in {"idle", "replay", "plan", "steps"} => ~ OneIsLonger(items)
  /\ Settled(pair.source) /\ Settled(pair.replay) =>
       /\ differ = "steps" =>
            (OneCountDiffers(items) <=> Len(rows.source.steps) # Len(rows.child.steps))
       /\ differ \in {"rest", "recheck"} \/ report = "answered" =>
            (OneCountDiffers(items) <=> OneIsLonger(items))

DiffInv == SettledInv /\ PairInv /\ ItemsInv

(***************************************************************************)
(* DiffTellsTheTruth made inductive: while nobody interferes, the records  *)
(* are what the two runs have made of them, the copies are the records,    *)
(* and what has been compared so far is as different as the runs are.      *)
(***************************************************************************)
Undisturbed == backend = "memory" /\ request.mode = "exact" /\ canceller = "idle" /\ ~ moved

KeptInv ==
  /\ HasChild \/ pc = "create" => ~ Refused(request)
  /\ pc = "read" => ~ moved
  /\ backend = "memory" /\ ~ moved =>
       /\ Settled(Get("source")) =>
            Get("source") = SourceAt("finished", runs.source) /\ rows.source = runs.source.rows
       /\ HasChild => Get("source") = src

Ends(ex, run) ==
  /\ ex.status = run.status /\ ex.validation = run.validation /\ ex.result = {run.result}
  /\ Reasoning(ex) = ReasoningOf(run)

\* The child's record at each place of its driver.
ChildAt(ex) ==
  LET before == ~ Worked /\ Reasoning(ex) = <<>>
      after == Worked /\ Reasoning(ex) = ReasoningOf(runs.child)
  IN  /\ pc \in {"attach", "start", "planning", "plan"} => Reasoning(ex) = <<>>
      /\ pc \in {"attach", "start", "planning"} => ex.status = "created"
      /\ pc = "plan" => ex.status = "planning"
      /\ pc \in {"loop", "write"} => ex.status = "executing" /\ (before \/ after)
      /\ pc = "again" => \/ ex.status = "executing" /\ before
                         \/ ex.status = "validating" /\ after
      /\ pc = "work" => ex.status = "executing" /\ before
      /\ pc = "trace" => ex.status = "executing" /\ Worked /\ Reasoning(ex) = <<>>
      /\ pc = "finish" => after
      /\ pc \notin {"stop", "fail"}

ChildAlone ==
  LET ex == Get("child")
  IN  /\ ChildAt(ex)
      /\ pc \in {"attach", "planning", "plan", "write", "trace", "finish"} => child = ex
      /\ ex.workflow_type = src.workflow_type /\ ex.parent = "source"
      /\ Driven \/ Settled(ex) =>
           ex.input = With(ReplayInput, ProvenanceKey, ProvenanceOf(request))
      /\ Settled(ex) => Worked /\ Ends(ex, runs.child)

AloneInv == Undisturbed /\ HasChild /\ Settled(src) => ChildAlone

ToldInv ==
  Undisturbed =>
    /\ differ \notin {"idle", "done"} \/ report = "answered" => pair.source = src
    /\ differ \notin {"idle", "replay", "done"} \/ report = "answered" =>
         (Settled(pair.replay) => pair.replay = Get("child"))
    /\ Settled(pair.source) /\ Settled(pair.replay) =>
         LET a == runs.source
             b == runs.child
         IN  /\ differ = "plan" => (Silent <=> a.status = b.status)
             /\ differ = "steps" =>
                  (Silent <=> a.status = b.status /\ Len(a.rows.steps) = Len(b.rows.steps))
             /\ differ = "rest" =>
                  (Silent <=> /\ a.status = b.status /\ Paired(a.rows.steps, b.rows.steps, SameStep)
                              /\ SameReasoning(a, b))
             /\ differ = "recheck" \/ report = "answered" => (Silent <=> Alike(a, b))

TruthInv == KeptInv /\ AloneInv /\ ToldInv
=============================================================================
