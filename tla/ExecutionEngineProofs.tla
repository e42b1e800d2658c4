------------------------ MODULE ExecutionEngineProofs ------------------------
(***************************************************************************)
(* Proofs about ExecutionEngine, for any set of cancelling and approving   *)
(* threads, any of the workflows and contexts, and either set of           *)
(* capabilities.                                                           *)
(***************************************************************************)
EXTENDS ExecutionEngine, TLAPS

USE DEF CompletionResult

(***************************************************************************)
(* Lemmas on the operators that build records.                             *)
(***************************************************************************)

\* A move along the lifecycle yields an execution record (MoveTo).
LEMMA MoveToType ==
  ASSUME NEW r \in Execution, NEW s \in ExecutionStatus
  PROVE  MoveTo(r, s) \in Execution
<1>1. <<"execution_status", s>> \in Event
  BY DEF Event
<1>2. QED
  BY <1>1 DEF MoveTo, Execution

\* Appending known rows yields an execution record (_append_timeline).
LEMMA AppendTimelineType ==
  ASSUME NEW r \in Execution, NEW rows \in SUBSET Event
  PROVE  AppendTimeline(r, rows) \in Execution
BY DEF AppendTimeline, Execution

\* cancel_execution yields an execution record.
LEMMA CancelledType ==
  ASSUME NEW r \in Execution
  PROVE  CancelMeta(r) \in Execution /\ Cancelled(r) \in Execution
<1>1. CancelMeta(r) \in Execution
  BY DEF CancelMeta, Execution
<1>2. "cancelled" \in ExecutionStatus
  BY DEF ExecutionStatus
<1>3. MoveTo(CancelMeta(r), "cancelled") \in Execution
  BY <1>1, <1>2, MoveToType
<1>4. [MoveTo(CancelMeta(r), "cancelled") EXCEPT !.result = "cancelled"] \in Execution
  BY <1>3 DEF Execution
<1>5. QED
  BY <1>1, <1>4 DEF Cancelled

\* Closing a record yields an execution record.
LEMMA CloseType ==
  ASSUME NEW r \in Execution, NEW s \in ExecutionStatus,
         NEW res \in {"success", "failed", "awaiting_approval"},
         NEW v \in {"none", "passed", "failed"}, NEW rows \in SUBSET Event
  PROVE  Close(r, s, res, v, rows) \in Execution
<1>1. AppendTimeline(r, rows) \in Execution
  BY AppendTimelineType
<1>2. MoveTo(AppendTimeline(r, rows), s) \in Execution
  BY <1>1, MoveToType
<1>3. QED
  BY <1>2 DEF Close, Execution

\* The items of a step are numbered from 1.
LEMMA WorkItems ==
  ASSUME NEW s
  PROVE  /\ Len(Work(s)) \in Nat
         /\ DOMAIN Work(s) = 1 .. Len(Work(s))
<1>1. \A x, y, z : /\ Len(<<x, y, z>>) = 3 /\ DOMAIN <<x, y, z>> = 1 .. 3
                   /\ Len(<<x, y>>) = 2 /\ DOMAIN <<x, y>> = 1 .. 2
                   /\ Len(<<x>>) = 1 /\ DOMAIN <<x>> = 1 .. 1
                   /\ Len(<<>>) = 0 /\ DOMAIN <<>> = 1 .. 0
  OBVIOUS
<1>2. \/ Work(s) = <<>>
      \/ \E x : Work(s) = <<x>>
      \/ \E x, y : Work(s) = <<x, y>>
      \/ \E x, y, z : Work(s) = <<x, y, z>>
  BY DEF Work, GatherEvidence, RetrieveCostEvidence, CorrelateUsage,
     IncidentReasoning, CostReasoning
<1>3. QED
  BY <1>1, <1>2

\* _run_step appends rows of known types only.
LEMMA StepRowsType ==
  ASSUME NEW s \in StepName, NEW i \in Nat
  PROVE  StepRows(s, i) \in SUBSET Event
<1>1. ASSUME i \in DOMAIN Work(s)
      PROVE  Work(s)[i] \in Tool \cup {"model", "retrieve"}
  BY <1>1 DEF Tool, Work, GatherEvidence, RetrieveCostEvidence, CorrelateUsage,
     IncidentReasoning, CostReasoning
<1>2. CASE i = 0
  BY <1>2 DEF StepRows, Event
<1>3. CASE i # 0 /\ i \in DOMAIN Work(s)
  BY <1>1, <1>3 DEF StepRows, Event
<1>4. CASE i # 0 /\ i \notin DOMAIN Work(s)
  BY <1>4 DEF StepRows, Event
<1>5. QED
  BY <1>2, <1>3, <1>4

\* The validation summary is an outcome or "none".
LEMMA ValidationSummaryType ==
  ASSUME results \in [StepName -> {"none", "recorded", "passed", "failed"}],
         \A s \in ValidationSteps : results[s] # "recorded"
  PROVE  ValidationSummary \in {"none", "passed", "failed"}
<1> DEFINE v == {s \in Listed : s \in ValidationSteps}
<1>1. CASE v = {}
  BY <1>1 DEF ValidationSummary
<1>2. CASE v # {}
  <2>1. (CHOOSE s \in v : TRUE) \in v
    BY <1>2
  <2>2. \A s \in v : results[s] \in {"none", "passed", "failed"}
    BY DEF Listed
  <2>3. ValidationSummary = results[CHOOSE s \in v : TRUE]
    BY <1>2 DEF ValidationSummary
  <2>4. QED
    BY <2>1, <2>2, <2>3
<1>3. QED
  BY <1>1, <1>2

(***************************************************************************)
(* Type correctness.                                                       *)
(***************************************************************************)

\* The driver moves on to a place of its own and every pc stays well typed.
LEMMA DriverGoes ==
  ASSUME PcOK, NEW next \in DriverPc, pc' = [pc EXCEPT ![Driver] = next]
  PROVE  PcOK'
BY ProcessAssumption DEF PcOK, Process

\* The same for a cancelling thread.
LEMMA CancellerGoes ==
  ASSUME PcOK, NEW c \in Cancellers, NEW next \in CancellerPc,
         pc' = [pc EXCEPT ![c] = next]
  PROVE  PcOK'
BY ProcessAssumption DEF PcOK, Process

\* The same for an approving thread.
LEMMA ApproverGoes ==
  ASSUME PcOK, NEW a \in Approvers, NEW next \in ApproverPc,
         pc' = [pc EXCEPT ![a] = next]
  PROVE  PcOK'
BY ProcessAssumption DEF PcOK, Process

\* A process that takes hold of a record keeps the copies well typed.
LEMMA HoldType ==
  ASSUME copy \in [Process -> Execution], NEW p \in Process, NEW r \in Execution,
         NEW next, Hold(p, r, next)
  PROVE  copy' \in [Process -> Execution]
BY DEF Hold

\* update_execution stores a record: exec keeps its type.
LEMMA WriteBackType ==
  ASSUME TypeOK, NEW p \in Process, NEW next, WriteBack(p, next), PcOK'
  PROVE  TypeOK'
BY DEF TypeOK, WriteBack, request, locals

\* A read that only takes hold of a record keeps the types.
LEMMA ReadType ==
  ASSUME TypeOK, NEW p \in Process, NEW r \in Execution, NEW next,
         Hold(p, r, next), UNCHANGED <<store, request, locals>>, PcOK'
  PROVE  TypeOK'
<1>1. copy' \in [Process -> Execution]
  BY HoldType DEF TypeOK
<1>2. QED
  BY <1>1 DEF TypeOK, store, request, locals

\* Every step of the driver keeps the types.
LEMMA DriverType == TypeOK /\ DriverNext => TypeOK'
<1> SUFFICES ASSUME TypeOK, DriverNext PROVE TypeOK'
  OBVIOUS
<1>a. Driver \in Process /\ PcOK /\ exec \in Execution /\ copy[Driver] \in Execution
  BY DEF TypeOK, Process
<1>b. ValidationSummary \in {"none", "passed", "failed"}
  BY ValidationSummaryType DEF TypeOK
<1>c. {"planning", "executing", "validating", "awaiting_approval", "completed",
       "failed"} \subseteq ExecutionStatus
  BY DEF ExecutionStatus
<1>1. CASE EnqueueRead
  <2>1. [exec EXCEPT !.cancel = FALSE] \in Execution
    BY <1>a DEF Execution
  <2>2. PcOK'
    BY <1>1, <1>a, DriverGoes DEF EnqueueRead, Hold, DriverPc
  <2>3. QED
    BY <1>1, <1>a, <2>1, <2>2, ReadType DEF EnqueueRead
<1>2. CASE EnqueueWrite
  BY <1>2, <1>a, DriverGoes, WriteBackType DEF EnqueueWrite, WriteBack, DriverPc
<1>3. CASE WorkerRead
  <2>1. PcOK'
    BY <1>3, <1>a, DriverGoes DEF WorkerRead, Hold, DriverPc
  <2>2. QED
    BY <1>3, <1>a, <2>1, ReadType DEF WorkerRead
<1>4. CASE WorkerWrite
  BY <1>4, <1>a, DriverGoes, WriteBackType DEF WorkerWrite, WriteBack, DriverPc
<1>5. CASE RunExecution
  <2>1. PcOK'
    BY <1>5, <1>a, DriverGoes DEF RunExecution, AfterRunRead, Hold, DriverPc
  <2>2. MoveTo(exec, "planning") \in Execution
    BY <1>a, <1>c, MoveToType
  <2>3. QED
    BY <1>5, <1>a, <2>1, <2>2, ReadType DEF RunExecution
<1>6. CASE EnterPlanning
  BY <1>6, <1>a, DriverGoes, WriteBackType DEF EnterPlanning, WriteBack, DriverPc
<1>7. CASE SavePlan
  <2>1. PcOK'
    BY <1>7, <1>a, DriverGoes DEF SavePlan, Hold, DriverPc
  <2>2. MoveTo(copy[Driver], "executing") \in Execution
    BY <1>a, <1>c, MoveToType
  <2>3. [MoveTo(copy[Driver], "executing") EXCEPT !.plan = TRUE] \in Execution
    BY <2>2 DEF Execution
  <2>4. copy' \in [Process -> Execution]
    BY <1>7, <1>a, <2>3, HoldType DEF SavePlan, TypeOK
  <2>5. steps' \in [StepName -> StepStatus \cup {"absent"}]
    BY <1>7 DEF SavePlan, TypeOK, StepStatus
  <2>6. QED
    BY <1>7, <2>1, <2>4, <2>5 DEF SavePlan, TypeOK, request, locals
<1>8. CASE EnterExecuting
  BY <1>8, <1>a, DriverGoes, WriteBackType DEF EnterExecuting, WriteBack, DriverPc
<1>9. CASE LoopRead
  <2>1. PcOK'
    BY <1>9, <1>a, DriverGoes DEF LoopRead, AfterLoopRead, Hold, DriverPc
  <2>2. MaybeEnterValidating(exec) \in Execution
    BY <1>a, <1>c, MoveToType DEF MaybeEnterValidating
  <2>3. QED
    BY <1>9, <1>a, <2>1, <2>2, ReadType DEF LoopRead
<1>10. CASE LoopWrite
  BY <1>10, <1>a, DriverGoes, WriteBackType DEF LoopWrite, WriteBack, DriverPc
<1>11. CASE Dispatch
  <2>1. PcOK'
    BY <1>11, <1>a, DriverGoes DEF Dispatch, Hold, DriverPc
  <2>2. Close(exec, "completed", "success", ValidationSummary, {}) \in Execution
    BY <1>a, <1>b, <1>c, CloseType
  <2>3. copy' \in [Process -> Execution]
    BY <1>11, <1>a, <2>2, HoldType DEF Dispatch, TypeOK
  <2>4. \A i \in ReadyPlaces : Plan[workflow][i] \in StepName
    BY InputAssumption DEF ReadyPlaces, TypeOK, Plan, Workflow, StepName
  <2>5. cur' \in StepName
    BY <1>11, <2>4 DEF Dispatch, TypeOK
  <2>6. QED
    BY <1>11, <2>1, <2>3, <2>5 DEF Dispatch, TypeOK, store, request
<1>12. CASE DispatchStops
  <2>1. PcOK'
    BY <1>12, <1>a, DriverGoes DEF DispatchStops, Hold, DriverPc
  <2>2. QED
    BY <1>12, <1>a, <2>1, ReadType DEF DispatchStops
<1>13. CASE StepBegin
  <2>1. PcOK'
    BY <1>13, <1>a, DriverGoes DEF StepBegin, DriverPc
  <2>2. QED
    BY <1>13, <2>1 DEF StepBegin, TypeOK, StepStatus, ExecutorVerdict, request
<1>14. CASE AppendRead
  <2>1. PcOK'
    BY <1>14, <1>a, DriverGoes DEF AppendRead, Hold, DriverPc
  <2>2. AppendTimeline(exec, StepRows(cur, item)) \in Execution
    BY <1>a, StepRowsType, AppendTimelineType DEF TypeOK
  <2>3. QED
    BY <1>14, <1>a, <2>1, <2>2, ReadType DEF AppendRead
<1>15. CASE AppendWrite
  BY <1>15, <1>a, DriverGoes, WriteBackType
  DEF AppendWrite, AfterAppend, WriteBack, DriverPc
<1>16. CASE StepWork
  <2>1. PcOK'
    BY <1>16, <1>a, DriverGoes DEF StepWork, DriverPc
  <2>2. QED
    BY <1>16, <2>1 DEF StepWork, TypeOK, ModelVerdicts, request
<1>17. CASE SaveStepResult
  <2>1. PcOK'
    BY <1>17, <1>a, DriverGoes DEF SaveStepResult, DriverPc
  <2>2. QED
    BY <1>17, <2>1 DEF SaveStepResult, TypeOK, request, locals
<1>18. CASE StepSucceed
  <2>1. PcOK'
    BY <1>18, <1>a, DriverGoes DEF StepSucceed, DriverPc
  <2>2. Len(Work(cur)) + 1 \in Nat
    BY WorkItems
  <2>3. QED
    BY <1>18, <2>1, <2>2 DEF StepSucceed, TypeOK, StepStatus, request
<1>19. CASE Propose
  <2>1. PcOK'
    BY <1>19, <1>a, DriverGoes DEF Propose, Hold, DriverPc
  <2>2. AppendTimeline(copy[Driver], {<<"action_proposed", "proposal">>}) \in Execution
    BY <1>a, AppendTimelineType DEF Event
  <2>3. copy' \in [Process -> Execution]
    BY <1>19, <1>a, <2>2, HoldType DEF Propose, TypeOK
  <2>4. QED
    BY <1>19, <2>1, <2>3 DEF Propose, TypeOK, ProposalStatus, request, locals
<1>20. CASE EvaluatePolicy
  <2>1. PcOK'
    BY <1>20, <1>a, DriverGoes DEF EvaluatePolicy, Hold, DriverPc
  <2>2. AppendTimeline(copy[Driver], {<<"policy_evaluated", "proposal">>}) \in Execution
    BY <1>a, AppendTimelineType DEF Event
  <2>3. copy' \in [Process -> Execution]
    BY <1>20, <1>a, <2>2, HoldType DEF EvaluatePolicy, TypeOK
  <2>4. QED
    BY <1>20, <2>1, <2>3
    DEF EvaluatePolicy, TypeOK, Evaluate, Decision, request, locals
<1>21. CASE SettleProposal
  <2>1. PcOK'
    BY <1>21, <1>a, DriverGoes
    DEF SettleProposal, SettleDenied, SettleAllowed, SettleConditional, Hold, DriverPc
  <2>2. /\ {<<"governed_outcome", "policy_denied">>} \in SUBSET Event
        /\ {<<"governed_outcome", "policy_allow">>} \in SUBSET Event
        /\ {<<"approval_required", "proposal">>} \in SUBSET Event
    BY DEF Event
  <2>3. copy' \in [Process -> Execution]
    BY <1>21, <1>a, <1>b, <1>c, <2>2, CloseType, HoldType
    DEF SettleProposal, SettleDenied, SettleAllowed, SettleConditional, TypeOK
  <2>4. QED
    BY <1>21, <2>1, <2>3
    DEF SettleProposal, SettleDenied, SettleAllowed, SettleConditional, TypeOK,
        ProposalStatus, request, locals
<1>22. CASE FinalWrite
  BY <1>22, <1>a, DriverGoes, WriteBackType DEF FinalWrite, WriteBack, DriverPc
<1>23. CASE DriverCancels
  <2>1. PcOK'
    BY <1>23, <1>a, DriverGoes DEF DriverCancels, Hold, DriverPc
  <2>2. QED
    BY <1>23, <1>a, <2>1, CancelledType, ReadType DEF DriverCancels
<1>24. CASE DriverFails
  <2>1. PcOK'
    BY <1>24, <1>a, DriverGoes DEF DriverFails, Hold, DriverPc
  <2>2. MoveTo(exec, "failed") \in Execution
    BY <1>a, <1>c, MoveToType
  <2>3. [MoveTo(exec, "failed") EXCEPT !.result = "failed"] \in Execution
    BY <2>2 DEF Execution
  <2>4. QED
    BY <1>24, <1>a, <2>1, <2>3, ReadType DEF DriverFails
<1>25. QED
  BY <1>1, <1>2, <1>3, <1>4, <1>5, <1>6, <1>7, <1>8, <1>9, <1>10, <1>11, <1>12,
     <1>13, <1>14, <1>15, <1>16, <1>17, <1>18, <1>19, <1>20, <1>21, <1>22, <1>23,
     <1>24
  DEF DriverNext

\* Every step of a cancelling thread keeps the types.
LEMMA CancellerType ==
  ASSUME TypeOK, NEW c \in Cancellers, CancellerNext(c)
  PROVE  TypeOK'
<1>a. c \in Process /\ PcOK /\ exec \in Execution
  BY DEF TypeOK, Process
<1>1. CASE RequestCancellationRead(c)
  <2>1. PcOK'
    BY <1>1, <1>a, CancellerGoes DEF RequestCancellationRead, Hold, CancellerPc
  <2>2. QED
    BY <1>1, <1>a, <2>1, CancelledType, ReadType DEF RequestCancellationRead
<1>2. CASE RequestCancellationWrite(c)
  BY <1>2, <1>a, CancellerGoes, WriteBackType
  DEF RequestCancellationWrite, AfterRequest, WriteBack, CancellerPc
<1>3. CASE CancelExecutionRead(c)
  <2>1. PcOK'
    BY <1>3, <1>a, CancellerGoes DEF CancelExecutionRead, Hold, CancellerPc
  <2>2. QED
    BY <1>3, <1>a, <2>1, CancelledType, ReadType DEF CancelExecutionRead
<1>4. CASE CancelExecutionWrite(c)
  BY <1>4, <1>a, CancellerGoes, WriteBackType
  DEF CancelExecutionWrite, WriteBack, CancellerPc
<1>5. QED
  BY <1>1, <1>2, <1>3, <1>4 DEF CancellerNext

\* Every step of an approving thread keeps the types.
LEMMA ApproverType ==
  ASSUME TypeOK, NEW a \in Approvers, ApproverNext(a)
  PROVE  TypeOK'
<1>a. a \in Process /\ PcOK /\ exec \in Execution /\ copy[a] \in Execution
  BY DEF TypeOK, Process
<1>b. ValidationSummary \in {"none", "passed", "failed"}
  BY ValidationSummaryType DEF TypeOK
<1>c. {"completed", "failed"} \subseteq ExecutionStatus
  BY DEF ExecutionStatus
<1>d. /\ {<<"approval_received", a>>} \in SUBSET Event
      /\ {<<"governed_outcome", "approval_rejected">>} \in SUBSET Event
      /\ {<<"governed_outcome", "approval_granted">>} \in SUBSET Event
  BY DEF Event
<1>1. CASE SubmitApproval(a)
  <2>1. PcOK'
    BY <1>1, <1>a, ApproverGoes DEF SubmitApproval, Hold, ApproverPc
  <2>2. QED
    BY <1>1, <1>a, <2>1, ReadType DEF SubmitApproval
<1>2. CASE SubmitApprovalRefused(a)
  <2>1. PcOK'
    BY <1>2, <1>a, ApproverGoes DEF SubmitApprovalRefused, ApproverPc
  <2>2. QED
    BY <1>2, <2>1 DEF SubmitApprovalRefused, TypeOK, store, request, locals
<1>3. CASE SaveApproval(a)
  <2>1. PcOK'
    BY <1>3, <1>a, ApproverGoes DEF SaveApproval, Hold, ApproverPc
  <2>2. AppendTimeline(copy[a], {<<"approval_received", a>>}) \in Execution
    BY <1>a, <1>d, AppendTimelineType
  <2>3. copy' \in [Process -> Execution]
    BY <1>3, <1>a, <2>2, HoldType DEF SaveApproval, TypeOK
  <2>4. QED
    BY <1>3, <2>1, <2>3 DEF SaveApproval, TypeOK, request, locals
<1>4. CASE ResolveRejected(a)
  <2>1. PcOK'
    BY <1>4, <1>a, ApproverGoes DEF ResolveRejected, Hold, ApproverPc
  <2>2. copy' \in [Process -> Execution]
    BY <1>4, <1>a, <1>b, <1>c, <1>d, CloseType, HoldType DEF ResolveRejected, TypeOK
  <2>3. QED
    BY <1>4, <2>1, <2>2 DEF ResolveRejected, TypeOK, ProposalStatus, request, locals
<1>5. CASE ResolveGranted(a)
  <2>1. PcOK'
    BY <1>5, <1>a, ApproverGoes DEF ResolveGranted, Hold, ApproverPc
  <2>2. copy' \in [Process -> Execution]
    BY <1>5, <1>a, <1>b, <1>c, <1>d, CloseType, HoldType DEF ResolveGranted, TypeOK
  <2>3. QED
    BY <1>5, <2>1, <2>2 DEF ResolveGranted, TypeOK, ProposalStatus, request, locals
<1>6. CASE ApprovalWrite(a)
  BY <1>6, <1>a, ApproverGoes, WriteBackType DEF ApprovalWrite, WriteBack, ApproverPc
<1>7. QED
  BY <1>1, <1>2, <1>3, <1>4, <1>5, <1>6 DEF ApproverNext, ApproverContinues

\* create_execution makes a well-typed record.
LEMMA NewExecutionType == NewExecution \in Execution
BY DEF NewExecution, Execution, ExecutionStatus

\* The types hold initially.
LEMMA InitType == Init => TypeOK
<1> SUFFICES ASSUME Init PROVE TypeOK
  OBVIOUS
<1>1. PcOK
  BY ProcessAssumption DEF Init, PcOK, Process, DriverPc, CancellerPc, ApproverPc
<1>2. QED
  BY <1>1, NewExecutionType DEF Init, TypeOK, StepName, ValidationSteps, ExecutorVerdict

\* Every step keeps the types.
LEMMA NextType == TypeOK /\ [Next]_vars => TypeOK'
<1> SUFFICES ASSUME TypeOK, [Next]_vars PROVE TypeOK'
  OBVIOUS
<1>1. CASE UNCHANGED vars
  BY <1>1 DEF vars, store, request, locals, TypeOK, PcOK
<1>2. CASE Finished
  BY <1>2, <1>1 DEF Finished
<1>3. QED
  BY <1>1, <1>2, DriverType, CancellerType, ApproverType DEF Next

\* In every behaviour of the engine, for any number of concurrent cancel and
\* approval requests, the stored record and all copies of it keep their types.
THEOREM TypeCorrect == Spec => []TypeOK
BY InitType, NextType, PTL DEF Spec

(***************************************************************************)
(* Soundness of records.                                                   *)
(***************************************************************************)

\* What Sound(r) depends on besides r.
Rows == <<steps, results, proposal, decision, approvals, workflow>>

\* A cancelled record with a cancelled result is sound.
LEMMA SoundCancelled ==
  ASSUME NEW r, r.status = "cancelled", r.result = "cancelled",
         <<"execution_status", "cancelled">> \in r.timeline
  PROVE  Sound(r)
BY DEF Sound, Coherent

\* Flagging and cancelling keep a record sound (request_cancellation,
\* cancel_execution).
LEMMA SoundCancel ==
  ASSUME NEW r \in Execution, Sound(r)
  PROVE  Sound(CancelMeta(r)) /\ Sound(Cancelled(r))
<1>1. Sound(CancelMeta(r))
  BY DEF Sound, Coherent, FullyValidated, CancelMeta, Execution
<1>2. CancelMeta(r) \in Execution
  BY CancelledType
<1>3. CASE ValidExecutionTransition(r.status, "cancelled")
  <2> DEFINE c == [MoveTo(CancelMeta(r), "cancelled") EXCEPT !.result = "cancelled"]
  <2>1. /\ c.status = "cancelled"
        /\ c.result = "cancelled"
        /\ <<"execution_status", "cancelled">> \in c.timeline
    BY <1>2 DEF MoveTo, Execution
  <2>2. Sound(c)
    <3> HIDE DEF c
    <3> QED BY <2>1, SoundCancelled
  <2>3. QED
    BY <1>1, <1>3, <2>2 DEF Cancelled
<1>4. CASE ~ ValidExecutionTransition(r.status, "cancelled")
  BY <1>1, <1>4 DEF Cancelled
<1>5. QED
  BY <1>1, <1>3, <1>4

\* Appending rows keeps a record sound (_append_timeline).
LEMMA SoundAppend ==
  ASSUME NEW r \in Execution, NEW S \in SUBSET Event, Sound(r)
  PROVE  Sound(AppendTimeline(r, S))
BY DEF Sound, Coherent, FullyValidated, AppendTimeline, Execution

\* A live record moves on to planning, executing or validating soundly.
LEMMA SoundMove ==
  ASSUME NEW r \in Execution, Sound(r),
         r.status \in {"created", "planning", "executing"},
         NEW s \in {"planning", "executing", "validating"},
         s # "planning" => Planned
  PROVE  Sound(MoveTo(r, s))
BY DEF Sound, Coherent, MoveTo, Execution

\* A failed record is sound.
LEMMA SoundFail ==
  ASSUME NEW r \in Execution, NEW S \in SUBSET Event, NEW v
  PROVE  /\ Sound([MoveTo(r, "failed") EXCEPT !.result = "failed"])
         /\ Sound(Close(r, "failed", "failed", v, S))
BY DEF Sound, Coherent, MoveTo, Close, AppendTimeline, Execution

\* A thread that takes hold of a sound record while the rows stand still keeps
\* all records sound.
LEMMA HoldSound ==
  ASSUME TypeOK, AllSound, NEW p \in Process, NEW r \in Execution, NEW next,
         Sound(r), Hold(p, r, next), exec' = exec, Rows' = Rows
  PROVE  AllSound'
<1>1. copy' = [copy EXCEPT ![p] = r] /\ copy \in [Process -> Execution]
  BY DEF Hold, TypeOK
<1>2. Sound(exec)'
  BY DEF AllSound, Sound, Planned, Approved, FullyValidated, Coherent, Rows
<1>3. ASSUME NEW q \in Process PROVE Sound(copy[q])'
  <2>1. CASE q = p
    BY <1>1, <2>1 DEF Sound, Planned, Approved, FullyValidated, Coherent, Rows
  <2>2. CASE q # p
    BY <1>1, <2>2 DEF AllSound, Sound, Planned, Approved, FullyValidated, Coherent, Rows
  <2>3. QED
    BY <2>1, <2>2
<1>4. QED
  BY <1>2, <1>3 DEF AllSound

\* A thread that writes its record back keeps all records sound, however stale
\* its copy is (update_execution).
LEMMA WriteBackSound ==
  ASSUME TypeOK, AllSound, NEW p \in Process, NEW next, WriteBack(p, next)
  PROVE  AllSound'
<1>1. exec' = copy[p] /\ copy' = copy /\ Rows' = Rows
  BY DEF WriteBack, Rows, request
<1>2. Sound(exec)'
  <2>1. Coherent(exec)' /\ (FullyValidated(exec)' <=> FullyValidated(copy[p]))
    BY <1>1 DEF AllSound, Sound, FullyValidated, Coherent, Rows
  <2>2. Sound(copy[p])
    BY DEF AllSound
  <2>3. QED
    BY <1>1, <2>1, <2>2 DEF Sound, Planned, Approved, Rows
<1>3. ASSUME NEW q \in Process PROVE Sound(copy[q])'
  <2>1. (Coherent(copy[q])' <=> Coherent(copy[q]))
        /\ (FullyValidated(copy[q])' <=> FullyValidated(copy[q]))
    BY <1>1 DEF FullyValidated, Coherent, Rows
  <2>2. Sound(copy[q])
    BY DEF AllSound
  <2>3. QED
    BY <1>1, <2>1, <2>2 DEF Sound, Planned, Approved, Rows
<1>4. QED
  BY <1>2, <1>3 DEF AllSound


(***************************************************************************)
(* Rows that grow: what has succeeded, been decided or been approved stays.*)
(***************************************************************************)
Resolvable == {"awaiting_approval", "approved", "rejected"}

Grows ==
  /\ workflow' = workflow
  /\ \A s \in StepName : steps[s] # "absent" => steps'[s] # "absent"
  /\ \A s \in StepName : steps[s] = "succeeded" =>
       steps'[s] = "succeeded" /\ results'[s] = results[s]
  /\ decision # "none" => decision' = decision
  /\ approvals \subseteq approvals'
  /\ proposal \in Resolvable => proposal' \in Resolvable

\* Every plan consists of known steps and has a validation step.
LEMMA PlanFacts ==
  ASSUME NEW w \in Workflow
  PROVE  /\ PlannedSteps(w) \subseteq StepName
         /\ PlannedSteps(w) \cap ValidationSteps # {}
<1>1. PlannedSteps(w) \subseteq StepName
  BY DEF PlannedSteps, Plan, Workflow, StepName
<1>2. CASE w = "incident_triage"
  <2>1. 3 \in DOMAIN Plan[w] /\ Plan[w][3] = "validate_incident"
    BY <1>2 DEF Plan
  <2>2. QED
    BY <1>1, <2>1 DEF PlannedSteps, ValidationSteps
<1>3. CASE w = "cost_attribution"
  <2>1. 4 \in DOMAIN Plan[w] /\ Plan[w][4] = "validate_cost_attribution"
    BY <1>3 DEF Plan
  <2>2. QED
    BY <1>1, <2>1 DEF PlannedSteps, ValidationSteps
<1>4. CASE w = "default"
  <2>1. 2 \in DOMAIN Plan[w] /\ Plan[w][2] = "validation"
    BY <1>4 DEF Plan
  <2>2. QED
    BY <1>1, <2>1 DEF PlannedSteps, ValidationSteps
<1>5. QED
  BY <1>1, <1>2, <1>3, <1>4 DEF Workflow

\* Growing rows keep the stored record sound.
LEMMA GrowsExec ==
  ASSUME TypeOK, AllSound, Grows, exec' = exec
  PROVE  Sound(exec)'
<1>1. PlannedSteps(workflow) \subseteq StepName
  BY PlanFacts, InputAssumption DEF TypeOK
<1>2. Sound(exec)
  BY DEF AllSound
<1>3. Planned => Planned'
  BY <1>1 DEF Grows, Planned
<1>4. FullyValidated(exec) => FullyValidated(exec)'
  BY <1>1 DEF Grows, FullyValidated
<1>5. Approved => Approved'
  BY DEF Grows, Approved
<1>6. QED
  BY <1>2, <1>3, <1>4, <1>5 DEF Sound, Coherent, Grows, Resolvable

\* Growing rows keep a copy that is not replaced sound.
LEMMA GrowsCopy ==
  ASSUME TypeOK, AllSound, Grows, NEW q \in Process, copy'[q] = copy[q]
  PROVE  Sound(copy[q])'
<1>1. PlannedSteps(workflow) \subseteq StepName
  BY PlanFacts, InputAssumption DEF TypeOK
<1>2. Sound(copy[q])
  BY DEF AllSound
<1>3. Planned => Planned'
  BY <1>1 DEF Grows, Planned
<1>4. FullyValidated(copy[q]) => FullyValidated(copy[q])'
  BY <1>1 DEF Grows, FullyValidated
<1>5. Approved => Approved'
  BY DEF Grows, Approved
<1>6. QED
  BY <1>2, <1>3, <1>4, <1>5 DEF Sound, Coherent, Grows, Resolvable

\* Growing rows keep all records sound when the one copy replaced is sound.
LEMMA GrowsSound ==
  ASSUME TypeOK, AllSound, Grows, exec' = exec, NEW p \in Process,
         \A q \in Process \ {p} : copy'[q] = copy[q], Sound(copy[p])'
  PROVE  AllSound'
<1>1. ASSUME NEW q \in Process PROVE Sound(copy[q])'
  BY GrowsCopy
<1>2. QED
  BY <1>1, GrowsExec DEF AllSound

\* Rows that do not change grow.
LEMMA StillGrows == Rows' = Rows => Grows
BY DEF Rows, Grows


(***************************************************************************)
(* Frames: what a step of another thread leaves of DriverInv, ApproverInv. *)
(***************************************************************************)

\* A step that leaves the driver, its rows and its registers alone keeps
\* DriverInv; the proposal may change once it is settled.
LEMMA DriverFrame ==
  ASSUME DriverInv, pc'[Driver] = pc[Driver], copy'[Driver] = copy[Driver],
         UNCHANGED <<steps, results, decision, workflow, context, cur>>,
         proposal' = proposal \/ proposal \notin {"none", "proposed"}
  PROVE  DriverInv'
BY DEF DriverInv, Planned

\* A step that leaves the approvers alone and deletes no approval keeps
\* ApproverInv.
LEMMA ApproverFrame ==
  ASSUME ApproverInv, approvals \subseteq approvals',
         \A a \in Approvers : pc'[a] = pc[a] /\ copy'[a] = copy[a]
  PROVE  ApproverInv'
BY DEF ApproverInv

\* Every step of a cancelling thread keeps the invariant.
LEMMA CancellerStep ==
  ASSUME IInv, NEW c \in Cancellers, CancellerNext(c)
  PROVE  IInv'
<1>a. /\ c \in Process /\ c # Driver /\ c \notin Approvers
      /\ TypeOK /\ AllSound /\ DriverInv /\ ApproverInv
      /\ exec \in Execution /\ Sound(exec) /\ Driver \in Process
      /\ pc \in [Process -> DriverPc \cup CancellerPc \cup ApproverPc]
      /\ copy \in [Process -> Execution]
      /\ \A a \in Approvers : a \in Process
  BY ProcessAssumption DEF IInv, TypeOK, PcOK, Process, AllSound
<1>b. /\ CancelMeta(exec) \in Execution /\ Cancelled(exec) \in Execution
      /\ Sound(CancelMeta(exec)) /\ Sound(Cancelled(exec))
  BY <1>a, CancelledType, SoundCancel
<1>1. TypeOK'
  BY <1>a, CancellerType
<1>2. /\ UNCHANGED <<steps, results, decision, workflow, context, cur, proposal, approvals>>
      /\ \A p \in Process \ {c} : pc'[p] = pc[p] /\ copy'[p] = copy[p]
  BY <1>a DEF CancellerNext, RequestCancellationRead, RequestCancellationWrite,
     CancelExecutionRead, CancelExecutionWrite, Hold, WriteBack, store, request, locals
<1>3. AllSound'
  <2>1. CASE RequestCancellationRead(c)
    BY <2>1, <1>a, <1>b, HoldSound DEF RequestCancellationRead, store, request, Rows
  <2>2. CASE RequestCancellationWrite(c)
    BY <2>2, <1>a, WriteBackSound DEF RequestCancellationWrite
  <2>3. CASE CancelExecutionRead(c)
    BY <2>3, <1>a, <1>b, HoldSound DEF CancelExecutionRead, store, request, Rows
  <2>4. CASE CancelExecutionWrite(c)
    BY <2>4, <1>a, WriteBackSound DEF CancelExecutionWrite
  <2>5. QED
    BY <2>1, <2>2, <2>3, <2>4 DEF CancellerNext
<1>4. DriverInv'
  BY <1>a, <1>2, DriverFrame
<1>5. ApproverInv'
  BY <1>a, <1>2, ApproverFrame
<1>6. QED
  BY <1>1, <1>3, <1>4, <1>5 DEF IInv


\* Once the plan is saved, the validation summary is the outcome its validation
\* step reported (_validation_summary_from_steps).
LEMMA SummaryFact ==
  ASSUME TypeOK, DriverInv, Planned
  PROVE  \E s \in PlannedSteps(workflow) \cap ValidationSteps :
           ValidationSummary = results[s]
<1> DEFINE v == {s \in Listed : s \in ValidationSteps}
<1>1. /\ PlannedSteps(workflow) \subseteq StepName
      /\ PlannedSteps(workflow) \cap ValidationSteps # {}
  BY PlanFacts, InputAssumption DEF TypeOK
<1>2. v # {} /\ v \subseteq PlannedSteps(workflow) \cap ValidationSteps
  BY <1>1 DEF Listed, Planned, DriverInv
<1>3. (CHOOSE s \in v : TRUE) \in v
  BY <1>2
<1>4. ValidationSummary = results[CHOOSE s \in v : TRUE]
  BY <1>2 DEF ValidationSummary
<1>5. QED
  BY <1>2, <1>3, <1>4

\* A record closed with the validation summary of a plan that has run is fully
\* validated.
LEMMA CloseValidated ==
  ASSUME TypeOK, DriverInv, Planned,
         \A s \in PlannedSteps(workflow) : steps[s] = "succeeded",
         NEW r \in Execution, NEW status, NEW result, NEW S
  PROVE  FullyValidated(Close(r, status, result, ValidationSummary, S))
<1>1. PlannedSteps(workflow) \subseteq StepName
  BY PlanFacts, InputAssumption DEF TypeOK
<1>2. \A s \in PlannedSteps(workflow) : results[s] # "none"
  BY <1>1 DEF DriverInv
<1>3. Close(r, status, result, ValidationSummary, S).validation = ValidationSummary
  BY DEF Close, MoveTo, AppendTimeline, Execution
<1>4. QED
  BY <1>2, <1>3, SummaryFact DEF FullyValidated

\* The fields of a closed record.
LEMMA CloseFields ==
  ASSUME NEW r \in Execution, NEW status, NEW result, NEW v, NEW S
  PROVE  /\ Close(r, status, result, v, S).status = status
         /\ Close(r, status, result, v, S).result = result
         /\ <<"execution_status", status>> \in Close(r, status, result, v, S).timeline
BY DEF Close, MoveTo, AppendTimeline, Execution

\* Every step of an approving thread keeps the invariant.
LEMMA ApproverStep ==
  ASSUME IInv, NEW a \in Approvers, ApproverNext(a)
  PROVE  IInv'
<1>a. /\ a \in Process /\ a # Driver
      /\ TypeOK /\ AllSound /\ DriverInv /\ ApproverInv
      /\ exec \in Execution /\ Sound(exec) /\ Driver \in Process
      /\ copy[a] \in Execution /\ Sound(copy[a])
      /\ pc \in [Process -> DriverPc \cup CancellerPc \cup ApproverPc]
      /\ copy \in [Process -> Execution]
      /\ \A b \in Approvers : b \in Process
  BY ProcessAssumption DEF IInv, TypeOK, PcOK, Process, AllSound
<1>1. TypeOK'
  BY <1>a, ApproverType
<1>2. /\ UNCHANGED <<steps, results, decision, workflow, context, cur>>
      /\ \A p \in Process \ {a} : pc'[p] = pc[p] /\ copy'[p] = copy[p]
      /\ approvals \subseteq approvals'
  BY <1>a DEF ApproverNext, ApproverContinues, SubmitApproval, SubmitApprovalRefused,
     SaveApproval, ResolveRejected, ResolveGranted, ApprovalWrite,
     Hold, WriteBack, store, request, locals
<1>3. ASSUME copy[a].status = "awaiting_approval"
      PROVE  /\ proposal \in Resolvable
             /\ decision = "conditional"
             /\ Planned
             /\ \A s \in PlannedSteps(workflow) : steps[s] = "succeeded"
  BY <1>3, <1>a DEF Sound, FullyValidated, Resolvable
<1>4. CASE SubmitApproval(a)
  <2>1. AllSound'
    BY <1>4, <1>a, HoldSound DEF SubmitApproval, store, request, Rows
  <2>2. DriverInv'
    BY <1>4, <1>a, <1>2, DriverFrame DEF SubmitApproval, store
  <2>3. ApproverInv'
    BY <1>4, <1>a, <1>2 DEF SubmitApproval, Hold, store, ApproverInv
  <2>4. QED
    BY <1>1, <2>1, <2>2, <2>3 DEF IInv
<1>5. CASE SubmitApprovalRefused(a)
  <2>1. copy' = copy /\ exec' = exec /\ Rows' = Rows
    BY <1>5 DEF SubmitApprovalRefused, store, request, Rows
  <2>2. AllSound'
    BY <1>a, <2>1, StillGrows, GrowsExec, GrowsCopy DEF AllSound
  <2>3. DriverInv'
    BY <1>5, <1>a, <1>2, DriverFrame DEF SubmitApprovalRefused, store
  <2>4. ApproverInv'
    BY <1>5, <1>a, <1>2 DEF SubmitApprovalRefused, store, ApproverInv
  <2>5. QED
    BY <1>1, <2>2, <2>3, <2>4 DEF IInv
<1>6. CASE SaveApproval(a)
  <2>1. Grows /\ exec' = exec
    BY <1>6, <1>2 DEF SaveApproval, Grows, Resolvable
  <2>2. /\ copy[a].status = "awaiting_approval"
        /\ copy'[a] = AppendTimeline(copy[a], {<<"approval_received", a>>})
        /\ copy'[a].status = "awaiting_approval"
    BY <1>6, <1>a DEF SaveApproval, Hold, ApproverInv, AppendTimeline, Execution
  <2>3. Sound(copy[a])'
    <3>1. FullyValidated(copy[a])'
      BY <1>6, <1>2, <1>a, <2>2
      DEF FullyValidated, Sound, SaveApproval, AppendTimeline, Execution
    <3>2. Coherent(copy[a])'
      BY <1>a, <2>2 DEF Sound, Coherent, AppendTimeline, Execution
    <3>3. Planned'
      BY <1>2, <1>3, <2>2 DEF Planned
    <3>4. QED
      BY <1>6, <1>2, <1>a, <2>2, <3>1, <3>2, <3>3 DEF Sound, SaveApproval
  <2>4. AllSound'
    BY <1>a, <1>2, <2>1, <2>3, GrowsSound
  <2>5. DriverInv'
    BY <1>6, <1>a, <1>2, DriverFrame DEF SaveApproval
  <2>6. ApproverInv'
    BY <1>6, <1>a, <1>2, <2>2 DEF SaveApproval, Hold, ApproverInv
  <2>7. QED
    BY <1>1, <2>4, <2>5, <2>6 DEF IInv
<1>7. CASE ResolveRejected(a)
  <2>1. copy[a].status = "awaiting_approval"
    BY <1>7, <1>a DEF ResolveRejected, ApproverInv
  <2>2. Grows /\ exec' = exec
    BY <1>7, <1>2, <1>3, <2>1 DEF ResolveRejected, Grows, Resolvable
  <2>3. /\ copy'[a].status = "failed" /\ copy'[a].result = "failed"
        /\ <<"execution_status", "failed">> \in copy'[a].timeline
    BY <1>7, <1>a, CloseFields DEF ResolveRejected, Hold
  <2>4. Sound(copy[a])'
    BY <2>3 DEF Sound, Coherent
  <2>5. AllSound'
    BY <1>a, <1>2, <2>2, <2>4, GrowsSound
  <2>6. DriverInv'
    BY <1>a, <1>2, <1>3, <2>1, DriverFrame DEF Resolvable
  <2>7. ApproverInv'
    BY <1>7, <1>a, <1>2 DEF ResolveRejected, Hold, ApproverInv
  <2>8. QED
    BY <1>1, <2>5, <2>6, <2>7 DEF IInv
<1>8. CASE ResolveGranted(a)
  <2> DEFINE c == Close(copy[a], "completed", "success", ValidationSummary,
                        {<<"governed_outcome", "approval_granted">>})
  <2>1. copy[a].status = "awaiting_approval" /\ Approved
    BY <1>8, <1>a DEF ResolveGranted, ApproverInv, Approved
  <2>2. Grows /\ exec' = exec
    BY <1>8, <1>2, <1>3, <2>1 DEF ResolveGranted, Grows, Resolvable
  <2>3. /\ c.status = "completed" /\ c.result = "success"
        /\ <<"execution_status", "completed">> \in c.timeline
    BY <1>a, CloseFields
  <2>4. FullyValidated(c)
    BY <1>a, <1>3, <2>1, CloseValidated
  <2>5. copy'[a] = c
    BY <1>8, <1>a DEF ResolveGranted, Hold
  <2>6. Sound(copy[a])'
    <3> HIDE DEF c
    <3>1. FullyValidated(copy[a])'
      BY <1>2, <2>4, <2>5 DEF FullyValidated
    <3>2. Coherent(copy[a])'
      BY <2>3, <2>5 DEF Coherent
    <3>3. Planned'
      BY <1>2, <1>3, <2>1 DEF Planned
    <3>4. Approved' /\ decision' = "conditional"
      BY <1>2, <1>3, <2>1 DEF Approved
    <3>5. QED
      BY <2>3, <2>5, <3>1, <3>2, <3>3, <3>4 DEF Sound
  <2>7. AllSound'
    BY <1>a, <1>2, <2>2, <2>6, GrowsSound
  <2>8. DriverInv'
    BY <1>a, <1>2, <1>3, <2>1, DriverFrame DEF Resolvable
  <2>9. ApproverInv'
    BY <1>8, <1>a, <1>2 DEF ResolveGranted, Hold, ApproverInv
  <2>10. QED
    BY <1>1, <2>7, <2>8, <2>9 DEF IInv
<1>9. CASE ApprovalWrite(a)
  <2>1. AllSound'
    BY <1>9, <1>a, WriteBackSound DEF ApprovalWrite
  <2>2. DriverInv'
    BY <1>9, <1>a, <1>2, DriverFrame DEF ApprovalWrite, WriteBack
  <2>3. ApproverInv'
    BY <1>9, <1>a, <1>2 DEF ApprovalWrite, WriteBack, ApproverInv
  <2>4. QED
    BY <1>1, <2>1, <2>2, <2>3 DEF IInv
<1>10. QED
  BY <1>4, <1>5, <1>6, <1>7, <1>8, <1>9 DEF ApproverNext, ApproverContinues


(***************************************************************************)
(* The driver's steps.                                                     *)
(***************************************************************************)

\* No step of the driver touches the approvals or an approver.
LEMMA DriverLeavesApprovers ==
  ASSUME TypeOK, DriverNext
  PROVE  /\ approvals' = approvals
         /\ \A p \in Process \ {Driver} : pc'[p] = pc[p] /\ copy'[p] = copy[p]
BY DEF TypeOK, PcOK, Process, DriverNext, EnqueueRead, EnqueueWrite, WorkerRead,
  WorkerWrite, RunExecution, EnterPlanning, SavePlan, EnterExecuting, LoopRead,
  LoopWrite, Dispatch, DispatchStops, StepBegin, AppendRead, AppendWrite, StepWork,
  SaveStepResult, StepSucceed, Propose, EvaluatePolicy, SettleProposal, SettleDenied,
  SettleAllowed, SettleConditional, FinalWrite, DriverCancels, DriverFails, Hold,
  WriteBack, store, request, locals

\* Every step of the driver keeps all records sound.
LEMMA DriverSound ==
  ASSUME IInv, DriverNext
  PROVE  AllSound'
<1>a. /\ TypeOK /\ AllSound /\ DriverInv
      /\ exec \in Execution /\ Sound(exec) /\ Driver \in Process
      /\ copy[Driver] \in Execution /\ Sound(copy[Driver])
      /\ copy \in [Process -> Execution]
  BY DEF IInv, TypeOK, Process, AllSound
<1>b. PlannedSteps(workflow) \subseteq StepName
  BY <1>a, PlanFacts, InputAssumption DEF TypeOK
<1>c. \A q \in Process \ {Driver} : copy'[q] = copy[q]
  BY <1>a, DriverLeavesApprovers
<1>d. ASSUME Grows, exec' = exec, copy' = copy
      PROVE  AllSound'
  BY <1>a, <1>d, GrowsExec, GrowsCopy DEF AllSound
<1>1. CASE EnqueueRead
  <2> DEFINE r == [exec EXCEPT !.cancel = FALSE]
  <2>a. /\ r \in Execution
        /\ r.status = exec.status /\ r.result = exec.result
        /\ r.validation = exec.validation /\ r.timeline = exec.timeline
    BY <1>a DEF Execution
  <2>b. Sound(r)
    <3> HIDE DEF r
    <3>1. Coherent(r) /\ (FullyValidated(exec) => FullyValidated(r))
      BY <1>a, <2>a DEF Sound, Coherent, FullyValidated
    <3>2. QED
      BY <1>a, <2>a, <3>1 DEF Sound
  <2>1. /\ [exec EXCEPT !.cancel = FALSE] \in Execution
        /\ Sound([exec EXCEPT !.cancel = FALSE])
    BY <2>a, <2>b
  <2>2. QED
    BY <1>1, <1>a, <2>1, HoldSound DEF EnqueueRead, store, request, Rows
<1>2. CASE EnqueueWrite \/ WorkerWrite \/ EnterPlanning \/ EnterExecuting
           \/ LoopWrite \/ AppendWrite \/ FinalWrite
  BY <1>2, <1>a, WriteBackSound
  DEF EnqueueWrite, WorkerWrite, EnterPlanning, EnterExecuting, LoopWrite,
      AppendWrite, FinalWrite
<1>3. CASE WorkerRead \/ DispatchStops
  BY <1>3, <1>a, HoldSound DEF WorkerRead, DispatchStops, store, request, Rows
<1>4. CASE RunExecution
  <2>1. exec.status = "created" =>
          Sound(MoveTo(exec, "planning")) /\ MoveTo(exec, "planning") \in Execution
    BY <1>a, SoundMove, MoveToType DEF ExecutionStatus
  <2>2. QED
    BY <1>4, <1>a, <2>1, HoldSound DEF RunExecution, store, request, Rows
<1>5. CASE SavePlan
  <2> DEFINE c == [MoveTo(copy[Driver], "executing") EXCEPT !.plan = TRUE]
  <2>1. Grows /\ exec' = exec /\ Planned'
    BY <1>5, <1>a, <1>b DEF SavePlan, Grows, Planned, DriverInv, BeforePlan, request
  <2>2. copy[Driver].status = "planning"
    BY <1>5, <1>a DEF SavePlan, DriverInv
  <2>3. /\ c.status = "executing" /\ c.result = copy[Driver].result
        /\ <<"execution_status", "executing">> \in c.timeline
    BY <1>a DEF MoveTo, Execution
  <2>4. copy'[Driver] = c
    BY <1>5, <1>a DEF SavePlan, Hold
  <2>5. Sound(copy[Driver])'
    <3> HIDE DEF c
    <3> QED BY <1>a, <2>1, <2>2, <2>3, <2>4 DEF Sound, Coherent
  <2>6. QED
    BY <1>a, <1>c, <2>1, <2>5, GrowsSound
<1>6. CASE LoopRead
  <2>1. EntersValidating(exec) =>
          Sound(MoveTo(exec, "validating")) /\ MoveTo(exec, "validating") \in Execution
    <3>1. EntersValidating(exec) => exec.status = "executing" /\ Planned
      BY <1>a DEF EntersValidating, Sound
    <3>2. QED
      BY <1>a, <3>1, SoundMove, MoveToType DEF ExecutionStatus
  <2>2. QED
    BY <1>6, <1>a, <2>1, HoldSound
    DEF LoopRead, MaybeEnterValidating, store, request, Rows
<1>7. CASE Dispatch
  <2> DEFINE c == Close(exec, "completed", "success", ValidationSummary, {})
  <2>1. ASSUME AllSucceeded, exec.status = "validating", workflow # "incident_triage"
        PROVE  Sound(c)
    <3>1. Planned
      BY <1>a, <2>1 DEF Sound
    <3>2. \A s \in PlannedSteps(workflow) : steps[s] = "succeeded"
      BY <1>b, <2>1, <3>1 DEF AllSucceeded, Listed, Planned
    <3>3. FullyValidated(c)
      BY <1>a, <3>1, <3>2, CloseValidated
    <3>4. /\ c.status = "completed" /\ c.result = "success"
          /\ <<"execution_status", "completed">> \in c.timeline
      BY <1>a, CloseFields
    <3> HIDE DEF c
    <3>5. QED
      BY <2>1, <3>1, <3>3, <3>4 DEF Sound, Coherent
  <2>2. c \in Execution
    BY <1>a, CloseType, ValidationSummaryType DEF TypeOK, ExecutionStatus
  <2> HIDE DEF c
  <2>3. \/ \E next : Hold(Driver, exec, next)
        \/ Hold(Driver, c, "final_write") /\ Sound(c)
    BY <1>7, <2>1 DEF Dispatch, c
  <2>4. exec' = exec /\ Rows' = Rows
    BY <1>7 DEF Dispatch, store, request, Rows
  <2>5. QED
    BY <1>a, <2>2, <2>3, <2>4, HoldSound
<1>8. CASE StepBegin
  <2>1. Grows /\ exec' = exec /\ copy' = copy
    BY <1>8, <1>a
    DEF StepBegin, Grows, TypeOK, ValidStepTransition, StepTerminal, StepAllowed, request
  <2>2. QED
    BY <1>d, <2>1
<1>9. CASE AppendRead
  <2>1. /\ AppendTimeline(exec, StepRows(cur, item)) \in Execution
        /\ Sound(AppendTimeline(exec, StepRows(cur, item)))
    BY <1>a, StepRowsType, AppendTimelineType, SoundAppend DEF TypeOK
  <2>2. QED
    BY <1>9, <1>a, <2>1, HoldSound DEF AppendRead, store, request, Rows
<1>10. CASE StepWork
  <2>1. Grows /\ exec' = exec /\ copy' = copy
    BY <1>10 DEF StepWork, Grows, request
  <2>2. QED
    BY <1>d, <2>1
<1>11. CASE SaveStepResult
  <2>1. Grows /\ exec' = exec /\ copy' = copy
    BY <1>11, <1>a DEF SaveStepResult, Grows, TypeOK, request
  <2>2. QED
    BY <1>d, <2>1
<1>12. CASE StepSucceed
  <2>1. Grows /\ exec' = exec /\ copy' = copy
    BY <1>12, <1>a DEF StepSucceed, Grows, TypeOK, request
  <2>2. QED
    BY <1>d, <2>1
<1>13. CASE Propose \/ EvaluatePolicy
  <2>1. Grows /\ exec' = exec
    BY <1>13, <1>a
    DEF Propose, EvaluatePolicy, Grows, DriverInv, BeforePlan, InLoop, Resolvable, request
  <2>2. /\ copy[Driver].status = "validating"
        /\ copy'[Driver].status = "validating"
        /\ copy'[Driver].result = copy[Driver].result
        /\ copy[Driver].timeline \subseteq copy'[Driver].timeline
    BY <1>13, <1>a
    DEF Propose, EvaluatePolicy, Hold, DriverInv, InGovernance, AppendTimeline, Execution
  <2>3. Planned'
    BY <1>13, <1>a
    DEF Propose, EvaluatePolicy, DriverInv, InGovernance, Planned, request
  <2>4. Sound(copy[Driver])'
    BY <1>a, <2>2, <2>3 DEF Sound, Coherent
  <2>5. QED
    BY <1>a, <1>c, <2>1, <2>4, GrowsSound
<1>14. CASE SettleProposal
  <2> DEFINE c(status, result, S) ==
        Close(copy[Driver], status, result, ValidationSummary, S)
  <2>1. /\ workflow = "incident_triage" /\ Planned /\ proposal = "proposed"
        /\ \A s \in PlannedSteps(workflow) : steps[s] = "succeeded"
    BY <1>14, <1>a DEF SettleProposal, DriverInv, InGovernance
  <2>2. UNCHANGED <<exec, steps, results, decision, approvals, workflow>>
    BY <1>14 DEF SettleProposal, request
  <2>3. Grows
    BY <2>1, <2>2 DEF Grows, Resolvable
  <2>4. Planned'
    BY <2>1, <2>2 DEF Planned
  <2>5. PICK status, result, S :
          /\ copy'[Driver] = c(status, result, S)
          /\ \/ status = "failed" /\ result = "failed"
             \/ status = "completed" /\ result = "success" /\ decision = "allow"
             \/ /\ status = "awaiting_approval" /\ result = "awaiting_approval"
                /\ decision = "conditional" /\ proposal' = "awaiting_approval"
    BY <1>14, <1>a
    DEF SettleProposal, SettleDenied, SettleAllowed, SettleConditional, Hold
  <2>6. FullyValidated(c(status, result, S))
    BY <1>a, <2>1, CloseValidated
  <2>7. FullyValidated(copy[Driver])'
    <3> HIDE DEF c
    <3> QED BY <2>2, <2>5, <2>6 DEF FullyValidated
  <2>8. /\ copy'[Driver].status = status /\ copy'[Driver].result = result
        /\ <<"execution_status", status>> \in copy'[Driver].timeline
    BY <1>a, <2>5, CloseFields
  <2>9. Sound(copy[Driver])'
    <3> HIDE DEF c
    <3>1. Coherent(copy[Driver])'
      BY <2>5, <2>8 DEF Coherent
    <3>2. QED
      BY <2>1, <2>2, <2>4, <2>5, <2>7, <2>8, <3>1 DEF Sound
  <2>10. QED
    BY <1>a, <1>c, <2>2, <2>3, <2>9, GrowsSound
<1>15. CASE DriverCancels
  BY <1>15, <1>a, CancelledType, SoundCancel, HoldSound
  DEF DriverCancels, store, request, Rows
<1>16. CASE DriverFails
  <2> DEFINE c == [MoveTo(exec, "failed") EXCEPT !.result = "failed"]
  <2>1. c \in Execution
    BY <1>a, MoveToType DEF ExecutionStatus, Execution
  <2>2. Sound(c)
    BY <1>a, SoundFail
  <2>3. \/ \E next : Hold(Driver, exec, next)
        \/ \E next : Hold(Driver, c, next)
    BY <1>16 DEF DriverFails
  <2> HIDE DEF c
  <2>4. QED
    BY <1>16, <1>a, <2>1, <2>2, <2>3, HoldSound DEF DriverFails, store, request, Rows
<1>17. QED
  BY <1>1, <1>2, <1>3, <1>4, <1>5, <1>6, <1>7, <1>8, <1>9, <1>10, <1>11, <1>12,
     <1>13, <1>14, <1>15, <1>16
  DEF DriverNext


\* Every step of the driver keeps DriverInv.
LEMMA DriverKeepsInv ==
  ASSUME IInv, DriverNext
  PROVE  DriverInv'
<1>a. /\ TypeOK /\ DriverInv /\ Sound(exec) /\ Driver \in Process
      /\ exec \in Execution /\ copy[Driver] \in Execution
      /\ pc \in [Process -> DriverPc \cup CancellerPc \cup ApproverPc]
      /\ copy \in [Process -> Execution]
      /\ steps \in [StepName -> StepStatus \cup {"absent"}]
      /\ results \in [StepName -> {"none", "recorded", "passed", "failed"}]
      /\ cur \in StepName
  BY DEF IInv, TypeOK, PcOK, Process, AllSound
<1>b. PlannedSteps(workflow) \subseteq StepName
  BY <1>a, PlanFacts, InputAssumption DEF TypeOK
<1>1. CASE EnqueueRead \/ EnqueueWrite \/ WorkerRead \/ WorkerWrite
  BY <1>1, <1>a
  DEF EnqueueRead, EnqueueWrite, WorkerRead, WorkerWrite, Hold, WriteBack, store,
      request, locals, DriverInv, Planned, BeforePlan, InLoop, InGovernance
<1>2. CASE RunExecution
  <2>1. exec.status \in {"executing", "validating", "awaiting_approval"} => Planned
    BY <1>a DEF Sound
  <2>2. /\ AfterRunRead(exec.status) \in {"done", "planning_write", "plan", "loop"}
        /\ AfterRunRead(exec.status) = "planning_write" => exec.status = "created"
        /\ AfterRunRead(exec.status) = "plan" => exec.status = "planning"
        /\ AfterRunRead(exec.status) = "loop" =>
             exec.status \in {"executing", "validating", "awaiting_approval"}
    BY <1>a DEF AfterRunRead, ExecutionTerminal, ExecutionStatus, Execution
  <2>3. /\ pc'[Driver] = AfterRunRead(exec.status)
        /\ copy'[Driver] = IF exec.status = "created" THEN MoveTo(exec, "planning") ELSE exec
    BY <1>2, <1>a DEF RunExecution, Hold
  <2>4. pc'[Driver] \in {"planning_write", "plan"} => copy'[Driver].status = "planning"
    BY <1>a, <2>2, <2>3 DEF MoveTo, Execution
  <2>5. UNCHANGED <<store, request, locals>> /\ pc[Driver] = "run"
    BY <1>2 DEF RunExecution
  <2>6. QED
    BY <1>a, <2>1, <2>2, <2>3, <2>4, <2>5
    DEF store, request, locals, DriverInv, Planned, BeforePlan, InLoop, InGovernance
<1>3. CASE EnterPlanning \/ EnterExecuting \/ LoopWrite \/ FinalWrite
  BY <1>3, <1>a
  DEF EnterPlanning, EnterExecuting, LoopWrite, FinalWrite, WriteBack, request, locals,
      DriverInv, Planned, BeforePlan, InLoop, InGovernance
<1>4. CASE SavePlan
  <2>1. pc'[Driver] = "executing_write"
    BY <1>4, <1>a DEF SavePlan, Hold
  <2>2. /\ \A s \in StepName : steps[s] = "absent"
        /\ proposal = "none" /\ decision = "none"
    BY <1>4, <1>a DEF SavePlan, DriverInv, BeforePlan
  <2>3. /\ \A s \in StepName :
             steps'[s] = IF s \in PlannedSteps(workflow) THEN "pending" ELSE "absent"
        /\ UNCHANGED <<proposal, decision, workflow, context, results, cur>>
    BY <1>4, <2>2 DEF SavePlan, request, locals
  <2>4. QED
    BY <1>a, <1>b, <2>1, <2>2, <2>3
    DEF DriverInv, Planned, BeforePlan, InLoop, InGovernance
<1>5. CASE LoopRead
  BY <1>5, <1>a
  DEF LoopRead, AfterLoopRead, Hold, store, request, locals,
      DriverInv, Planned, BeforePlan, InLoop, InGovernance
<1>6. CASE Dispatch
  <2>1. pc[Driver] = "dispatch" /\ UNCHANGED <<store, request>>
    BY <1>6 DEF Dispatch
  <2>2. Planned /\ proposal = "none" /\ decision = "none"
    BY <1>a, <2>1 DEF DriverInv, InLoop
  <2>3. \/ pc'[Driver] \in {"step_begin", "final_write", "fail"}
        \/ /\ pc'[Driver] = "propose" /\ workflow = "incident_triage"
           /\ AllSucceeded /\ copy'[Driver].status = "validating"
    BY <1>6, <1>a DEF Dispatch, Hold
  <2>4. AllSucceeded => \A s \in PlannedSteps(workflow) : steps[s] = "succeeded"
    BY <1>b, <2>2 DEF AllSucceeded, Listed, Planned
  <2>5. QED
    BY <1>a, <2>1, <2>2, <2>3, <2>4
    DEF store, request, DriverInv, Planned, BeforePlan, InLoop, InGovernance
<1>7. CASE DispatchStops \/ DriverCancels \/ DriverFails
  <2>1. pc'[Driver] \in {"done", "final_write"} /\ UNCHANGED <<store, request, locals>>
    BY <1>7, <1>a DEF DispatchStops, DriverCancels, DriverFails, Hold
  <2>2. QED
    BY <1>a, <2>1
    DEF store, request, locals, DriverInv, Planned, BeforePlan, InLoop, InGovernance
<1>8. CASE StepBegin
  <2>1. steps[cur] = "pending"
    BY <1>8, <1>a
    DEF StepBegin, ValidStepTransition, StepTerminal, StepAllowed
  <2>2. pc[Driver] = "step_begin" /\ pc'[Driver] = "append_read"
    BY <1>8, <1>a DEF StepBegin
  <2>3. /\ steps' = [steps EXCEPT ![cur] = "running"]
        /\ UNCHANGED <<results, proposal, decision, workflow, context, cur>>
    BY <1>8 DEF StepBegin, request
  <2>4. QED
    BY <1>a, <1>b, <2>1, <2>2, <2>3
    DEF DriverInv, Planned, BeforePlan, InLoop, InGovernance
<1>9. CASE AppendRead \/ AppendWrite \/ StepWork
  <2>1. /\ pc[Driver] \in InLoop
        /\ pc'[Driver] \in InLoop \ {"step_succeed"}
        /\ UNCHANGED <<steps, results, proposal, decision, workflow, context, cur>>
    BY <1>9, <1>a
    DEF AppendRead, AppendWrite, StepWork, AfterAppend, Hold, WriteBack, store, request,
        locals, InLoop
  <2>2. QED
    BY <1>a, <2>1 DEF DriverInv, Planned, BeforePlan, InLoop, InGovernance
<1>10. CASE SaveStepResult
  <2>1. /\ pc[Driver] = "step_result" /\ pc'[Driver] = "step_succeed"
        /\ results' = [results EXCEPT ![cur] =
                         IF cur \in ValidationSteps THEN verdict ELSE "recorded"]
        /\ UNCHANGED <<steps, proposal, decision, workflow, context, cur>>
        /\ steps[cur] = "running"
    BY <1>10, <1>a DEF SaveStepResult, request, locals
  <2>2. results'[cur] # "none" /\ \A s \in StepName \ {cur} : results'[s] = results[s]
    BY <1>a, <2>1 DEF TypeOK
  <2>3. QED
    BY <1>a, <2>1, <2>2 DEF DriverInv, Planned, BeforePlan, InLoop, InGovernance
<1>11. CASE StepSucceed
  <2>1. /\ pc[Driver] = "step_succeed" /\ pc'[Driver] = "append_read"
        /\ steps' = [steps EXCEPT ![cur] = "succeeded"]
        /\ UNCHANGED <<results, proposal, decision, workflow, context, cur>>
    BY <1>11, <1>a DEF StepSucceed, request
  <2>2. steps[cur] # "absent" /\ results[cur] # "none"
    BY <1>a, <2>1 DEF DriverInv
  <2>3. QED
    BY <1>a, <1>b, <2>1, <2>2
    DEF DriverInv, Planned, BeforePlan, InLoop, InGovernance
<1>12. CASE Propose
  <2>1. /\ pc[Driver] = "propose" /\ pc'[Driver] = "evaluate"
        /\ proposal' = "proposed" /\ copy'[Driver].status = copy[Driver].status
        /\ UNCHANGED <<steps, results, decision, workflow, context, cur>>
    BY <1>12, <1>a DEF Propose, Hold, AppendTimeline, Execution, request, locals
  <2>2. QED
    BY <1>a, <2>1 DEF DriverInv, Planned, BeforePlan, InLoop, InGovernance
<1>13. CASE EvaluatePolicy
  <2>1. /\ pc[Driver] = "evaluate" /\ pc'[Driver] = "settle"
        /\ decision' = Evaluate(context, "escalate_incident")
        /\ copy'[Driver].status = copy[Driver].status
        /\ UNCHANGED <<steps, results, proposal, workflow, context, cur>>
    BY <1>13, <1>a DEF EvaluatePolicy, Hold, AppendTimeline, Execution, request, locals
  <2>2. decision' # "none"
    BY <2>1 DEF Evaluate
  <2>3. QED
    BY <1>a, <2>1, <2>2 DEF DriverInv, Planned, BeforePlan, InLoop, InGovernance
<1>14. CASE SettleProposal
  <2>1. /\ pc[Driver] = "settle" /\ pc'[Driver] = "final_write"
        /\ UNCHANGED <<steps, results, decision, workflow, context, cur>>
    BY <1>14, <1>a
    DEF SettleProposal, SettleDenied, SettleAllowed, SettleConditional, Hold, request,
        locals
  <2>2. QED
    BY <1>a, <2>1 DEF DriverInv, Planned, BeforePlan, InLoop, InGovernance
<1>15. QED
  BY <1>1, <1>2, <1>3, <1>4, <1>5, <1>6, <1>7, <1>8, <1>9, <1>10, <1>11, <1>12,
     <1>13, <1>14
  DEF DriverNext

\* Every step of the driver keeps the invariant.
LEMMA DriverStep == IInv /\ DriverNext => IInv'
<1> SUFFICES ASSUME IInv, DriverNext PROVE IInv'
  OBVIOUS
<1>1. TypeOK /\ ApproverInv
  BY DEF IInv
<1>2. ApproverInv'
  BY <1>1, DriverLeavesApprovers, ApproverFrame, ProcessAssumption DEF Process
<1>3. QED
  BY <1>1, <1>2, DriverType, DriverSound, DriverKeepsInv DEF IInv

(***************************************************************************)
(* The theorems.                                                           *)
(***************************************************************************)

\* The invariant holds initially.
LEMMA InitInv == Init => IInv
<1> SUFFICES ASSUME Init PROVE IInv
  OBVIOUS
<1>1. Sound(NewExecution)
  BY DEF Sound, Coherent, NewExecution
<1>2. AllSound
  BY <1>1 DEF Init, AllSound
<1>3. pc[Driver] \in {"enqueue_read", "run"} /\ \A a \in Approvers : pc[a] = "idle"
  BY ProcessAssumption DEF Init, Process
<1>4. DriverInv
  BY <1>3 DEF Init, DriverInv, BeforePlan, InLoop, InGovernance
<1>5. ApproverInv
  BY <1>3 DEF ApproverInv
<1>6. QED
  BY <1>2, <1>4, <1>5, InitType DEF IInv

\* Every step keeps the invariant.
LEMMA NextInv == IInv /\ [Next]_vars => IInv'
<1> SUFFICES ASSUME IInv, [Next]_vars PROVE IInv'
  OBVIOUS
<1>1. CASE UNCHANGED vars
  <2>1. TypeOK' /\ ApproverInv'
    BY <1>1, NextType DEF IInv, vars, store, ApproverInv
  <2>2. DriverInv'
    BY <1>1, DriverFrame DEF IInv, vars, store, request, locals
  <2>3. AllSound'
    BY <1>1, StillGrows, GrowsExec, GrowsCopy
    DEF IInv, AllSound, vars, store, request, Rows
  <2>4. QED
    BY <2>1, <2>2, <2>3 DEF IInv
<1>2. CASE Finished
  BY <1>1, <1>2 DEF Finished
<1>3. QED
  BY <1>1, <1>2, DriverStep, CancellerStep, ApproverStep DEF Next

\* The invariant holds throughout every behaviour.
THEOREM Invariance == Spec => []IInv
BY InitInv, NextInv, PTL DEF Spec

\* For any number of concurrent cancel and approval requests, an execution that
\* is completed or awaits approval has run its whole plan and carries the
\* outcome its validation step reported.
THEOREM CompletionIsValidated == Spec => []CompletedIsValidated
<1>1. IInv => CompletedIsValidated
  BY DEF IInv, AllSound, Sound, CompletedIsValidated
<1>2. QED
  BY <1>1, Invariance, PTL

\* The stored record agrees with itself after any interleaving of whole-record
\* overwrites.
THEOREM RecordsStayCoherent == Spec => []RecordCoherent
<1>1. IInv => RecordCoherent
  BY DEF IInv, AllSound, Sound, RecordCoherent
<1>2. QED
  BY <1>1, Invariance, PTL

\* No interleaving completes an incident triage that policy denies, or one that
\* needs an approval before such an approval is stored.
THEOREM CompletionIsAuthorized == Spec => []CompletionAuthorized
<1>1. IInv => CompletionAuthorized
  <2> SUFFICES ASSUME IInv, exec.status = "completed", workflow = "incident_triage"
               PROVE  /\ context.policy_scope # "phase3_deny"
                      /\ context.environment = "prod"
                           \/ context.policy_scope = "phase3_conditional"
                         => \E a \in Approvers : <<a, "approve">> \in approvals
    BY DEF CompletionAuthorized
  <2>1. decision = "allow" \/ (decision = "conditional" /\ Approved)
    BY DEF IInv, AllSound, Sound
  <2>2. decision = Evaluate(context, "escalate_incident")
    BY <2>1 DEF IInv, DriverInv
  <2>3. QED
    BY <2>1, <2>2 DEF Evaluate, Approved
<1>2. QED
  BY <1>1, Invariance, PTL


(***************************************************************************)
(* The engine implements Governance.                                       *)
(***************************************************************************)

\* A step that leaves the rows alone releases the outcome only where it is
\* authorized, or stutters, or takes it back.
LEMMA RowsStandStill ==
  ASSUME IInv, IInv', UNCHANGED <<proposal, decision, approvals, workflow>>
  PROVE  [Gov!GNext]_(Gov!gvars)
<1>1. CASE workflow = "incident_triage" /\ exec'.status = "completed"
  <2>1. decision = "allow" \/ (decision = "conditional" /\ Approved)
    BY <1>1 DEF IInv, AllSound, Sound, Approved
  <2>2. Gov!Authorized
    BY <2>1 DEF Gov!Authorized, Approved, Verdicts
  <2>3. QED
    BY <1>1, <2>2 DEF Gov!GNext, Gov!GRelease, Verdicts
<1>2. CASE ~ (workflow = "incident_triage" /\ exec'.status = "completed")
  BY <1>2 DEF Gov!GNext, Gov!GWithdraw, Verdicts
<1>3. QED
  BY <1>1, <1>2

\* Every step of the engine is a step of Governance or leaves it unchanged.
LEMMA GovernanceStep == IInv /\ IInv' /\ [Next]_vars => [Gov!GNext]_(Gov!gvars)
<1> SUFFICES ASSUME IInv, IInv', [Next]_vars PROVE [Gov!GNext]_(Gov!gvars)
  OBVIOUS
<1>a. TypeOK /\ DriverInv /\ ApproverInv /\ AllSound
  BY DEF IInv
<1>1. CASE Propose
  <2>1. proposal = "none"
    BY <1>1, <1>a DEF Propose, DriverInv
  <2>2. QED
    BY <1>1, <2>1 DEF Propose, request, Verdicts, Gov!GNext, Gov!GPropose
<1>2. CASE EvaluatePolicy
  <2>1. proposal = "proposed" /\ decision = "none"
    BY <1>2, <1>a DEF EvaluatePolicy, DriverInv
  <2>2. decision' \in {"allow", "deny", "conditional"}
    BY <1>2 DEF EvaluatePolicy, Evaluate
  <2>3. QED
    BY <1>2, <2>1, <2>2 DEF EvaluatePolicy, request, Verdicts, Gov!GNext, Gov!GEvaluate
<1>3. CASE SettleProposal
  <2>1. proposal = "proposed"
    BY <1>3, <1>a DEF SettleProposal, DriverInv
  <2>2. decision \in {"allow", "deny", "conditional"} /\ proposal' = Gov!SettledAs[decision]
    BY <1>3 DEF SettleProposal, SettleDenied, SettleAllowed, SettleConditional, Gov!SettledAs
  <2>3. QED
    BY <1>3, <2>1, <2>2 DEF SettleProposal, request, Verdicts, Gov!GNext, Gov!GSettle
<1>4. ASSUME NEW a \in Approvers, SaveApproval(a)
      PROVE  [Gov!GNext]_(Gov!gvars)
  <2>1. copy[a].status = "awaiting_approval" /\ a \in Process
    BY <1>4, <1>a DEF SaveApproval, ApproverInv, Process
  <2>2. decision = "conditional" /\ proposal \in {"awaiting_approval", "approved", "rejected"}
    BY <1>a, <2>1 DEF AllSound, Sound
  <2>3. pc[a] \in {"approve", "reject"} /\ Verdicts' = Verdicts \cup {pc[a]}
    BY <1>4 DEF SaveApproval, Verdicts
  <2>4. QED
    BY <1>4, <2>2, <2>3 DEF SaveApproval, request, Gov!GNext, Gov!GRecordVerdict
<1>5. ASSUME NEW a \in Approvers, ResolveRejected(a) \/ ResolveGranted(a)
      PROVE  [Gov!GNext]_(Gov!gvars)
  <2>1. copy[a].status = "awaiting_approval" /\ a \in Process
    BY <1>5, <1>a DEF ResolveRejected, ResolveGranted, ApproverInv, Process
  <2>2. proposal \in {"awaiting_approval", "approved", "rejected"}
    BY <1>a, <2>1 DEF AllSound, Sound
  <2>3. \E v \in Verdicts : proposal' = Gov!AppliedAs[v]
    <3>1. CASE ResolveRejected(a)
      <4>1. "reject" \in Verdicts
        BY <1>5, <1>a, <3>1 DEF ResolveRejected, ApproverInv, Verdicts
      <4>2. proposal' = Gov!AppliedAs["reject"]
        BY <3>1 DEF ResolveRejected, Gov!AppliedAs
      <4>3. QED
        BY <4>1, <4>2
    <3>2. CASE ResolveGranted(a)
      <4>1. "approve" \in Verdicts
        BY <1>5, <1>a, <3>2 DEF ResolveGranted, ApproverInv, Verdicts
      <4>2. proposal' = Gov!AppliedAs["approve"]
        BY <3>2 DEF ResolveGranted, Gov!AppliedAs
      <4>3. QED
        BY <4>1, <4>2
    <3>3. QED
      BY <1>5, <3>1, <3>2
  <2>4. QED
    BY <1>5, <2>2, <2>3
    DEF ResolveRejected, ResolveGranted, request, Verdicts, Gov!GNext, Gov!GApplyVerdict
<1>6. CASE DriverNext /\ ~ (Propose \/ EvaluatePolicy \/ SettleProposal)
  BY <1>6, RowsStandStill
  DEF DriverNext, EnqueueRead, EnqueueWrite, WorkerRead, WorkerWrite, RunExecution,
      EnterPlanning, SavePlan, EnterExecuting, LoopRead, LoopWrite, Dispatch,
      DispatchStops, StepBegin, AppendRead, AppendWrite, StepWork, SaveStepResult,
      StepSucceed, FinalWrite, DriverCancels, DriverFails, WriteBack, store, request
<1>7. ASSUME NEW c \in Cancellers, CancellerNext(c)
      PROVE  [Gov!GNext]_(Gov!gvars)
  BY <1>7, RowsStandStill
  DEF CancellerNext, RequestCancellationRead, RequestCancellationWrite,
      CancelExecutionRead, CancelExecutionWrite, WriteBack, store, request
<1>8. ASSUME NEW a \in Approvers,
             SubmitApproval(a) \/ SubmitApprovalRefused(a) \/ ApprovalWrite(a)
      PROVE  [Gov!GNext]_(Gov!gvars)
  BY <1>8, RowsStandStill
  DEF SubmitApproval, SubmitApprovalRefused, ApprovalWrite, WriteBack, store, request
<1>9. CASE Finished \/ UNCHANGED vars
  BY <1>9, RowsStandStill DEF Finished, vars, store, request
<1>10. QED
  BY <1>1, <1>2, <1>3, <1>4, <1>5, <1>6, <1>7, <1>8, <1>9
  DEF Next, ApproverNext, ApproverContinues

\* Under every interleaving of any number of threads the engine implements the
\* abstract governance specification.
THEOREM EngineImplementsGovernance == Spec => GovernanceImplemented
<1>1. Init => Gov!GInit
  BY DEF Init, NewExecution, Verdicts, Gov!GInit
<1>2. QED
  BY <1>1, GovernanceStep, Invariance, PTL DEF Spec, GovernanceImplemented, Gov!GSpec


(***************************************************************************)
(* Evidence.                                                               *)
(***************************************************************************)

\* A step that leaves the driver where it is and its rows alone keeps
\* EvidenceInv.
LEMMA EvidenceFrame ==
  ASSUME EvidenceInv, UNCHANGED <<steps, results, toolCalls, cur, item>>,
         \/ pc'[Driver] = pc[Driver]
         \/ pc'[Driver] \notin {"step_begin", "append_read", "append_write", "work",
                                "step_result", "step_succeed"}
  PROVE  EvidenceInv'
BY DEF EvidenceInv, EvidenceComplete

\* Every step of the driver keeps EvidenceInv.
LEMMA DriverEvidence ==
  ASSUME IInv, EvidenceInv, DriverNext
  PROVE  EvidenceInv'
<1>a. /\ TypeOK /\ DriverInv /\ Driver \in Process
      /\ pc \in [Process -> DriverPc \cup CancellerPc \cup ApproverPc]
      /\ steps \in [StepName -> StepStatus \cup {"absent"}]
      /\ results \in [StepName -> {"none", "recorded", "passed", "failed"}]
      /\ cur \in StepName /\ item \in Nat
  BY DEF IInv, TypeOK, PcOK, Process
<1>b. /\ Len(Work(cur)) \in Nat
      /\ DOMAIN Work(cur) = 1 .. Len(Work(cur))
  BY WorkItems
<1>1. CASE EnqueueRead \/ EnqueueWrite \/ WorkerRead \/ WorkerWrite \/ RunExecution
           \/ EnterPlanning \/ EnterExecuting \/ LoopRead \/ LoopWrite \/ DispatchStops
           \/ FinalWrite \/ DriverCancels \/ DriverFails
  <2>1. /\ UNCHANGED <<steps, results, toolCalls, cur, item>>
        /\ pc'[Driver] \notin {"step_begin", "append_read", "append_write", "work",
                               "step_result", "step_succeed"}
    BY <1>1, <1>a
    DEF EnqueueRead, EnqueueWrite, WorkerRead, WorkerWrite, RunExecution, EnterPlanning,
        EnterExecuting, LoopRead, LoopWrite, DispatchStops, FinalWrite, DriverCancels,
        DriverFails, AfterRunRead, AfterLoopRead, Hold, WriteBack, store, locals
  <2>2. QED
    BY <2>1, EvidenceFrame
<1>2. CASE Propose \/ EvaluatePolicy \/ SettleProposal
  <2>1. /\ UNCHANGED <<steps, results, toolCalls, cur, item>>
        /\ pc'[Driver] \in {"evaluate", "settle", "final_write"}
    BY <1>2, <1>a
    DEF Propose, EvaluatePolicy, SettleProposal, SettleDenied, SettleAllowed,
        SettleConditional, Hold, locals
  <2>2. QED
    BY <2>1, EvidenceFrame
<1>3. CASE SavePlan
  <2>1. /\ UNCHANGED <<results, toolCalls, cur, item>>
        /\ pc'[Driver] = "executing_write"
    BY <1>3, <1>a DEF SavePlan, Hold, locals
  <2>2. QED
    BY <2>1 DEF EvidenceInv, EvidenceComplete
<1>4. CASE Dispatch
  <2>1. UNCHANGED <<steps, results, toolCalls, item>>
    BY <1>4 DEF Dispatch, store
  <2>2. \/ /\ pc'[Driver] = "step_begin" /\ IsReady(cur')
        \/ pc'[Driver] \in {"propose", "final_write", "fail"}
    BY <1>4, <1>a DEF Dispatch, Hold, ReadyPlaces
  <2>3. QED
    BY <2>1, <2>2 DEF EvidenceInv, EvidenceComplete, IsReady
<1>5. CASE StepBegin
  <2>1. /\ pc[Driver] = "step_begin" /\ pc'[Driver] = "append_read" /\ item' = 0
        /\ steps' = [steps EXCEPT ![cur] = "running"]
        /\ UNCHANGED <<results, toolCalls, cur>>
    BY <1>5, <1>a DEF StepBegin
  <2>2. steps[cur] = "pending"
    BY <1>5, <1>a DEF StepBegin, ValidStepTransition, StepTerminal, StepAllowed
  <2>3. \A d \in StepName : <<d, cur>> \in Dependencies => steps'[d] = "succeeded"
    BY <1>a, <2>1, <2>2 DEF EvidenceInv
  <2>4. \A i \in DOMAIN Work(cur) : ~ (i <= 0)
    BY <1>b
  <2>5. QED
    BY <2>1, <2>3, <2>4 DEF EvidenceInv, EvidenceComplete
<1>6. CASE AppendRead
  <2>1. /\ pc[Driver] = "append_read" /\ pc'[Driver] = "append_write"
        /\ UNCHANGED <<steps, results, toolCalls, cur, item>>
    BY <1>6, <1>a DEF AppendRead, Hold, store, locals
  <2>2. QED
    BY <2>1 DEF EvidenceInv, EvidenceComplete
<1>7. CASE AppendWrite
  <2>1. /\ pc[Driver] = "append_write"
        /\ pc'[Driver] = AfterAppend(cur, item)
        /\ UNCHANGED <<steps, results, toolCalls, cur, item>>
    BY <1>7, <1>a DEF AppendWrite, WriteBack, locals
  <2>2. /\ AfterAppend(cur, item) \in {"work", "step_result", "loop"}
        /\ AfterAppend(cur, item) = "step_result" =>
             \A i \in DOMAIN Work(cur) : i <= item
    <3>1. \A n \in Nat : item = n => \A i \in 1 .. n : i <= item
      BY <1>a
    <3>2. AfterAppend(cur, item) = "step_result" => item = Len(Work(cur))
      BY DEF AfterAppend
    <3>3. AfterAppend(cur, item) \in {"work", "step_result", "loop"}
      BY DEF AfterAppend
    <3>4. QED
      BY <1>b, <3>1, <3>2, <3>3
  <2>3. QED
    BY <2>1, <2>2 DEF EvidenceInv, EvidenceComplete
<1>8. CASE StepWork
  <2> DEFINE w == Work(cur)[item + 1]
  <2>1. /\ pc[Driver] = "work" /\ pc'[Driver] = "append_read" /\ item' = item + 1
        /\ toolCalls' = toolCalls \cup (IF w \in Tool THEN {w} ELSE {})
        /\ UNCHANGED <<steps, results, cur>>
    BY <1>8, <1>a DEF StepWork
  <2>2. toolCalls \subseteq toolCalls' /\ (w \in Tool => w \in toolCalls')
    BY <2>1
  <2>3. ASSUME NEW i \in DOMAIN Work(cur), i <= item + 1, Work(cur)[i] \in Tool
        PROVE  Work(cur)[i] \in toolCalls'
    BY <1>a, <1>b, <2>1, <2>2, <2>3 DEF EvidenceInv
  <2> HIDE DEF w
  <2>4. QED
    BY <2>1, <2>2, <2>3 DEF EvidenceInv, EvidenceComplete
<1>9. CASE SaveStepResult
  <2>1. /\ pc[Driver] = "step_result" /\ pc'[Driver] = "step_succeed"
        /\ \A s \in StepName \ {cur} : results'[s] = results[s]
        /\ results'[cur] # "none"
        /\ UNCHANGED <<steps, toolCalls, cur, item>>
    BY <1>9, <1>a DEF SaveStepResult, TypeOK, locals
  <2>2. \A d \in StepName : <<d, cur>> \in Dependencies => results'[d] # "none"
    BY <1>a, <2>1 DEF EvidenceInv, DriverInv
  <2>3. \A d \in StepName : results[d] # "none" => results'[d] # "none"
    BY <1>a, <2>1
  <2>4. EvidenceComplete'
    BY <2>1, <2>2, <2>3 DEF EvidenceInv, EvidenceComplete
  <2>5. QED
    BY <2>1, <2>4 DEF EvidenceInv
<1>10. CASE StepSucceed
  <2>1. /\ pc[Driver] = "step_succeed" /\ pc'[Driver] = "append_read"
        /\ steps' = [steps EXCEPT ![cur] = "succeeded"]
        /\ UNCHANGED <<results, toolCalls, cur>>
    BY <1>10, <1>a DEF StepSucceed
  <2>2. /\ \A i \in DOMAIN Work(cur) : Work(cur)[i] \in Tool => Work(cur)[i] \in toolCalls
        /\ \A d \in StepName : <<d, cur>> \in Dependencies => steps[d] = "succeeded"
    BY <1>a, <2>1 DEF EvidenceInv, EvidenceComplete, DriverInv
  <2>3. \A d \in StepName : steps[d] = "succeeded" => steps'[d] = "succeeded"
    BY <1>a, <2>1
  <2>4. QED
    BY <2>1, <2>2, <2>3 DEF EvidenceInv, EvidenceComplete
<1>11. QED
  BY <1>1, <1>2, <1>3, <1>4, <1>5, <1>6, <1>7, <1>8, <1>9, <1>10 DEF DriverNext

\* Every step keeps EvidenceInv.
LEMMA NextEvidence == IInv /\ EvidenceInv /\ [Next]_vars => EvidenceInv'
<1> SUFFICES ASSUME IInv, EvidenceInv, [Next]_vars PROVE EvidenceInv'
  OBVIOUS
<1>a. /\ Driver \notin Cancellers /\ Driver \notin Approvers /\ Driver \in Process
      /\ pc \in [Process -> DriverPc \cup CancellerPc \cup ApproverPc]
  BY ProcessAssumption DEF IInv, TypeOK, PcOK, Process
<1>1. ASSUME NEW c \in Cancellers, CancellerNext(c)
      PROVE  EvidenceInv'
  <2>1. UNCHANGED <<steps, results, toolCalls, cur, item>> /\ pc'[Driver] = pc[Driver]
    BY <1>1, <1>a
    DEF CancellerNext, RequestCancellationRead, RequestCancellationWrite,
        CancelExecutionRead, CancelExecutionWrite, Hold, WriteBack, store, locals
  <2>2. QED
    BY <2>1, EvidenceFrame
<1>2. ASSUME NEW a \in Approvers, ApproverNext(a)
      PROVE  EvidenceInv'
  <2>1. UNCHANGED <<steps, results, toolCalls, cur, item>> /\ pc'[Driver] = pc[Driver]
    BY <1>2, <1>a
    DEF ApproverNext, ApproverContinues, SubmitApproval, SubmitApprovalRefused,
        SaveApproval, ResolveRejected, ResolveGranted, ApprovalWrite, Hold, WriteBack,
        store, locals
  <2>2. QED
    BY <2>1, EvidenceFrame
<1>3. CASE Finished \/ UNCHANGED vars
  BY <1>3, EvidenceFrame DEF Finished, vars, store, locals
<1>4. QED
  BY <1>1, <1>2, <1>3, DriverEvidence DEF Next

\* The strengthened evidence invariant holds.
LEMMA EvidenceInvariance == Spec => []EvidenceInv
<1>1. Init => EvidenceInv
  <2> SUFFICES ASSUME Init PROVE EvidenceInv
    OBVIOUS
  <2>1. pc[Driver] \in {"enqueue_read", "run"}
    BY DEF Init, Process
  <2>2. QED
    BY <2>1 DEF Init, EvidenceInv, EvidenceComplete
<1>2. QED
  BY <1>1, NextEvidence, Invariance, PTL DEF Spec

\* No step result is saved before the tool calls and the earlier results it is
\* based on, for any number of concurrent requests.
THEOREM EvidenceIsComplete == Spec => []EvidenceComplete
<1>1. EvidenceInv => EvidenceComplete
  BY DEF EvidenceInv
<1>2. QED
  BY <1>1, EvidenceInvariance, PTL

(***************************************************************************)
(* The steps of the plan run one at a time and in order, for any number of *)
(* threads.                                                                *)
(***************************************************************************)

\* A step of the driver that leaves the steps and its registers alone, and does not
\* leave a step in progress, keeps their order.
LEMMA OrderKept ==
  ASSUME StepOrder, UNCHANGED <<steps, cur, item>>,
         \/ pc[Driver] \notin InStep /\ pc'[Driver] \notin InStep
         \/ pc[Driver] = "append_read" /\ pc'[Driver] = "append_write"
  PROVE  StepOrder'
BY DEF StepOrder, InStep

\* A step begins once the steps it depends on have succeeded, and one at a time.
LEMMA BeginsInOrder ==
  ASSUME TypeOK, StepOrder, EvidenceInv, StepBegin
  PROVE  StepOrder'
<1>1. /\ Driver \in Process /\ cur \in StepName /\ steps \in [StepName -> StepStatus \cup {"absent"}]
      /\ pc \in [Process -> DriverPc \cup CancellerPc \cup ApproverPc]
  BY DEF TypeOK, PcOK, Process
<1>2. /\ pc[Driver] = "step_begin" /\ pc'[Driver] = "append_read"
      /\ cur' = cur /\ item' = 0 /\ steps' = [steps EXCEPT ![cur] = "running"]
  BY <1>1 DEF StepBegin
<1>3. steps[cur] = "pending"
  BY DEF StepBegin, ValidStepTransition, StepAllowed
<1>4. \A d \in StepName : <<d, cur>> \in Dependencies => steps[d] = "succeeded"
  BY <1>2 DEF EvidenceInv
<1>5. /\ \A s \in StepName : steps[s] \in {"absent", "pending", "succeeded"}
      /\ \A d, s \in StepName :
           <<d, s>> \in Dependencies /\ steps[s] \in {"running", "succeeded"} => steps[d] = "succeeded"
  BY <1>2 DEF StepOrder, InStep
<1>6. steps'[cur] = "running" /\ \A s \in StepName \ {cur} : steps'[s] = steps[s]
  BY <1>1, <1>2
<1>7. /\ \A s \in StepName : steps'[s] \in {"absent", "pending", "running", "succeeded"}
      /\ \A s \in StepName : steps'[s] = "running" => s = cur
  BY <1>5, <1>6
<1>8. \A d, s \in StepName :
        <<d, s>> \in Dependencies /\ steps'[s] \in {"running", "succeeded"} => steps'[d] = "succeeded"
  BY <1>3, <1>4, <1>5, <1>6
<1>9. item' <= Len(Work(cur))
  BY <1>2, WorkItems
<1>10. QED
  BY <1>2, <1>7, <1>8, <1>9 DEF StepOrder, InStep

\* A step that succeeds opens the steps that depend on it.
LEMMA SucceedsInOrder ==
  ASSUME TypeOK, DriverInv, StepOrder, StepSucceed
  PROVE  StepOrder'
<1>1. /\ Driver \in Process /\ cur \in StepName /\ steps \in [StepName -> StepStatus \cup {"absent"}]
      /\ pc \in [Process -> DriverPc \cup CancellerPc \cup ApproverPc]
  BY DEF TypeOK, PcOK, Process
<1>2. /\ pc[Driver] = "step_succeed" /\ pc'[Driver] = "append_read"
      /\ cur' = cur /\ steps' = [steps EXCEPT ![cur] = "succeeded"]
  BY <1>1 DEF StepSucceed
<1>3. steps[cur] = "running"
  BY <1>2 DEF DriverInv
<1>4. /\ \A s \in StepName : steps[s] \in {"absent", "pending", "running", "succeeded"}
      /\ \A s \in StepName : steps[s] = "running" => s = cur
      /\ \A d, s \in StepName :
           <<d, s>> \in Dependencies /\ steps[s] \in {"running", "succeeded"} => steps[d] = "succeeded"
  BY DEF StepOrder
<1>5. steps'[cur] = "succeeded" /\ \A s \in StepName \ {cur} : steps'[s] = steps[s]
  BY <1>1, <1>2
<1>6. QED
  BY <1>2, <1>3, <1>4, <1>5 DEF StepOrder, InStep

\* _run_step between its two updates of the step.
LEMMA WorksInOrder ==
  ASSUME TypeOK, StepOrder, AppendRead \/ AppendWrite \/ StepWork \/ SaveStepResult
  PROVE  StepOrder'
<1>1. /\ Driver \in Process /\ item \in Nat /\ Len(Work(cur)) \in Nat
      /\ pc \in [Process -> DriverPc \cup CancellerPc \cup ApproverPc]
  BY WorkItems DEF TypeOK, PcOK, Process
<1>2. UNCHANGED <<steps, cur>>
  BY DEF AppendRead, AppendWrite, StepWork, SaveStepResult, WriteBack, store, locals
<1>3. CASE AppendRead
  <2>1. item' = item /\ pc[Driver] = "append_read" /\ pc'[Driver] = "append_write"
    BY <1>1, <1>3 DEF AppendRead, Hold, locals
  <2>2. QED
    BY <1>2, <2>1, OrderKept
<1>4. CASE AppendWrite
  <2>1. item' = item /\ pc[Driver] = "append_write" /\ pc'[Driver] = AfterAppend(cur, item)
    BY <1>1, <1>4 DEF AppendWrite, WriteBack, locals
  <2>2. /\ pc'[Driver] \in {"work", "step_result", "loop"}
        /\ pc'[Driver] = "work" => item < Len(Work(cur))
        /\ pc'[Driver] = "loop" => ~ (item <= Len(Work(cur)))
    BY <1>1, <2>1 DEF AfterAppend
  <2>3. pc'[Driver] = "loop" => steps[cur] # "running"
    BY <2>1, <2>2 DEF StepOrder
  <2>4. QED
    BY <1>2, <2>1, <2>2, <2>3 DEF StepOrder, InStep
<1>5. CASE StepWork
  <2>1. item' = item + 1 /\ pc[Driver] = "work" /\ pc'[Driver] = "append_read"
    BY <1>1, <1>5 DEF StepWork
  <2>2. item' <= Len(Work(cur))
    BY <1>1, <2>1 DEF StepOrder
  <2>3. QED
    BY <1>2, <2>1, <2>2 DEF StepOrder, InStep
<1>6. CASE SaveStepResult
  <2>1. item' = item /\ pc[Driver] = "step_result" /\ pc'[Driver] = "step_succeed"
    BY <1>1, <1>6 DEF SaveStepResult, locals
  <2>2. QED
    BY <1>2, <2>1 DEF StepOrder, InStep
<1>7. QED
  BY <1>3, <1>4, <1>5, <1>6

\* Dispatch chooses the next step while none is running.
LEMMA DispatchesInOrder ==
  ASSUME TypeOK, StepOrder, Dispatch
  PROVE  StepOrder'
<1>1. pc[Driver] = "dispatch" /\ pc'[Driver] \in {"step_begin", "propose", "final_write", "fail"}
  BY DEF Dispatch, Hold, TypeOK, PcOK, Process
<1>2. UNCHANGED <<steps, item>>
  BY DEF Dispatch, store
<1>3. QED
  BY <1>1, <1>2 DEF StepOrder, InStep

\* The plan is saved before any step has run.
LEMMA PlansInOrder ==
  ASSUME TypeOK, DriverInv, SavePlan
  PROVE  StepOrder'
<1>1. /\ pc[Driver] = "plan" /\ pc'[Driver] = "executing_write"
      /\ \A s \in StepName : steps'[s] \in {"absent", "pending"}
  BY DEF SavePlan, Hold, TypeOK, PcOK, Process, DriverInv, BeforePlan
<1>2. QED
  BY <1>1 DEF StepOrder

\* Every step of the driver keeps the order.
LEMMA DriverKeepsOrder ==
  ASSUME IInv, EvidenceInv, StepOrder, DriverNext
  PROVE  StepOrder'
<1>1. /\ TypeOK /\ DriverInv /\ Driver \in Process
      /\ pc \in [Process -> DriverPc \cup CancellerPc \cup ApproverPc]
  BY DEF IInv, TypeOK, PcOK, Process
<1>2. CASE EnqueueRead \/ EnqueueWrite \/ WorkerRead \/ WorkerWrite \/ RunExecution
           \/ EnterPlanning \/ EnterExecuting \/ LoopRead \/ LoopWrite \/ DispatchStops
           \/ FinalWrite \/ DriverCancels \/ DriverFails
  <2>1. UNCHANGED <<steps, cur, item>> /\ pc[Driver] \notin InStep /\ pc'[Driver] \notin InStep
    BY <1>1, <1>2
    DEF EnqueueRead, EnqueueWrite, WorkerRead, WorkerWrite, RunExecution, EnterPlanning,
        EnterExecuting, LoopRead, LoopWrite, DispatchStops, FinalWrite, DriverCancels,
        DriverFails, AfterRunRead, AfterLoopRead, Hold, WriteBack, store, locals, InStep
  <2>2. QED
    BY <2>1, OrderKept
<1>3. CASE Propose \/ EvaluatePolicy \/ SettleProposal
  <2>1. UNCHANGED <<steps, cur, item>> /\ pc[Driver] \notin InStep /\ pc'[Driver] \notin InStep
    BY <1>1, <1>3 DEF Propose, EvaluatePolicy, SettleProposal, SettleDenied, SettleAllowed,
       SettleConditional, Hold, locals, InStep
  <2>2. QED
    BY <2>1, OrderKept
<1>4. QED
  BY <1>1, <1>2, <1>3, BeginsInOrder, SucceedsInOrder, WorksInOrder, DispatchesInOrder,
     PlansInOrder DEF DriverNext

\* Whatever requests interleave, the steps run in order.
LEMMA StepsRunInOrder == Spec => []StepOrder
<1>1. Init => StepOrder
  BY DEF Init, StepOrder, InStep, Process
<1>2. IInv /\ EvidenceInv /\ StepOrder /\ [Next]_vars => StepOrder'
  <2> SUFFICES ASSUME IInv, EvidenceInv, StepOrder, [Next]_vars PROVE StepOrder'
    OBVIOUS
  <2>1. ASSUME NEW p \in Cancellers \cup Approvers,
               \/ p \in Cancellers /\ CancellerNext(p)
               \/ p \in Approvers /\ ApproverNext(p)
        PROVE  UNCHANGED <<steps, cur, item>> /\ pc'[Driver] = pc[Driver]
    BY <2>1, ProcessAssumption DEF IInv, TypeOK, PcOK, Process, CancellerNext,
       RequestCancellationRead, RequestCancellationWrite, CancelExecutionRead,
       CancelExecutionWrite, ApproverNext, ApproverContinues, SubmitApproval,
       SubmitApprovalRefused, SaveApproval, ResolveRejected, ResolveGranted, ApprovalWrite,
       Hold, WriteBack, store, locals
  <2>2. CASE UNCHANGED <<steps, cur, item>> /\ pc'[Driver] = pc[Driver]
    BY <2>2 DEF StepOrder
  <2>3. CASE UNCHANGED vars
    BY <2>2, <2>3 DEF vars, store, locals
  <2>4. QED
    BY <2>1, <2>2, <2>3, DriverKeepsOrder DEF Next, Finished
<1>3. QED
  BY <1>1, <1>2, Invariance, EvidenceInvariance, PTL DEF Spec

(***************************************************************************)
(* As long as nobody asks for cancellation.                                *)
(***************************************************************************)

\* The plans, place by place.
LEMMA PlanShape ==
  /\ Plan["default"] = <<"reasoning", "validation">>
  /\ Plan["incident_triage"] = <<"analyze_incident", "gather_evidence", "validate_incident">>
  /\ Plan["cost_attribution"] = <<"analyze_cost_anomaly", "retrieve_cost_evidence",
                                  "correlate_usage_patterns", "validate_cost_attribution">>
BY DEF Plan

\* A step at a place of a plan.
LEMMA PlacesOf ==
  ASSUME NEW w \in Workflow
  PROVE  \/ /\ w = "default" /\ DOMAIN Plan[w] = {1, 2}
            /\ Plan[w][1] = "reasoning" /\ Plan[w][2] = "validation"
            /\ PlannedSteps(w) = {"reasoning", "validation"}
         \/ /\ w = "incident_triage" /\ DOMAIN Plan[w] = {1, 2, 3}
            /\ Plan[w][1] = "analyze_incident" /\ Plan[w][2] = "gather_evidence"
            /\ Plan[w][3] = "validate_incident"
            /\ PlannedSteps(w) = {"analyze_incident", "gather_evidence", "validate_incident"}
         \/ /\ w = "cost_attribution" /\ DOMAIN Plan[w] = {1, 2, 3, 4}
            /\ Plan[w][1] = "analyze_cost_anomaly" /\ Plan[w][2] = "retrieve_cost_evidence"
            /\ Plan[w][3] = "correlate_usage_patterns"
            /\ Plan[w][4] = "validate_cost_attribution"
            /\ PlannedSteps(w) = {"analyze_cost_anomaly", "retrieve_cost_evidence",
                                  "correlate_usage_patterns", "validate_cost_attribution"}
<1>1. CASE w = "default"
  <2>1. PlannedSteps(w) = {"reasoning", "validation"} /\ DOMAIN Plan[w] = {1, 2}
    BY <1>1, PlanShape DEF PlannedSteps
  <2>2. QED
    BY <1>1, <2>1, PlanShape
<1>2. CASE w = "incident_triage"
  <2>1. /\ PlannedSteps(w) = {"analyze_incident", "gather_evidence", "validate_incident"}
        /\ DOMAIN Plan[w] = {1, 2, 3}
    BY <1>2, PlanShape DEF PlannedSteps
  <2>2. QED
    BY <1>2, <2>1, PlanShape
<1>3. CASE w = "cost_attribution"
  <2>1. /\ PlannedSteps(w) = {"analyze_cost_anomaly", "retrieve_cost_evidence",
                              "correlate_usage_patterns", "validate_cost_attribution"}
        /\ DOMAIN Plan[w] = {1, 2, 3, 4}
    BY <1>3, PlanShape DEF PlannedSteps
  <2>2. QED
    BY <1>3, <2>1, PlanShape
<1>4. QED
  BY <1>1, <1>2, <1>3 DEF Workflow

\* Between steps, when no step of the plan is ready, all have succeeded (_next_pending_ready).
LEMMA NothingReady ==
  ASSUME workflow \in Workflow, ReadyPlaces = {},
         \A s \in PlannedSteps(workflow) : steps[s] \in {"pending", "succeeded"}
  PROVE  \A s \in PlannedSteps(workflow) : steps[s] = "succeeded"
<1>1. \A i \in DOMAIN Plan[workflow] :
        ~ (steps[Plan[workflow][i]] = "pending" /\ IsReady(Plan[workflow][i]))
  BY DEF ReadyPlaces
<1>2. CASE workflow = "default"
  <2>1. /\ steps["reasoning"] = "pending" => ~ IsReady("reasoning")
        /\ steps["validation"] = "pending" => ~ IsReady("validation")
        /\ PlannedSteps(workflow) = {"reasoning", "validation"}
    BY <1>1, <1>2, PlacesOf
  <2>2. QED
    BY <2>1 DEF IsReady, Dependencies, StepName
<1>3. CASE workflow = "incident_triage"
  <2>1. /\ steps["analyze_incident"] = "pending" => ~ IsReady("analyze_incident")
        /\ steps["gather_evidence"] = "pending" => ~ IsReady("gather_evidence")
        /\ steps["validate_incident"] = "pending" => ~ IsReady("validate_incident")
        /\ PlannedSteps(workflow) = {"analyze_incident", "gather_evidence", "validate_incident"}
    BY <1>1, <1>3, PlacesOf
  <2>2. QED
    BY <2>1 DEF IsReady, Dependencies, StepName
<1>4. CASE workflow = "cost_attribution"
  <2>1. /\ steps["analyze_cost_anomaly"] = "pending" => ~ IsReady("analyze_cost_anomaly")
        /\ steps["retrieve_cost_evidence"] = "pending" => ~ IsReady("retrieve_cost_evidence")
        /\ steps["correlate_usage_patterns"] = "pending" => ~ IsReady("correlate_usage_patterns")
        /\ steps["validate_cost_attribution"] = "pending" => ~ IsReady("validate_cost_attribution")
        /\ PlannedSteps(workflow) = {"analyze_cost_anomaly", "retrieve_cost_evidence",
                                     "correlate_usage_patterns", "validate_cost_attribution"}
    BY <1>1, <1>4, PlacesOf
  <2>2. QED
    BY <2>1 DEF IsReady, Dependencies, StepName
<1>5. QED
  BY <1>2, <1>3, <1>4 DEF Workflow

\* A validation step that is ready comes after everything else (_is_ready).
LEMMA ValidationComesLast ==
  ASSUME workflow \in Workflow, StepOrder, NEW v \in PlannedSteps(workflow) \cap ValidationSteps,
         IsReady(v)
  PROVE  ~ ToValidate
<1>1. \A d, s \in StepName :
        <<d, s>> \in Dependencies /\ steps[s] = "succeeded" => steps[d] = "succeeded"
  BY DEF StepOrder
<1>2. \A d \in StepName : <<d, v>> \in Dependencies => steps[d] = "succeeded"
  BY DEF IsReady
<1>3. CASE workflow = "default"
  <2>1. PlannedSteps(workflow) = {"reasoning", "validation"}
    BY <1>3, PlacesOf
  <2>2. QED
    BY <1>2, <2>1 DEF Dependencies, StepName, ValidationSteps, ToValidate
<1>4. CASE workflow = "incident_triage"
  <2>1. PlannedSteps(workflow) = {"analyze_incident", "gather_evidence", "validate_incident"}
    BY <1>4, PlacesOf
  <2>2. v = "validate_incident"
    BY <2>1 DEF ValidationSteps
  <2>3. steps["gather_evidence"] = "succeeded"
    BY <1>2, <2>2 DEF Dependencies, StepName
  <2>4. steps["analyze_incident"] = "succeeded"
    BY <1>1, <2>3 DEF Dependencies, StepName
  <2>5. QED
    BY <2>1, <2>3, <2>4 DEF ValidationSteps, ToValidate
<1>5. CASE workflow = "cost_attribution"
  <2>1. PlannedSteps(workflow) = {"analyze_cost_anomaly", "retrieve_cost_evidence",
                                  "correlate_usage_patterns", "validate_cost_attribution"}
    BY <1>5, PlacesOf
  <2>2. v = "validate_cost_attribution"
    BY <2>1 DEF ValidationSteps
  <2>3. steps["correlate_usage_patterns"] = "succeeded"
    BY <1>2, <2>2 DEF Dependencies, StepName
  <2>4. steps["retrieve_cost_evidence"] = "succeeded"
    BY <1>1, <2>3 DEF Dependencies, StepName
  <2>5. steps["analyze_cost_anomaly"] = "succeeded"
    BY <1>1, <2>4 DEF Dependencies, StepName
  <2>6. QED
    BY <2>1, <2>3, <2>4, <2>5 DEF ValidationSteps, ToValidate
<1>6. QED
  BY <1>3, <1>4, <1>5 DEF Workflow

\* The status stored while the driver is at each of its places.
LEMMA StoredAtPlaces ==
  /\ \A p \in {"enqueue_read", "enqueue_write", "worker_read", "worker_write", "run",
               "planning_write"} : StoredAt(p) = {"created"}
  /\ \A p \in {"plan", "executing_write"} : StoredAt(p) = {"planning"}
  /\ \A p \in {"loop", "loop_write", "dispatch", "step_begin", "append_read", "append_write",
               "work", "step_result", "step_succeed"} : StoredAt(p) = {"executing", "validating"}
  /\ \A p \in {"propose", "evaluate", "settle", "final_write"} : StoredAt(p) = {"validating"}
  /\ StoredAt("done") = {"completed", "awaiting_approval", "failed"}
BY DEF StoredAt, BeforePlan, InLoop, InGovernance

\* The transitions the driver and the approvers take (validate_execution_transition).
LEMMA Transitions ==
  /\ ValidExecutionTransition("created", "planning")
  /\ ValidExecutionTransition("planning", "executing")
  /\ ValidExecutionTransition("executing", "validating")
  /\ \A s \in {"completed", "awaiting_approval", "failed"} : ValidExecutionTransition("validating", s)
  /\ \A s \in {"completed", "failed"} : ValidExecutionTransition("awaiting_approval", s)
BY DEF ValidExecutionTransition, ExecutionTerminal, ExecutionAllowed

\* What building a record from another one changes.
Moved(r, status, new) ==
  /\ new.status = status /\ new.cancel = r.cancel /\ new.plan = r.plan
  /\ r.timeline \subseteq new.timeline

LEMMA MoveToMoves ==
  ASSUME NEW r \in Execution, NEW s
  PROVE  Moved(r, s, MoveTo(r, s))
BY DEF Moved, MoveTo, Execution

LEMMA AppendTimelineMoves ==
  ASSUME NEW r \in Execution, NEW rows
  PROVE  Moved(r, r.status, AppendTimeline(r, rows))
BY DEF Moved, AppendTimeline, Execution

LEMMA CloseMoves ==
  ASSUME NEW r \in Execution, NEW status, NEW result, NEW v, NEW rows
  PROVE  Moved(r, status, Close(r, status, result, v, rows))
BY DEF Moved, Close, MoveTo, AppendTimeline, Execution

\* While the driver works no approver does, and the driver's steps leave them alone.
LEMMA DriverAlone ==
  ASSUME IInv, QuietInv, DriverNext
  PROVE  /\ \A a \in Approvers : ~ PendingWrite(a) /\ ~ PendingWrite(a)' /\ pc'[a] = pc[a]
         /\ \A p \in Process \ {Driver} : copy'[p] = copy[p]
         /\ pc[Driver] # "done" /\ approvals' = approvals
<1>1. pc[Driver] # "done"
  BY DEF DriverNext, EnqueueRead, EnqueueWrite, WorkerRead, WorkerWrite, RunExecution,
     EnterPlanning, SavePlan, EnterExecuting, LoopRead, LoopWrite, Dispatch, DispatchStops,
     StepBegin, AppendRead, AppendWrite, StepWork, SaveStepResult, StepSucceed, Propose,
     EvaluatePolicy, SettleProposal, FinalWrite, DriverCancels, DriverFails
<1>2. /\ approvals' = approvals
      /\ \A p \in Process \ {Driver} : pc'[p] = pc[p] /\ copy'[p] = copy[p]
  BY DriverLeavesApprovers DEF IInv
<1>3. \A a \in Approvers : a \in Process \ {Driver}
  BY ProcessAssumption DEF Process
<1>4. \A a \in Approvers : ~ PendingWrite(a)
  BY <1>1 DEF QuietInv, ApproverHolds
<1>5. QED
  BY <1>1, <1>2, <1>3, <1>4 DEF PendingWrite

\* What a step of the driver has to show for QuietInv.
LEMMA DriverGoesOn ==
  ASSUME IInv, QuietInv, DriverNext,
         ~ exec'.cancel, ~ copy'[Driver].cancel,
         exec'.status \in StoredAt(pc'[Driver]), pc'[Driver] \notin {"cancel", "fail"},
         pc'[Driver] \in InLoop \ {"executing_write"} => exec'.plan,
         PhaseInv', DriverHolds',
         PendingWrite(Driver)' => Continues(copy[Driver])',
         exec'.status = "failed" => decision' = "deny"
  PROVE  QuietInv'
<1>1. \A p \in Process : ~ copy'[p].cancel
  BY DriverAlone DEF QuietInv
<1>2. ApproverHolds'
  BY DriverAlone DEF ApproverHolds
<1>3. FailsOnlyWhenRefused'
  BY DEF FailsOnlyWhenRefused, ActionRefused
<1>4. QED
  BY <1>1, <1>2, <1>3 DEF QuietInv

\* The driver before the plan is saved: enqueue, worker, and the first reads.
LEMMA QuietPrepares ==
  ASSUME IInv, QuietInv, DriverNext,
         EnqueueRead \/ EnqueueWrite \/ WorkerRead \/ WorkerWrite \/ RunExecution \/ EnterPlanning
  PROVE  QuietInv'
<1>1. /\ Driver \in Process /\ exec \in Execution /\ copy[Driver] \in Execution
      /\ pc \in [Process -> DriverPc \cup CancellerPc \cup ApproverPc]
      /\ copy \in [Process -> Execution]
  BY DEF IInv, TypeOK, PcOK, Process
<1>2. /\ pc[Driver] \in {"enqueue_read", "enqueue_write", "worker_read", "worker_write", "run",
                         "planning_write"}
      /\ exec.status = "created" /\ ~ exec.cancel /\ ~ copy[Driver].cancel
  <2>1. pc[Driver] \in {"enqueue_read", "enqueue_write", "worker_read", "worker_write", "run",
                        "planning_write"}
    BY DEF EnqueueRead, EnqueueWrite, WorkerRead, WorkerWrite, RunExecution, EnterPlanning
  <2>2. exec.status \in StoredAt(pc[Driver]) /\ ~ exec.cancel /\ ~ copy[Driver].cancel
    BY <1>1 DEF QuietInv
  <2>3. QED
    BY <2>1, <2>2, StoredAtPlaces
<1>3. UNCHANGED <<steps, cur, item, workflow, decision>>
  BY DEF EnqueueRead, EnqueueWrite, WorkerRead, WorkerWrite, RunExecution, EnterPlanning,
     WriteBack, store, request, locals
<1>4. CASE EnqueueRead \/ WorkerRead \/ RunExecution
  <2>1. exec' = exec
    BY <1>4 DEF EnqueueRead, WorkerRead, RunExecution, store
  <2>2. /\ pc'[Driver] \in {"enqueue_write", "worker_write", "planning_write"}
        /\ pc'[Driver] \in {"enqueue_write", "worker_write"} =>
             copy'[Driver].status = "created"
        /\ Continues(copy[Driver])' /\ ~ copy'[Driver].cancel
    <3>1. CASE EnqueueRead
      <4>1. copy'[Driver] = [exec EXCEPT !.cancel = FALSE] /\ pc'[Driver] = "enqueue_write"
        BY <1>1, <3>1 DEF EnqueueRead, Hold
      <4>2. QED
        BY <1>1, <1>2, <2>1, <4>1 DEF Continues, Execution
    <3>2. CASE WorkerRead
      <4>1. copy'[Driver] = exec /\ pc'[Driver] = "worker_write"
        BY <1>1, <3>2 DEF WorkerRead, Hold
      <4>2. QED
        BY <1>1, <1>2, <2>1, <4>1 DEF Continues
    <3>3. CASE RunExecution
      <4>1. copy'[Driver] = MoveTo(exec, "planning") /\ pc'[Driver] = "planning_write"
        BY <1>1, <1>2, <3>3 DEF RunExecution, Hold, AfterRunRead, ExecutionTerminal
      <4>2. Moved(exec, "planning", MoveTo(exec, "planning"))
        BY <1>1, MoveToMoves
      <4>3. QED
        BY <1>2, <2>1, <4>1, <4>2, Transitions DEF Continues, Moved
    <3>4. QED
      BY <1>4, <3>1, <3>2, <3>3
  <2>3. PhaseInv' /\ DriverHolds'
    BY <2>2 DEF PhaseInv, DriverHolds, InLoop, InStep
  <2>4. exec'.status \in StoredAt(pc'[Driver])
    BY <1>2, <2>1, <2>2, StoredAtPlaces
  <2>5. QED
    BY <1>2, <2>1, <2>2, <2>3, <2>4, DriverGoesOn DEF InLoop
<1>5. CASE EnqueueWrite \/ WorkerWrite \/ EnterPlanning
  <2>1. /\ exec' = copy[Driver] /\ copy' = copy
        /\ \/ pc[Driver] \in {"enqueue_write", "worker_write"} /\ pc'[Driver] \in {"worker_read", "run"}
           \/ pc[Driver] = "planning_write" /\ pc'[Driver] = "plan"
    BY <1>1, <1>5 DEF EnqueueWrite, WorkerWrite, EnterPlanning, WriteBack
  <2>2. /\ pc[Driver] \in {"enqueue_write", "worker_write"} => exec'.status = "created"
        /\ pc[Driver] = "planning_write" => exec'.status = "planning"
    BY <2>1 DEF QuietInv, DriverHolds, IInv, DriverInv
  <2>3. PhaseInv' /\ DriverHolds'
    BY <2>1 DEF PhaseInv, DriverHolds, InLoop, InStep
  <2>4. exec'.status \in StoredAt(pc'[Driver])
    BY <2>1, <2>2, StoredAtPlaces
  <2>5. Continues(copy[Driver])'
    BY <2>1 DEF Continues
  <2>6. QED
    BY <1>2, <2>1, <2>2, <2>3, <2>4, <2>5, DriverGoesOn DEF InLoop
<1>6. QED
  BY <1>4, <1>5

\* The steps planned for the execution are steps.
LEMMA PlanIsOfSteps == TypeOK => workflow \in Workflow /\ PlannedSteps(workflow) \subseteq StepName
BY PlanFacts, InputAssumption DEF TypeOK

\* create_plan and the move to executing: every planned step is pending.
LEMMA QuietPlans ==
  ASSUME IInv, QuietInv, DriverNext, SavePlan \/ EnterExecuting
  PROVE  QuietInv'
<1>1. /\ Driver \in Process /\ exec \in Execution /\ copy[Driver] \in Execution
      /\ pc \in [Process -> DriverPc \cup CancellerPc \cup ApproverPc]
      /\ copy \in [Process -> Execution]
      /\ PlannedSteps(workflow) \subseteq StepName
  BY PlanIsOfSteps DEF IInv, TypeOK, PcOK, Process
<1>2. pc[Driver] \in {"plan", "executing_write"} /\ ~ exec.cancel /\ ~ copy[Driver].cancel
  BY <1>1 DEF SavePlan, EnterExecuting, QuietInv
<1>3. exec.status = "planning"
  BY <1>2, StoredAtPlaces DEF QuietInv
<1>4. CASE SavePlan
  <2>1. exec' = exec /\ pc[Driver] = "plan" /\ pc'[Driver] = "executing_write"
    BY <1>1, <1>4 DEF SavePlan, Hold
  <2>2. copy'[Driver] = [MoveTo(copy[Driver], "executing") EXCEPT !.plan = TRUE]
    BY <1>1, <1>4 DEF SavePlan, Hold
  <2>3. /\ copy'[Driver].status = "executing" /\ copy'[Driver].plan /\ ~ copy'[Driver].cancel
        /\ copy[Driver].timeline \subseteq copy'[Driver].timeline
    BY <1>1, <1>2, <2>2 DEF MoveTo, Execution
  <2>4. Continues(copy[Driver])
    BY <2>1 DEF QuietInv, PendingWrite, Process
  <2>5. Continues(copy[Driver])'
    BY <1>3, <2>1, <2>3, <2>4, Transitions DEF Continues
  <2>6. \A s \in StepName : steps'[s] = IF s \in PlannedSteps(workflow) THEN "pending" ELSE "absent"
    BY <1>4, <2>1 DEF SavePlan, IInv, DriverInv, BeforePlan
  <2>7. workflow' = workflow
    BY <1>4 DEF SavePlan, request
  <2>8. PhaseInv'
    BY <1>1, <2>1, <2>6, <2>7 DEF PhaseInv, InStep, InLoop
  <2>9. DriverHolds'
    BY <2>1, <2>3 DEF DriverHolds
  <2>10. exec'.status \in StoredAt(pc'[Driver])
    BY <1>3, <2>1, StoredAtPlaces
  <2>11. QED
    BY <1>2, <1>3, <2>1, <2>3, <2>5, <2>8, <2>9, <2>10, DriverGoesOn
<1>5. CASE EnterExecuting
  <2>1. /\ exec' = copy[Driver] /\ copy' = copy
        /\ pc[Driver] = "executing_write" /\ pc'[Driver] = "loop"
        /\ UNCHANGED <<steps, cur, item, workflow>>
    BY <1>1, <1>5 DEF EnterExecuting, WriteBack, request, locals
  <2>2. exec'.status = "executing" /\ exec'.plan
    BY <2>1 DEF QuietInv, DriverHolds
  <2>3. \A s \in PlannedSteps(workflow) \cap ValidationSteps : steps[s] = "pending"
    BY <2>1 DEF QuietInv, PhaseInv
  <2>4. PhaseInv'
    BY <2>1, <2>3 DEF PhaseInv, InStep, InLoop
  <2>5. DriverHolds'
    BY <2>1 DEF DriverHolds
  <2>6. exec'.status \in StoredAt(pc'[Driver])
    BY <2>1, <2>2, StoredAtPlaces
  <2>7. QED
    BY <1>2, <2>1, <2>2, <2>4, <2>5, <2>6, DriverGoesOn DEF PendingWrite
<1>6. QED
  BY <1>4, <1>5

\* At the top of the loop the driver enters validation once the other steps have
\* succeeded (_maybe_enter_validating), and then only the validation step is left.
LEMMA EntersInTime ==
  ASSUME TypeOK, DriverInv, Planned, exec.status = "executing",
         \A s \in PlannedSteps(workflow) \cap ValidationSteps : steps[s] = "pending",
         ~ EntersValidating(exec)
  PROVE  ToValidate
<1>1. workflow \in Workflow /\ PlannedSteps(workflow) \subseteq StepName
  BY PlanIsOfSteps
<1>2. Listed = PlannedSteps(workflow)
  BY <1>1 DEF Listed, Planned, DriverInv
<1>3. /\ \E s \in PlannedSteps(workflow) : s \in ValidationSteps
      /\ \E s \in PlannedSteps(workflow) : s \notin ValidationSteps
  BY <1>1, PlacesOf DEF ValidationSteps
<1>4. \E s \in Listed \cap ValidationSteps : steps[s] = "pending"
  BY <1>2, <1>3
<1>5. QED
  BY <1>2, <1>3, <1>4 DEF EntersValidating, ToValidate

\* The top of the loop: the record is read and written back.
LEMMA QuietLoops ==
  ASSUME IInv, QuietInv, DriverNext, LoopRead \/ LoopWrite
  PROVE  QuietInv'
<1>1. /\ Driver \in Process /\ exec \in Execution /\ copy[Driver] \in Execution
      /\ pc \in [Process -> DriverPc \cup CancellerPc \cup ApproverPc]
      /\ copy \in [Process -> Execution]
  BY DEF IInv, TypeOK, PcOK, Process
<1>2. pc[Driver] \in {"loop", "loop_write"} /\ ~ exec.cancel /\ ~ copy[Driver].cancel
  BY <1>1 DEF LoopRead, LoopWrite, QuietInv
<1>3. exec.status \in {"executing", "validating"} /\ exec.plan
  BY <1>2, StoredAtPlaces DEF QuietInv, InLoop
<1>4. UNCHANGED <<steps, results, decision, cur, item, workflow>>
  BY DEF LoopRead, LoopWrite, WriteBack, store, request, locals
<1>5. exec.status = "executing" =>
        \A s \in PlannedSteps(workflow) \cap ValidationSteps : steps[s] = "pending"
  BY <1>2 DEF QuietInv, PhaseInv, InLoop
<1>6. CASE LoopRead
  <2>1. AfterLoopRead(exec) = "loop_write"
    BY <1>2, <1>3 DEF AfterLoopRead, ExecutionTerminal
  <2>2. /\ exec' = exec /\ pc[Driver] = "loop" /\ pc'[Driver] = "loop_write"
        /\ copy'[Driver] = MaybeEnterValidating(exec)
    BY <1>1, <1>6, <2>1 DEF LoopRead, Hold, store
  <2>3. \/ copy'[Driver] = exec /\ (exec.status = "executing" => ToValidate)
        \/ exec.status = "executing" /\ Moved(exec, "validating", copy'[Driver])
    <3>1. CASE EntersValidating(exec)
      BY <1>1, <2>2, <3>1, MoveToMoves DEF MaybeEnterValidating, EntersValidating
    <3>2. CASE ~ EntersValidating(exec)
      <4>1. TypeOK /\ DriverInv /\ Planned
        BY <1>2 DEF IInv, DriverInv, InLoop
      <4>2. QED
        BY <1>5, <2>2, <3>2, <4>1, EntersInTime DEF MaybeEnterValidating
    <3>3. QED
      BY <3>1, <3>2
  <2>4. /\ ~ copy'[Driver].cancel /\ copy'[Driver].plan
        /\ copy'[Driver].status \in {"executing", "validating"}
        /\ copy'[Driver].status = "executing" => exec.status = "executing" /\ ToValidate
        /\ exec.timeline \subseteq copy'[Driver].timeline
        /\ copy'[Driver].status = exec.status \/ ValidExecutionTransition(exec.status, copy'[Driver].status)
    BY <1>2, <1>3, <2>3, Transitions DEF Moved
  <2>5. ToValidate' = ToValidate
    BY <1>4 DEF ToValidate
  <2>6. PhaseInv'
    BY <1>4, <1>5, <2>2, <2>4, <2>5 DEF PhaseInv, InStep
  <2>7. DriverHolds'
    BY <2>2, <2>4 DEF DriverHolds
  <2>8. Continues(copy[Driver])'
    BY <2>2, <2>4 DEF Continues
  <2>9. exec'.status \in StoredAt(pc'[Driver])
    BY <1>3, <2>2, StoredAtPlaces
  <2>10. QED
    BY <1>2, <1>3, <2>2, <2>4, <2>6, <2>7, <2>8, <2>9, DriverGoesOn
<1>7. CASE LoopWrite
  <2>1. /\ exec' = copy[Driver] /\ copy' = copy
        /\ pc[Driver] = "loop_write" /\ pc'[Driver] = "dispatch"
    BY <1>1, <1>7 DEF LoopWrite, WriteBack
  <2>2. /\ exec'.status \in {"executing", "validating"} /\ exec'.plan
        /\ exec'.status = "executing" => exec.status = "executing" /\ ToValidate
    BY <2>1 DEF QuietInv, DriverHolds, PhaseInv
  <2>3. ToValidate' = ToValidate
    BY <1>4 DEF ToValidate
  <2>4. PhaseInv'
    BY <1>4, <1>5, <2>1, <2>2, <2>3 DEF PhaseInv, InStep
  <2>5. DriverHolds'
    BY <2>1 DEF DriverHolds
  <2>6. exec'.status \in StoredAt(pc'[Driver])
    BY <2>1, <2>2, StoredAtPlaces
  <2>7. QED
    BY <1>2, <2>1, <2>2, <2>4, <2>5, <2>6, DriverGoesOn DEF PendingWrite
<1>8. QED
  BY <1>6, <1>7

\* Dispatch: a step that may run, or the end of the plan; never an engine error.
LEMMA QuietDispatches ==
  ASSUME IInv, QuietInv, StepOrder, DriverNext, Dispatch \/ DispatchStops
  PROVE  QuietInv'
<1>1. /\ Driver \in Process /\ exec \in Execution
      /\ pc \in [Process -> DriverPc \cup CancellerPc \cup ApproverPc]
      /\ copy \in [Process -> Execution]
      /\ workflow \in Workflow /\ PlannedSteps(workflow) \subseteq StepName
  BY PlanIsOfSteps DEF IInv, TypeOK, PcOK, Process
<1>2. pc[Driver] = "dispatch" /\ ~ exec.cancel
  BY DEF Dispatch, DispatchStops, QuietInv
<1>3. exec.status \in {"executing", "validating"} /\ exec.plan
  BY <1>2, StoredAtPlaces DEF QuietInv, InLoop
<1>4. Dispatch
  BY <1>3 DEF DispatchStops, ExecutionTerminal
<1>5. exec' = exec /\ UNCHANGED <<steps, results, decision, item, workflow>>
  BY <1>4 DEF Dispatch, store, request
<1>6. exec.status = "executing" =>
        ToValidate /\ \A s \in PlannedSteps(workflow) \cap ValidationSteps : steps[s] = "pending"
  BY <1>2 DEF QuietInv, PhaseInv, InLoop
<1>7. \A s \in PlannedSteps(workflow) : steps[s] \in {"pending", "succeeded"}
  <2>1. \A s \in StepName : steps[s] \in {"absent", "pending", "succeeded"}
    BY <1>2 DEF StepOrder, InStep
  <2>2. Planned
    BY <1>2 DEF IInv, DriverInv, InLoop
  <2>3. QED
    BY <1>1, <2>1, <2>2 DEF Planned
<1>8. /\ DriverHolds' /\ PhaseInv' /\ Continues(copy[Driver])' /\ ~ copy'[Driver].cancel
      /\ pc'[Driver] \in {"step_begin", "propose", "final_write"}
      /\ pc'[Driver] # "step_begin" => exec.status = "validating"
  <2>1. CASE ReadyPlaces # {}
    <3>1. PICK i \in ReadyPlaces : cur' = Plan[workflow][i]
      BY <1>4, <2>1 DEF Dispatch
    <3>2. copy'[Driver] = exec /\ pc'[Driver] = "step_begin"
      BY <1>1, <1>4, <2>1 DEF Dispatch, Hold
    <3>3. cur' \in PlannedSteps(workflow) /\ IsReady(cur')
      BY <3>1 DEF ReadyPlaces, PlannedSteps
    <3>4. cur' \in ValidationSteps => exec.status = "validating"
      <4>1. SUFFICES ASSUME cur' \in ValidationSteps PROVE ~ ToValidate
        BY <1>3, <1>6
      <4>2. QED
        BY <1>1, <1>6, <3>3, <4>1, ValidationComesLast
    <3>5. PhaseInv'
      BY <1>5, <1>6, <3>2, <3>4 DEF PhaseInv, InStep, InLoop
    <3>6. QED
      BY <1>2, <1>5, <3>2, <3>5 DEF DriverHolds, Continues
  <2>2. CASE ReadyPlaces = {}
    <3>1. \A s \in PlannedSteps(workflow) : steps[s] = "succeeded"
      BY <1>1, <1>7, <2>2, NothingReady
    <3>2. exec.status = "validating"
      BY <1>3, <1>6, <3>1 DEF ToValidate
    <3>3. AllSucceeded
      BY <3>1 DEF AllSucceeded, Listed, IInv, DriverInv
    <3>4. /\ cur' = cur
          /\ \/ copy'[Driver] = exec /\ pc'[Driver] = "propose"
             \/ /\ copy'[Driver] = Close(exec, "completed", CompletionResult, ValidationSummary, {})
                /\ pc'[Driver] = "final_write"
      BY <1>1, <1>4, <2>2, <3>2, <3>3 DEF Dispatch, Hold
    <3>5. \/ copy'[Driver] = exec /\ pc'[Driver] = "propose"
          \/ Moved(exec, "completed", copy'[Driver]) /\ pc'[Driver] = "final_write"
      BY <1>1, <3>4, CloseMoves
    <3>6. PhaseInv'
      BY <1>5, <3>1, <3>4 DEF PhaseInv, InStep, InLoop
    <3>7. DriverHolds'
      BY <3>5 DEF DriverHolds, Moved
    <3>8. Continues(copy[Driver])'
      BY <1>5, <3>2, <3>5, Transitions DEF Continues, Moved
    <3>9. QED
      BY <1>2, <3>2, <3>5, <3>6, <3>7, <3>8 DEF Moved
  <2>3. QED
    BY <2>1, <2>2
<1>9. exec'.status \in StoredAt(pc'[Driver])
  BY <1>3, <1>5, <1>8, StoredAtPlaces
<1>10. QED
  BY <1>2, <1>3, <1>5, <1>8, <1>9, DriverGoesOn

\* A step that begins is of the phase the stored record is in.
LEMMA BeginsInPhase ==
  ASSUME TypeOK, QuietInv, StepBegin
  PROVE  PhaseInv'
<1>1. /\ Driver \in Process /\ cur \in StepName /\ steps \in [StepName -> StepStatus \cup {"absent"}]
      /\ pc \in [Process -> DriverPc \cup CancellerPc \cup ApproverPc]
      /\ PlannedSteps(workflow) \subseteq StepName
  BY PlanIsOfSteps DEF TypeOK, PcOK, Process
<1>2. /\ pc[Driver] = "step_begin" /\ pc'[Driver] = "append_read" /\ exec' = exec /\ copy' = copy
      /\ cur' = cur /\ workflow' = workflow /\ \A s \in StepName \ {cur} : steps'[s] = steps[s]
  BY <1>1 DEF StepBegin, request
<1>3. exec.status = "executing" =>
        /\ \A s \in PlannedSteps(workflow) \cap ValidationSteps : steps[s] = "pending"
        /\ cur \notin ValidationSteps
  BY <1>2 DEF QuietInv, PhaseInv, InLoop
<1>4. QED
  BY <1>1, <1>2, <1>3 DEF PhaseInv, InStep, InLoop

\* So is a step that succeeds.
LEMMA SucceedsInPhase ==
  ASSUME TypeOK, QuietInv, StepSucceed
  PROVE  PhaseInv'
<1>1. /\ Driver \in Process /\ cur \in StepName /\ steps \in [StepName -> StepStatus \cup {"absent"}]
      /\ pc \in [Process -> DriverPc \cup CancellerPc \cup ApproverPc]
      /\ PlannedSteps(workflow) \subseteq StepName
  BY PlanIsOfSteps DEF TypeOK, PcOK, Process
<1>2. /\ pc[Driver] = "step_succeed" /\ pc'[Driver] = "append_read" /\ exec' = exec /\ copy' = copy
      /\ cur' = cur /\ workflow' = workflow /\ \A s \in StepName \ {cur} : steps'[s] = steps[s]
  BY <1>1 DEF StepSucceed, request
<1>3. exec.status = "executing" =>
        /\ \A s \in PlannedSteps(workflow) \cap ValidationSteps : steps[s] = "pending"
        /\ cur \notin ValidationSteps
  BY <1>2 DEF QuietInv, PhaseInv, InLoop, InStep
<1>4. QED
  BY <1>1, <1>2, <1>3 DEF PhaseInv, InStep, InLoop

\* _run_step between its two updates of the step: rows are appended around the work
\* items, and the steps stand still.
LEMMA StepGoesOn ==
  ASSUME TypeOK, QuietInv, AppendRead \/ AppendWrite \/ StepWork \/ SaveStepResult
  PROVE  /\ PhaseInv' /\ DriverHolds' /\ ~ exec'.cancel /\ ~ copy'[Driver].cancel
         /\ exec'.plan /\ exec'.status = exec.status
         /\ pc'[Driver] \in {"append_read", "append_write", "work", "step_result", "step_succeed",
                             "loop"}
         /\ PendingWrite(Driver)' => Continues(copy[Driver])'
<1>1. /\ Driver \in Process /\ exec \in Execution /\ item \in Nat
      /\ pc \in [Process -> DriverPc \cup CancellerPc \cup ApproverPc]
      /\ copy \in [Process -> Execution]
  BY DEF TypeOK, PcOK, Process
<1>2. /\ pc[Driver] \in {"append_read", "append_write", "work", "step_result"}
      /\ ~ exec.cancel /\ ~ copy[Driver].cancel
  BY <1>1 DEF AppendRead, AppendWrite, StepWork, SaveStepResult, QuietInv
<1>3. exec.status \in {"executing", "validating"} /\ exec.plan
  BY <1>2, StoredAtPlaces DEF QuietInv, InLoop
<1>4. UNCHANGED <<steps, cur, workflow>>
  BY DEF AppendRead, AppendWrite, StepWork, SaveStepResult, WriteBack, store, request, locals
<1>5. exec.status = "executing" =>
        /\ \A s \in PlannedSteps(workflow) \cap ValidationSteps : steps[s] = "pending"
        /\ cur \notin ValidationSteps
  BY <1>2 DEF QuietInv, PhaseInv, InLoop, InStep
<1>6. Len(Work(cur)) \in Nat
  BY WorkItems
<1>7. CASE AppendRead
  <2>1. /\ exec' = exec /\ item' = item /\ pc[Driver] = "append_read" /\ pc'[Driver] = "append_write"
        /\ copy'[Driver] = AppendTimeline(exec, StepRows(cur, item))
    BY <1>1, <1>7 DEF AppendRead, Hold, store, locals
  <2>2. Moved(exec, exec.status, copy'[Driver])
    BY <1>1, <2>1, AppendTimelineMoves
  <2>3. PhaseInv'
    BY <1>4, <1>5, <2>1 DEF PhaseInv, InStep, InLoop
  <2>4. DriverHolds' /\ Continues(copy[Driver])'
    BY <1>3, <2>1, <2>2 DEF DriverHolds, Continues, Moved
  <2>5. QED
    BY <1>2, <1>3, <2>1, <2>2, <2>3, <2>4 DEF Moved
<1>8. CASE AppendWrite
  <2>1. /\ exec' = copy[Driver] /\ copy' = copy /\ item' = item
        /\ pc[Driver] = "append_write" /\ pc'[Driver] = AfterAppend(cur, item)
    BY <1>1, <1>8 DEF AppendWrite, WriteBack, locals
  <2>2. exec'.status = exec.status /\ exec'.plan
    BY <2>1 DEF QuietInv, DriverHolds
  <2>3. pc'[Driver] \in {"work", "step_result", "loop"}
    BY <1>1, <1>6, <2>1 DEF AfterAppend
  <2>4. PhaseInv'
    BY <1>4, <1>5, <2>2, <2>3 DEF PhaseInv, InStep, InLoop
  <2>5. DriverHolds' /\ ~ PendingWrite(Driver)'
    BY <2>3 DEF DriverHolds, PendingWrite
  <2>6. QED
    BY <1>2, <2>1, <2>2, <2>3, <2>4, <2>5
<1>9. CASE StepWork
  <2>1. /\ exec' = exec /\ copy' = copy
        /\ pc[Driver] = "work" /\ pc'[Driver] = "append_read"
    BY <1>1, <1>9 DEF StepWork
  <2>2. PhaseInv'
    BY <1>4, <1>5, <2>1 DEF PhaseInv, InStep, InLoop
  <2>3. QED
    BY <1>2, <1>3, <2>1, <2>2 DEF DriverHolds, PendingWrite
<1>10. CASE SaveStepResult
  <2>1. /\ exec' = exec /\ copy' = copy
        /\ pc[Driver] = "step_result" /\ pc'[Driver] = "step_succeed"
    BY <1>1, <1>10 DEF SaveStepResult
  <2>2. PhaseInv'
    BY <1>4, <1>5, <2>1 DEF PhaseInv, InStep, InLoop
  <2>3. QED
    BY <1>2, <1>3, <2>1, <2>2 DEF DriverHolds, PendingWrite
<1>11. QED
  BY <1>7, <1>8, <1>9, <1>10

\* One step, from its beginning to its end.
LEMMA QuietSteps ==
  ASSUME IInv, QuietInv, DriverNext,
         StepBegin \/ AppendRead \/ AppendWrite \/ StepWork \/ SaveStepResult \/ StepSucceed
  PROVE  QuietInv'
<1>1. TypeOK /\ DriverInv /\ Driver \in Process
  BY DEF IInv, Process
<1>2. CASE StepBegin \/ StepSucceed
  <2>1. /\ exec' = exec /\ copy' = copy
        /\ pc[Driver] \in {"step_begin", "step_succeed"} /\ pc'[Driver] = "append_read"
    BY <1>1, <1>2 DEF StepBegin, StepSucceed, TypeOK, PcOK
  <2>2. exec.status \in {"executing", "validating"} /\ exec.plan
    BY <2>1, StoredAtPlaces DEF QuietInv, InLoop
  <2>3. PhaseInv'
    BY <1>1, <1>2, BeginsInPhase, SucceedsInPhase
  <2>4. exec'.status \in StoredAt(pc'[Driver])
    BY <2>1, <2>2, StoredAtPlaces
  <2>5. ~ exec.cancel /\ ~ copy[Driver].cancel
    BY <1>1 DEF QuietInv
  <2>6. DriverHolds' /\ ~ PendingWrite(Driver)'
    BY <2>1 DEF DriverHolds, PendingWrite
  <2>7. QED
    BY <2>1, <2>2, <2>3, <2>4, <2>5, <2>6, DriverGoesOn
<1>3. CASE AppendRead \/ AppendWrite \/ StepWork \/ SaveStepResult
  <2>1. pc[Driver] \in {"append_read", "append_write", "work", "step_result"}
    BY <1>3 DEF AppendRead, AppendWrite, StepWork, SaveStepResult
  <2>2. exec.status \in {"executing", "validating"}
    BY <2>1, StoredAtPlaces DEF QuietInv
  <2>3. exec'.status \in StoredAt(pc'[Driver]) /\ exec'.status # "failed"
    BY <1>1, <1>3, <2>2, StepGoesOn, StoredAtPlaces
  <2>4. QED
    BY <1>1, <1>3, <2>3, StepGoesOn, DriverGoesOn
<1>4. QED
  BY <1>2, <1>3

\* The governance of an incident triage: it works on one record to the end.
LEMMA QuietGoverns ==
  ASSUME IInv, QuietInv, DriverNext, Propose \/ EvaluatePolicy \/ SettleProposal
  PROVE  QuietInv'
<1>1. /\ Driver \in Process /\ exec \in Execution /\ copy[Driver] \in Execution
      /\ pc \in [Process -> DriverPc \cup CancellerPc \cup ApproverPc]
      /\ copy \in [Process -> Execution]
  BY DEF IInv, TypeOK, PcOK, Process
<1>2. /\ pc[Driver] \in {"propose", "evaluate", "settle"}
      /\ ~ exec.cancel /\ ~ copy[Driver].cancel
  BY <1>1 DEF Propose, EvaluatePolicy, SettleProposal, QuietInv
<1>3. /\ exec.status = "validating" /\ copy[Driver].status = "validating"
      /\ exec.timeline \subseteq copy[Driver].timeline
      /\ \A s \in PlannedSteps(workflow) : steps[s] = "succeeded"
  <2>1. exec.status = "validating"
    BY <1>2, StoredAtPlaces DEF QuietInv
  <2>2. /\ copy[Driver].status = "validating"
        /\ \A s \in PlannedSteps(workflow) : steps[s] = "succeeded"
    BY <1>2 DEF IInv, DriverInv, InGovernance
  <2>3. Continues(copy[Driver])
    BY <1>1, <1>2 DEF QuietInv, PendingWrite
  <2>4. QED
    BY <2>1, <2>2, <2>3 DEF Continues
<1>4. exec' = exec /\ UNCHANGED <<steps, cur, item, workflow>>
  BY DEF Propose, EvaluatePolicy, SettleProposal, store, request, locals
<1>5. \/ pc'[Driver] \in {"evaluate", "settle"} /\ Moved(copy[Driver], "validating", copy'[Driver])
      \/ /\ pc'[Driver] = "final_write"
         /\ \E s \in {"completed", "awaiting_approval", "failed"} :
              Moved(copy[Driver], s, copy'[Driver]) /\ (s = "failed" => decision' = "deny")
  <2>1. CASE Propose
    <3>1. /\ pc'[Driver] = "evaluate"
          /\ copy'[Driver] = AppendTimeline(copy[Driver], {<<"action_proposed", "proposal">>})
      BY <1>1, <2>1 DEF Propose, Hold
    <3>2. QED
      BY <1>1, <1>3, <3>1, AppendTimelineMoves
  <2>2. CASE EvaluatePolicy
    <3>1. /\ pc'[Driver] = "settle"
          /\ copy'[Driver] = AppendTimeline(copy[Driver], {<<"policy_evaluated", "proposal">>})
      BY <1>1, <2>2 DEF EvaluatePolicy, Hold
    <3>2. QED
      BY <1>1, <1>3, <3>1, AppendTimelineMoves
  <2>3. CASE SettleProposal
    <3>1. \E s \in {"completed", "awaiting_approval", "failed"} : \E result, rows :
            /\ copy'[Driver] = Close(copy[Driver], s, result, ValidationSummary, rows)
            /\ s = "failed" => decision' = "deny"
      <4>1. CASE SettleDenied
        BY <1>1, <2>3, <4>1 DEF SettleProposal, SettleDenied, Hold
      <4>2. CASE SettleAllowed
        BY <1>1, <2>3, <4>2 DEF SettleProposal, SettleAllowed, Hold
      <4>3. CASE SettleConditional
        BY <1>1, <2>3, <4>3 DEF SettleProposal, SettleConditional, Hold
      <4>4. QED
        BY <2>3, <4>1, <4>2, <4>3 DEF SettleProposal
    <3>2. pc'[Driver] = "final_write"
      BY <1>1, <2>3 DEF SettleProposal, SettleDenied, SettleAllowed, SettleConditional, Hold
    <3>3. QED
      BY <1>1, <3>1, <3>2, CloseMoves
  <2>4. QED
    BY <2>1, <2>2, <2>3
<1>6. Continues(copy[Driver])' /\ ~ copy'[Driver].cancel
  BY <1>2, <1>3, <1>4, <1>5, Transitions DEF Continues, Moved
<1>7. PhaseInv'
  BY <1>3, <1>4, <1>5 DEF PhaseInv, InStep, InLoop
<1>8. DriverHolds'
  BY <1>5 DEF DriverHolds, Moved
<1>9. exec'.status \in StoredAt(pc'[Driver])
  BY <1>3, <1>4, <1>5, StoredAtPlaces
<1>10. QED
  BY <1>2, <1>3, <1>4, <1>5, <1>6, <1>7, <1>8, <1>9, DriverGoesOn DEF InLoop

\* The last write of the driver closes the record, or puts it before an approver.
LEMMA QuietCloses ==
  ASSUME IInv, QuietInv, DriverNext, FinalWrite
  PROVE  QuietInv'
<1>1. /\ Driver \in Process
      /\ pc \in [Process -> DriverPc \cup CancellerPc \cup ApproverPc]
  BY DEF IInv, TypeOK, PcOK, Process
<1>2. /\ exec' = copy[Driver] /\ copy' = copy /\ UNCHANGED <<steps, cur, item, workflow, decision>>
      /\ pc[Driver] = "final_write" /\ pc'[Driver] = "done"
  BY <1>1 DEF FinalWrite, WriteBack, request, locals
<1>3. /\ exec'.status \in {"completed", "awaiting_approval", "failed"} /\ ~ exec'.cancel
      /\ exec'.status = "failed" => decision = "deny"
  BY <1>1, <1>2 DEF QuietInv, DriverHolds
<1>4. PhaseInv'
  BY <1>2 DEF QuietInv, PhaseInv, InStep, InLoop
<1>5. exec'.status \in StoredAt(pc'[Driver])
  BY <1>2, <1>3, StoredAtPlaces
<1>6. QED
  BY <1>2, <1>3, <1>4, <1>5, DriverGoesOn DEF DriverHolds, PendingWrite, InLoop

\* The driver does not see the flag, and its engine does not raise.
LEMMA QuietNeverFails == QuietInv => ~ DriverCancels /\ ~ DriverFails
BY DEF QuietInv, DriverCancels, DriverFails

\* Every step of the driver keeps the invariant.
LEMMA QuietDrives ==
  ASSUME IInv, QuietInv, StepOrder, DriverNext
  PROVE  QuietInv'
BY QuietPrepares, QuietPlans, QuietLoops, QuietDispatches, QuietSteps, QuietGoverns,
   QuietCloses, QuietNeverFails DEF DriverNext

\* A step writes the record some process was about to write, or leaves the store alone.
LEMMA WritesWhatIsPending ==
  ASSUME TypeOK, [Next]_vars
  PROVE  exec' = exec \/ \E p \in Process : PendingWrite(p) /\ exec' = copy[p]
<1>1. CASE DriverNext
  <2>1. CASE EnqueueWrite \/ WorkerWrite \/ EnterPlanning \/ EnterExecuting \/ LoopWrite
             \/ AppendWrite \/ FinalWrite
    BY <2>1 DEF EnqueueWrite, WorkerWrite, EnterPlanning, EnterExecuting, LoopWrite, AppendWrite,
       FinalWrite, WriteBack, PendingWrite, Process
  <2>2. CASE ~ (EnqueueWrite \/ WorkerWrite \/ EnterPlanning \/ EnterExecuting \/ LoopWrite
                \/ AppendWrite \/ FinalWrite)
    BY <1>1, <2>2 DEF DriverNext, EnqueueRead, WorkerRead, RunExecution, SavePlan, LoopRead,
       Dispatch, DispatchStops, StepBegin, AppendRead, StepWork, SaveStepResult, StepSucceed,
       Propose, EvaluatePolicy, SettleProposal, DriverCancels, DriverFails, store
  <2>3. QED
    BY <2>1, <2>2
<1>2. ASSUME NEW c \in Cancellers, CancellerNext(c)
      PROVE  exec' = exec \/ \E p \in Process : PendingWrite(p) /\ exec' = copy[p]
  BY <1>2 DEF CancellerNext, RequestCancellationRead, RequestCancellationWrite,
     CancelExecutionRead, CancelExecutionWrite, WriteBack, store, PendingWrite, Process
<1>3. ASSUME NEW a \in Approvers, ApproverNext(a)
      PROVE  exec' = exec \/ \E p \in Process : PendingWrite(p) /\ exec' = copy[p]
  BY <1>3 DEF ApproverNext, ApproverContinues, SubmitApproval, SubmitApprovalRefused,
     SaveApproval, ResolveRejected, ResolveGranted, ApprovalWrite, WriteBack, store,
     PendingWrite, Process
<1>4. CASE UNCHANGED vars
  BY <1>4 DEF vars, store
<1>5. QED
  BY <1>1, <1>2, <1>3, <1>4 DEF Next, Finished

\* A step of an approver leaves the driver's rows and everybody else alone.
LEMMA ApproverLeaves ==
  ASSUME TypeOK, NEW a \in Approvers, ApproverNext(a)
  PROVE  /\ UNCHANGED <<steps, results, decision, workflow, context, cur, item>>
         /\ \A p \in Process \ {a} : pc'[p] = pc[p] /\ copy'[p] = copy[p]
         /\ pc'[Driver] = pc[Driver] /\ copy'[Driver] = copy[Driver]
         /\ approvals \subseteq approvals'
<1>1. /\ UNCHANGED <<steps, results, decision, workflow, context, cur, item>>
      /\ \A p \in Process \ {a} : pc'[p] = pc[p] /\ copy'[p] = copy[p]
      /\ approvals \subseteq approvals'
  BY DEF TypeOK, PcOK, Process, ApproverNext, ApproverContinues, SubmitApproval,
     SubmitApprovalRefused, SaveApproval, ResolveRejected, ResolveGranted, ApprovalWrite,
     Hold, WriteBack, store, request, locals
<1>2. Driver \in Process \ {a}
  BY ProcessAssumption DEF Process
<1>3. QED
  BY <1>1, <1>2

\* The record an approver goes on with while nobody asks for cancellation.
LEMMA ApproverTakes ==
  ASSUME IInv, QuietInv, NEW a \in Approvers, ApproverNext(a)
  PROVE  /\ ~ copy'[a].cancel
         /\ PendingWrite(a)' => pc[Driver] = "done"
         /\ pc'[a] = "approval_write" =>
              /\ copy'[a].status \in {"completed", "failed"}
              /\ copy'[a].status = "failed" => <<a, "reject">> \in approvals'
<1>1. /\ a \in Process /\ exec \in Execution /\ copy \in [Process -> Execution]
      /\ copy[a] \in Execution /\ ~ exec.cancel /\ ~ copy[a].cancel
      /\ pc \in [Process -> DriverPc \cup CancellerPc \cup ApproverPc]
  BY DEF IInv, TypeOK, PcOK, Process, QuietInv
<1>2. CASE SubmitApproval(a)
  <2>1. copy'[a] = exec /\ pc'[a] \in {"approve", "reject"} /\ exec.status = "awaiting_approval"
    BY <1>1, <1>2 DEF SubmitApproval, Hold
  <2>2. pc[Driver] = "done"
    BY <2>1, StoredAtPlaces DEF QuietInv, IInv, TypeOK, PcOK, DriverPc
  <2>3. QED
    BY <1>1, <2>1, <2>2
<1>3. CASE SubmitApprovalRefused(a)
  <2>1. copy'[a] = copy[a] /\ pc'[a] = "refused"
    BY <1>1, <1>3 DEF SubmitApprovalRefused
  <2>2. QED
    BY <1>1, <2>1 DEF PendingWrite
<1>4. CASE SaveApproval(a)
  <2>1. /\ copy'[a] = AppendTimeline(copy[a], {<<"approval_received", a>>})
        /\ pc[a] \in {"approve", "reject"} /\ pc'[a] \in {"granted", "rejected"}
    BY <1>1, <1>4 DEF SaveApproval, Hold
  <2>2. Moved(copy[a], copy[a].status, copy'[a]) /\ PendingWrite(a)
    BY <1>1, <2>1, AppendTimelineMoves DEF PendingWrite
  <2>3. QED
    BY <1>1, <2>1, <2>2 DEF Moved, QuietInv, ApproverHolds
<1>5. CASE ResolveRejected(a) \/ ResolveGranted(a)
  <2>1. pc[a] \in {"granted", "rejected"} /\ pc'[a] = "approval_write" /\ approvals' = approvals
    BY <1>1, <1>5 DEF ResolveRejected, ResolveGranted, Hold
  <2>2. \E s \in {"completed", "failed"} : \E result, rows :
          /\ copy'[a] = Close(copy[a], s, result, ValidationSummary, rows)
          /\ s = "failed" => pc[a] = "rejected"
    BY <1>1, <1>5 DEF ResolveRejected, ResolveGranted, Hold
  <2>3. \E s \in {"completed", "failed"} :
          Moved(copy[a], s, copy'[a]) /\ (s = "failed" => pc[a] = "rejected")
    BY <1>1, <2>2, CloseMoves
  <2>4. pc[a] = "rejected" => <<a, "reject">> \in approvals
    BY DEF IInv, ApproverInv
  <2>5. pc[Driver] = "done"
    BY <2>1 DEF QuietInv, ApproverHolds, PendingWrite
  <2>6. QED
    BY <1>1, <2>1, <2>3, <2>4, <2>5 DEF Moved
<1>6. CASE ApprovalWrite(a)
  <2>1. copy'[a] = copy[a] /\ pc'[a] = "done"
    BY <1>1, <1>6 DEF ApprovalWrite, WriteBack
  <2>2. QED
    BY <1>1, <2>1 DEF PendingWrite
<1>7. QED
  BY <1>2, <1>3, <1>4, <1>5, <1>6 DEF ApproverNext, ApproverContinues

\* The approvers come after the driver, however many there are.
LEMMA QuietApproves ==
  ASSUME IInv, QuietInv, NEW a \in Approvers, ApproverNext(a)
  PROVE  QuietInv'
<1>1. /\ a \in Process /\ a # Driver /\ TypeOK
      /\ copy \in [Process -> Execution]
      /\ pc \in [Process -> DriverPc \cup CancellerPc \cup ApproverPc]
  BY ProcessAssumption DEF IInv, TypeOK, PcOK, Process
<1>2. /\ UNCHANGED <<steps, results, decision, workflow, context, cur, item>>
      /\ \A p \in Process \ {a} : pc'[p] = pc[p] /\ copy'[p] = copy[p]
      /\ pc'[Driver] = pc[Driver] /\ copy'[Driver] = copy[Driver]
      /\ approvals \subseteq approvals'
  BY <1>1, ApproverLeaves
<1>3. /\ ~ copy'[a].cancel
      /\ PendingWrite(a)' => pc[Driver] = "done"
      /\ pc'[a] = "approval_write" =>
           /\ copy'[a].status \in {"completed", "failed"}
           /\ copy'[a].status = "failed" => <<a, "reject">> \in approvals'
  BY ApproverTakes
<1>4. \/ exec' = exec
      \/ /\ exec' = copy[a] /\ pc[Driver] = "done"
         /\ exec'.status \in {"completed", "failed"}
         /\ exec'.status = "failed" => <<a, "reject">> \in approvals
  <2>1. CASE ApprovalWrite(a)
    <3>1. exec' = copy[a] /\ pc[a] = "approval_write"
      BY <2>1 DEF ApprovalWrite, WriteBack
    <3>2. QED
      BY <3>1 DEF QuietInv, ApproverHolds, PendingWrite
  <2>2. CASE ~ ApprovalWrite(a)
    BY <2>2 DEF ApproverNext, ApproverContinues, SubmitApproval, SubmitApprovalRefused,
       SaveApproval, ResolveRejected, ResolveGranted, store
  <2>3. QED
    BY <2>1, <2>2
<1>5. ~ exec'.cancel /\ \A p \in Process : ~ copy'[p].cancel
  BY <1>1, <1>2, <1>3, <1>4 DEF QuietInv
<1>6. exec'.status \in StoredAt(pc'[Driver])
  BY <1>2, <1>4, StoredAtPlaces DEF QuietInv
<1>7. pc'[Driver] \in InLoop \ {"executing_write"} => exec'.plan
  BY <1>2, <1>4 DEF QuietInv, InLoop
<1>8. PhaseInv' /\ DriverHolds'
  BY <1>2, <1>4 DEF QuietInv, PhaseInv, DriverHolds, InStep, InLoop, ToValidate
<1>9. ApproverHolds'
  <2>1. ASSUME NEW b \in Approvers, b # a, PendingWrite(b)'
        PROVE  /\ pc'[Driver] = "done"
               /\ pc'[b] = "approval_write" =>
                    /\ copy'[b].status \in {"completed", "failed"}
                    /\ copy'[b].status = "failed" => <<b, "reject">> \in approvals'
    <3>1. pc'[b] = pc[b] /\ copy'[b] = copy[b] /\ PendingWrite(b)
      BY <1>2, <2>1 DEF PendingWrite, Process
    <3>2. QED
      BY <1>2, <3>1 DEF QuietInv, ApproverHolds
  <2>2. QED
    BY <1>2, <1>3, <2>1 DEF ApproverHolds
<1>10. PendingWrite(Driver)' => Continues(copy[Driver])'
  BY <1>2, <1>4 DEF QuietInv, PendingWrite, Continues
<1>11. FailsOnlyWhenRefused'
  BY <1>2, <1>4 DEF QuietInv, FailsOnlyWhenRefused, ActionRefused
<1>12. QED
  BY <1>2, <1>5, <1>6, <1>7, <1>8, <1>9, <1>10, <1>11 DEF QuietInv

\* Before anybody has done anything.
LEMMA QuietBegins == Init => QuietInv
<1> SUFFICES ASSUME Init PROVE QuietInv
  OBVIOUS
<1>1. Driver \in Process /\ \A a \in Approvers : a \in Process /\ a # Driver
  BY ProcessAssumption DEF Process
<1>2. /\ pc[Driver] \in {"enqueue_read", "run"} /\ \A p \in Process \ {Driver} : pc[p] = "idle"
      /\ exec = NewExecution /\ \A p \in Process : copy[p] = NewExecution
      /\ \A s \in StepName : steps[s] = "absent"
  BY <1>1 DEF Init
<1>3. exec.status = "created" /\ ~ exec.cancel
  BY <1>2 DEF NewExecution
<1>4. \A p \in Process : ~ PendingWrite(p)
  BY <1>2 DEF PendingWrite
<1>5. exec.status \in StoredAt(pc[Driver])
  BY <1>2, <1>3, StoredAtPlaces
<1>6. PhaseInv /\ DriverHolds
  BY <1>2 DEF PhaseInv, DriverHolds, InStep, InLoop
<1>7. ApproverHolds
  BY <1>1, <1>4 DEF ApproverHolds
<1>8. QED
  BY <1>1, <1>2, <1>3, <1>4, <1>5, <1>6, <1>7 DEF QuietInv, FailsOnlyWhenRefused, InLoop

(***************************************************************************)
(* The ends of an execution are accounted for, for any number of threads.  *)
(***************************************************************************)

\* What has happened stays so: steps that succeeded, refusals and cancel requests.
Forward ==
  /\ PlanSucceeded => PlanSucceeded'
  /\ ActionRefused => ActionRefused'
  /\ CancellationAsked => CancellationAsked'

\* cancel_execution leaves the status, or makes it cancelled.
LEMMA CancelledStatus ==
  ASSUME NEW r \in Execution
  PROVE  /\ CancelMeta(r).status = r.status /\ CancelMeta(r).cancel
         /\ Cancelled(r).status \in {r.status, "cancelled"} /\ Cancelled(r).cancel
<1>1. CancelMeta(r).status = r.status /\ CancelMeta(r).cancel /\ CancelMeta(r) \in Execution
  BY DEF CancelMeta, Execution
<1>2. CASE ValidExecutionTransition(r.status, "cancelled")
  <2>1. Cancelled(r) = [MoveTo(CancelMeta(r), "cancelled") EXCEPT !.result = "cancelled"]
    BY <1>2 DEF Cancelled
  <2>2. QED
    BY <1>1, <2>1 DEF MoveTo, Execution
<1>3. CASE ~ ValidExecutionTransition(r.status, "cancelled")
  BY <1>1, <1>3 DEF Cancelled
<1>4. QED
  BY <1>1, <1>2, <1>3

\* A step of a cancelling thread changes the record, its copy and its place at most.
LEMMA CancellerLeaves ==
  ASSUME TypeOK, NEW c \in Cancellers, CancellerNext(c)
  PROVE  /\ UNCHANGED <<steps, results, proposal, decision, approvals, workflow, cur, item>>
         /\ \A p \in Process \ {c} : pc'[p] = pc[p] /\ copy'[p] = copy[p]
         /\ pc'[Driver] = pc[Driver] /\ copy'[Driver] = copy[Driver]
         /\ pc'[c] # "idle"
<1>1. /\ UNCHANGED <<steps, results, proposal, decision, approvals, workflow, cur, item>>
      /\ \A p \in Process \ {c} : pc'[p] = pc[p] /\ copy'[p] = copy[p]
      /\ pc'[c] # "idle"
  BY DEF TypeOK, PcOK, Process, CancellerNext, RequestCancellationRead,
     RequestCancellationWrite, CancelExecutionRead, CancelExecutionWrite, AfterRequest,
     Hold, WriteBack, store, request, locals
<1>2. Driver \in Process \ {c}
  BY ProcessAssumption DEF Process
<1>3. QED
  BY <1>1, <1>2

\* No step of the driver undoes a plan that has run, or the rows of its governance.
LEMMA DriverForward ==
  ASSUME IInv, DriverNext
  PROVE  Forward /\ (proposal # "none" => proposal' # "none")
<1>1. /\ TypeOK /\ DriverInv /\ Driver \in Process /\ cur \in StepName
      /\ steps \in [StepName -> StepStatus \cup {"absent"}]
      /\ PlannedSteps(workflow) \subseteq StepName
      /\ PlannedSteps(workflow) \cap ValidationSteps # {}
  BY PlanFacts, PlanIsOfSteps DEF IInv, TypeOK, Process
<1>2. /\ approvals' = approvals
      /\ \A p \in Process \ {Driver} : pc'[p] = pc[p] /\ copy'[p] = copy[p]
  BY <1>1, DriverLeavesApprovers
<1>3. CancellationAsked => CancellationAsked'
  BY <1>2, ProcessAssumption DEF CancellationAsked, Process
<1>4. PlanSucceeded => PlanSucceeded'
  <2>1. workflow' = workflow
    BY DEF DriverNext, EnqueueRead, EnqueueWrite, WorkerRead, WorkerWrite, RunExecution,
       EnterPlanning, SavePlan, EnterExecuting, LoopRead, LoopWrite, Dispatch, DispatchStops,
       StepBegin, AppendRead, AppendWrite, StepWork, SaveStepResult, StepSucceed, Propose,
       EvaluatePolicy, SettleProposal, FinalWrite, DriverCancels, DriverFails, WriteBack, request
  <2>2. CASE SavePlan
    <3>1. \A s \in StepName : steps[s] = "absent"
      BY <1>1, <2>2 DEF SavePlan, DriverInv, BeforePlan
    <3>2. QED
      BY <1>1, <3>1 DEF PlanSucceeded
  <2>3. CASE StepBegin
    <3>1. steps[cur] # "succeeded" /\ \A s \in StepName \ {cur} : steps'[s] = steps[s]
      BY <1>1, <2>3 DEF StepBegin, ValidStepTransition, StepTerminal, StepAllowed
    <3>2. QED
      BY <1>1, <2>1, <3>1 DEF PlanSucceeded
  <2>4. CASE StepSucceed
    <3>1. steps' = [steps EXCEPT ![cur] = "succeeded"]
      BY <2>4 DEF StepSucceed
    <3>2. QED
      BY <1>1, <2>1, <3>1 DEF PlanSucceeded
  <2>5. CASE ~ SavePlan /\ ~ StepBegin /\ ~ StepSucceed
    <3>1. steps' = steps
      BY <2>5 DEF DriverNext, EnqueueRead, EnqueueWrite, WorkerRead, WorkerWrite, RunExecution,
         EnterPlanning, EnterExecuting, LoopRead, LoopWrite, Dispatch, DispatchStops, AppendRead,
         AppendWrite, StepWork, SaveStepResult, Propose, EvaluatePolicy, SettleProposal,
         FinalWrite, DriverCancels, DriverFails, WriteBack, store
    <3>2. QED
      BY <2>1, <3>1 DEF PlanSucceeded
  <2>6. QED
    BY <2>2, <2>3, <2>4, <2>5
<1>5. decision = "deny" => decision' = "deny"
  <2>1. CASE EvaluatePolicy
    BY <1>1, <2>1 DEF EvaluatePolicy, DriverInv
  <2>2. CASE ~ EvaluatePolicy
    BY <2>2 DEF DriverNext, EnqueueRead, EnqueueWrite, WorkerRead, WorkerWrite, RunExecution,
       EnterPlanning, SavePlan, EnterExecuting, LoopRead, LoopWrite, Dispatch, DispatchStops,
       StepBegin, AppendRead, AppendWrite, StepWork, SaveStepResult, StepSucceed, Propose,
       SettleProposal, FinalWrite, DriverCancels, DriverFails, WriteBack, store
  <2>3. QED
    BY <2>1, <2>2
<1>6. proposal # "none" => proposal' # "none"
  <2>1. CASE Propose \/ SettleProposal
    BY <2>1 DEF Propose, SettleProposal, SettleDenied, SettleAllowed, SettleConditional
  <2>2. CASE ~ (Propose \/ SettleProposal)
    BY <2>2 DEF DriverNext, EnqueueRead, EnqueueWrite, WorkerRead, WorkerWrite, RunExecution,
       EnterPlanning, SavePlan, EnterExecuting, LoopRead, LoopWrite, Dispatch, DispatchStops,
       StepBegin, AppendRead, AppendWrite, StepWork, SaveStepResult, StepSucceed,
       EvaluatePolicy, FinalWrite, DriverCancels, DriverFails, WriteBack, store
  <2>3. QED
    BY <2>1, <2>2
<1>7. QED
  BY <1>2, <1>3, <1>4, <1>5, <1>6 DEF Forward, ActionRefused

\* Where the driver's copy gets its status from.
LEMMA DriverTakes ==
  ASSUME IInv, DriverNext
  PROVE  \/ copy'[Driver].status \in {copy[Driver].status, exec.status}
         \/ copy'[Driver].status \in {"planning", "executing", "validating", "completed",
                                      "awaiting_approval"}
         \/ pc[Driver] = "settle" /\ decision = "deny" /\ copy'[Driver].status = "failed"
         \/ pc[Driver] = "fail" /\ copy'[Driver].status = "failed"
         \/ pc[Driver] = "cancel" /\ copy'[Driver].status = "cancelled"
<1>1. /\ Driver \in Process /\ exec \in Execution /\ copy[Driver] \in Execution
      /\ copy \in [Process -> Execution]
  BY DEF IInv, TypeOK, Process
<1>2. CASE EnqueueRead \/ WorkerRead \/ DispatchStops
  <2>1. copy'[Driver] = exec \/ copy'[Driver] = [exec EXCEPT !.cancel = FALSE]
    BY <1>1, <1>2 DEF EnqueueRead, WorkerRead, DispatchStops, Hold
  <2>2. QED
    BY <1>1, <2>1 DEF Execution
<1>3. CASE RunExecution \/ LoopRead
  <2>1. \/ copy'[Driver] = exec
        \/ \E s \in {"planning", "validating"} : copy'[Driver] = MoveTo(exec, s)
    BY <1>1, <1>3 DEF RunExecution, LoopRead, MaybeEnterValidating, Hold
  <2>2. QED
    BY <1>1, <2>1, MoveToMoves DEF Moved
<1>4. CASE SavePlan
  <2>1. copy'[Driver] = [MoveTo(copy[Driver], "executing") EXCEPT !.plan = TRUE]
    BY <1>1, <1>4 DEF SavePlan, Hold
  <2>2. QED
    BY <1>1, <2>1 DEF MoveTo, Execution
<1>5. CASE Dispatch
  <2>1. \/ copy'[Driver] = exec
        \/ copy'[Driver] = Close(exec, "completed", CompletionResult, ValidationSummary, {})
    BY <1>1, <1>5 DEF Dispatch, Hold
  <2>2. QED
    BY <1>1, <2>1, CloseMoves DEF Moved
<1>6. CASE EnqueueWrite \/ WorkerWrite \/ EnterPlanning \/ EnterExecuting \/ LoopWrite
           \/ AppendWrite \/ FinalWrite \/ StepBegin \/ StepWork \/ SaveStepResult \/ StepSucceed
  BY <1>6 DEF EnqueueWrite, WorkerWrite, EnterPlanning, EnterExecuting, LoopWrite, AppendWrite,
     FinalWrite, StepBegin, StepWork, SaveStepResult, StepSucceed, WriteBack
<1>7. CASE AppendRead
  <2>1. copy'[Driver] = AppendTimeline(exec, StepRows(cur, item))
    BY <1>1, <1>7 DEF AppendRead, Hold
  <2>2. QED
    BY <1>1, <2>1, AppendTimelineMoves DEF Moved
<1>8. CASE Propose \/ EvaluatePolicy
  <2>1. \E rows : copy'[Driver] = AppendTimeline(copy[Driver], rows)
    BY <1>1, <1>8 DEF Propose, EvaluatePolicy, Hold
  <2>2. QED
    BY <1>1, <2>1, AppendTimelineMoves DEF Moved
<1>9. CASE SettleProposal
  <2>1. \E s \in {"completed", "awaiting_approval", "failed"} : \E result, rows :
          /\ copy'[Driver] = Close(copy[Driver], s, result, ValidationSummary, rows)
          /\ s = "failed" => decision = "deny"
    <3>1. CASE SettleDenied
      BY <1>1, <3>1 DEF SettleDenied, Hold
    <3>2. CASE SettleAllowed
      BY <1>1, <3>2 DEF SettleAllowed, Hold
    <3>3. CASE SettleConditional
      BY <1>1, <3>3 DEF SettleConditional, Hold
    <3>4. QED
      BY <1>9, <3>1, <3>2, <3>3 DEF SettleProposal
  <2>2. pc[Driver] = "settle"
    BY <1>9 DEF SettleProposal
  <2>3. QED
    BY <1>1, <2>1, <2>2, CloseMoves DEF Moved
<1>10. CASE DriverCancels
  <2>1. copy'[Driver] = Cancelled(exec) /\ pc[Driver] = "cancel"
    BY <1>1, <1>10 DEF DriverCancels, Hold
  <2>2. QED
    BY <1>1, <2>1, CancelledStatus
<1>11. CASE DriverFails
  <2>1. /\ copy'[Driver] = exec \/ copy'[Driver] = [MoveTo(exec, "failed") EXCEPT !.result = "failed"]
        /\ pc[Driver] = "fail"
    BY <1>1, <1>11 DEF DriverFails, Hold
  <2>2. QED
    BY <1>1, <2>1 DEF MoveTo, Execution
<1>12. QED
  BY <1>2, <1>3, <1>4, <1>5, <1>6, <1>7, <1>8, <1>9, <1>10, <1>11 DEF DriverNext

\* Accounts of a record that stays are not taken back.
LEMMA ExecAccounted ==
  ASSUME Accounted(exec), Forward, exec' = exec
  PROVE  Accounted(exec)'
BY DEF Accounted, Forward

\* The same for a thread's copy.
LEMMA CopyAccounted ==
  ASSUME NEW p \in Process, Accounted(copy[p]), Forward,
         copy'[p] = copy[p]
  PROVE  Accounted(copy[p])'
BY DEF Accounted, Forward

\* A record that is written was accounted for in the hands of its writer.
LEMMA WrittenAccounted ==
  ASSUME TypeOK, [Next]_vars, EndsInv, Forward
  PROVE  Accounted(exec)'
<1>1. exec' = exec \/ \E p \in Process : exec' = copy[p]
  BY WritesWhatIsPending
<1>2. Accounted(exec) /\ \A p \in Process : Accounted(copy[p])
  BY DEF EndsInv
<1>3. QED
  BY <1>1, <1>2 DEF Accounted, Forward

\* A completed record in anybody's hands has run its whole plan.
LEMMA CompletedRan ==
  ASSUME IInv, NEW p \in Process, copy[p].status \in {"completed", "awaiting_approval"}
  PROVE  PlanSucceeded
BY DEF IInv, AllSound, Sound, FullyValidated, PlanSucceeded

\* The driver fails a run only when the plan has run and a cancel request has moved
\* its record back; the loop keeps a plan, or the flag, on the record.
LEMMA DriverKeepsPlan ==
  ASSUME IInv, EndsInv, StepOrder, DriverNext
  PROVE  /\ pc'[Driver] \in InLoop \ {"executing_write"} => PlanKnown(exec)'
         /\ pc'[Driver] \in {"executing_write", "loop_write", "append_write"} =>
              PlanKnown(copy[Driver])'
         /\ pc'[Driver] = "fail" => PlanSucceeded
<1>1. /\ Driver \in Process /\ exec \in Execution /\ copy[Driver] \in Execution
      /\ copy \in [Process -> Execution] /\ TypeOK /\ DriverInv /\ Sound(exec)
      /\ pc \in [Process -> DriverPc \cup CancellerPc \cup ApproverPc]
      /\ workflow \in Workflow /\ PlannedSteps(workflow) \subseteq StepName
      /\ PlannedSteps(workflow) \cap ValidationSteps # {}
  BY PlanFacts, PlanIsOfSteps DEF IInv, AllSound, TypeOK, PcOK, Process
<1>2. CASE EnqueueRead \/ EnqueueWrite \/ WorkerRead \/ WorkerWrite \/ EnterPlanning
           \/ DispatchStops \/ Propose \/ EvaluatePolicy \/ SettleProposal \/ FinalWrite
           \/ DriverCancels \/ DriverFails
  <2>1. pc'[Driver] \notin InLoop \cup {"fail"}
    BY <1>1, <1>2 DEF EnqueueRead, EnqueueWrite, WorkerRead, WorkerWrite, EnterPlanning,
       DispatchStops, Propose, EvaluatePolicy, SettleProposal, SettleDenied, SettleAllowed,
       SettleConditional, FinalWrite, DriverCancels, DriverFails, Hold, WriteBack, InLoop
  <2>2. QED
    BY <2>1 DEF InLoop
<1>3. CASE RunExecution
  <2>1. exec.status \notin {"executing", "validating", "awaiting_approval"}
    <3>1. \A s \in StepName : steps[s] = "absent"
      BY <1>1, <1>3 DEF RunExecution, DriverInv, BeforePlan
    <3>2. ~ Planned
      BY <1>1, <3>1 DEF Planned
    <3>3. QED
      BY <1>1, <3>2 DEF Sound
  <2>2. exec.status \in ExecutionTerminal \cup {"created", "planning"}
    BY <1>1, <2>1 DEF Execution, ExecutionStatus, ExecutionTerminal
  <2>3. pc'[Driver] \in {"done", "planning_write", "plan"}
    BY <1>1, <1>3, <2>2 DEF RunExecution, Hold, AfterRunRead
  <2>4. QED
    BY <2>3 DEF InLoop
<1>4. CASE SavePlan
  <2>1. /\ copy'[Driver] = [MoveTo(copy[Driver], "executing") EXCEPT !.plan = TRUE]
        /\ pc'[Driver] = "executing_write"
    BY <1>1, <1>4 DEF SavePlan, Hold
  <2>2. copy'[Driver].plan
    BY <1>1, <2>1 DEF MoveTo, Execution
  <2>3. QED
    BY <2>1, <2>2 DEF PlanKnown
<1>5. CASE EnterExecuting \/ LoopWrite \/ AppendWrite
  <2>1. /\ exec' = copy[Driver] /\ pc[Driver] \in {"executing_write", "loop_write", "append_write"}
        /\ pc'[Driver] \in {"loop", "dispatch", "work", "step_result"}
    BY <1>1, <1>5 DEF EnterExecuting, LoopWrite, AppendWrite, AfterAppend, WriteBack
  <2>2. PlanKnown(copy[Driver])
    BY <2>1 DEF EndsInv
  <2>3. QED
    BY <2>1, <2>2 DEF PlanKnown
<1>6. CASE LoopRead
  <2>1. /\ exec' = exec /\ pc[Driver] = "loop" /\ pc'[Driver] = AfterLoopRead(exec)
        /\ pc'[Driver] = "loop_write" => copy'[Driver] = MaybeEnterValidating(exec)
    BY <1>1, <1>6 DEF LoopRead, Hold, store
  <2>2. PlanKnown(exec)
    BY <2>1 DEF EndsInv, InLoop
  <2>3. /\ pc'[Driver] \in {"cancel", "done", "loop_write"}
        /\ pc'[Driver] = "loop_write" => exec.plan
    BY <2>1, <2>2 DEF PlanKnown, AfterLoopRead
  <2>4. pc'[Driver] = "loop_write" => copy'[Driver].plan
    BY <1>1, <2>1, <2>3, MoveToMoves DEF MaybeEnterValidating, Moved
  <2>5. QED
    BY <2>1, <2>2, <2>3, <2>4 DEF PlanKnown, InLoop
<1>7. CASE Dispatch
  <2>1. /\ exec' = exec /\ pc[Driver] = "dispatch"
        /\ pc'[Driver] \in {"step_begin", "propose", "final_write", "fail"}
        /\ pc'[Driver] = "fail" => ReadyPlaces = {}
    BY <1>1, <1>7 DEF Dispatch, Hold, store
  <2>2. PlanKnown(exec)
    BY <2>1 DEF EndsInv, InLoop
  <2>3. ReadyPlaces = {} => PlanSucceeded
    <3>1. \A s \in StepName : steps[s] \in {"absent", "pending", "succeeded"}
      BY <2>1 DEF StepOrder, InStep
    <3>2. \A s \in PlannedSteps(workflow) : steps[s] \in {"pending", "succeeded"}
      BY <1>1, <2>1, <3>1 DEF DriverInv, Planned, InLoop
    <3>3. QED
      BY <1>1, <3>2, NothingReady DEF PlanSucceeded
  <2>4. QED
    BY <2>1, <2>2, <2>3 DEF PlanKnown
<1>8. CASE StepBegin \/ StepWork \/ SaveStepResult \/ StepSucceed
  <2>1. /\ exec' = exec /\ pc[Driver] \in InLoop \ {"executing_write"}
        /\ pc'[Driver] \in {"append_read", "step_succeed"}
    BY <1>1, <1>8 DEF StepBegin, StepWork, SaveStepResult, StepSucceed, InLoop
  <2>2. QED
    BY <2>1 DEF EndsInv, PlanKnown
<1>9. CASE AppendRead
  <2>1. /\ exec' = exec /\ pc[Driver] = "append_read" /\ pc'[Driver] = "append_write"
        /\ copy'[Driver] = AppendTimeline(exec, StepRows(cur, item))
    BY <1>1, <1>9 DEF AppendRead, Hold, store
  <2>2. copy'[Driver].plan = exec.plan /\ copy'[Driver].cancel = exec.cancel
    BY <1>1, <2>1, AppendTimelineMoves DEF Moved
  <2>3. QED
    BY <2>1, <2>2 DEF EndsInv, PlanKnown, InLoop
<1>10. QED
  BY <1>2, <1>3, <1>4, <1>5, <1>6, <1>7, <1>8, <1>9 DEF DriverNext

\* Every step of the driver keeps the ends accounted for.
LEMMA DriverEnds ==
  ASSUME IInv, IInv', EndsInv, StepOrder, DriverNext
  PROVE  EndsInv'
<1>1. /\ TypeOK /\ DriverInv /\ Driver \in Process /\ Forward
      /\ proposal # "none" => proposal' # "none"
      /\ \A p \in Process \ {Driver} : pc'[p] = pc[p] /\ copy'[p] = copy[p]
      /\ \A p \in Cancellers \cup Approvers : p \in Process \ {Driver}
  BY DriverForward, DriverLeavesApprovers, ProcessAssumption DEF IInv, Process
<1>2. ~ CancellationAsked' => QuietInv'
  BY <1>1, QuietDrives DEF EndsInv, Forward
<1>3. Accounted(exec)'
  BY <1>1, WrittenAccounted DEF Next
<1>4. Accounted(copy[Driver])'
  <2>1. Accounted(copy[Driver]) /\ Accounted(exec)
    BY <1>1 DEF EndsInv
  <2>2. CASE copy'[Driver].status \in {copy[Driver].status, exec.status}
    BY <1>1, <2>1, <2>2 DEF Accounted, Forward
  <2>3. CASE copy'[Driver].status \in {"planning", "executing", "validating", "completed",
                                       "awaiting_approval"}
    <3>1. copy'[Driver].status \in {"completed", "awaiting_approval"} => PlanSucceeded'
      BY <1>1 DEF IInv, AllSound, Sound, FullyValidated, PlanSucceeded
    <3>2. QED
      BY <2>3, <3>1 DEF Accounted
  <2>4. CASE pc[Driver] = "settle" /\ decision = "deny" /\ copy'[Driver].status = "failed"
    <3>1. PlanSucceeded /\ ActionRefused
      BY <1>1, <2>4 DEF DriverInv, InGovernance, PlanSucceeded, ActionRefused
    <3>2. QED
      BY <1>1, <2>4, <3>1 DEF Accounted, Forward
  <2>5. CASE pc[Driver] = "fail" /\ copy'[Driver].status = "failed"
    <3>1. PlanSucceeded /\ CancellationAsked
      BY <2>5 DEF EndsInv, QuietInv
    <3>2. QED
      BY <1>1, <2>5, <3>1 DEF Accounted, Forward
  <2>6. CASE pc[Driver] = "cancel" /\ copy'[Driver].status = "cancelled"
    <3>1. CancellationAsked
      BY <2>6 DEF EndsInv, QuietInv
    <3>2. QED
      BY <1>1, <2>6, <3>1 DEF Accounted, Forward
  <2>7. QED
    BY <2>2, <2>3, <2>4, <2>5, <2>6, DriverTakes
<1>5. \A p \in Process : Accounted(copy[p])'
  <2>1. ASSUME NEW p \in Process, p # Driver PROVE Accounted(copy[p])'
    BY <1>1, <2>1, CopyAccounted DEF EndsInv
  <2>2. QED
    BY <1>4, <2>1
<1>6. /\ \A c \in Cancellers : PendingWrite(c)' => copy'[c].cancel
      /\ \A a \in Approvers : pc'[a] = "approval_write" => proposal' # "none"
  BY <1>1 DEF EndsInv, PendingWrite
<1>7. /\ pc'[Driver] \in InLoop \ {"executing_write"} => PlanKnown(exec)'
      /\ pc'[Driver] \in {"executing_write", "loop_write", "append_write"} =>
           PlanKnown(copy[Driver])'
      /\ pc'[Driver] = "fail" => PlanSucceeded'
  BY <1>1, DriverKeepsPlan DEF Forward
<1>8. QED
  BY <1>2, <1>3, <1>5, <1>6, <1>7 DEF EndsInv

\* A cancel request flags every record it holds, whatever that record was before.
LEMMA CancellerEnds ==
  ASSUME IInv, EndsInv, NEW c \in Cancellers, CancellerNext(c)
  PROVE  EndsInv'
<1>1. /\ TypeOK /\ c \in Process /\ c # Driver /\ Driver \in Process
      /\ exec \in Execution /\ copy \in [Process -> Execution]
      /\ UNCHANGED <<steps, proposal, decision, approvals, workflow>>
      /\ \A p \in Process \ {c} : pc'[p] = pc[p] /\ copy'[p] = copy[p]
      /\ pc'[Driver] = pc[Driver] /\ copy'[Driver] = copy[Driver]
      /\ pc \in [Process -> DriverPc \cup CancellerPc \cup ApproverPc]
      /\ \A a \in Approvers : a \in Process \ {c}
      /\ \A b \in Cancellers : b \in Process
  BY CancellerLeaves, ProcessAssumption DEF IInv, TypeOK, PcOK, Process
<1>2. CancellationAsked'
  BY CancellerLeaves DEF IInv, CancellationAsked
<1>3. Forward
  BY <1>1, <1>2 DEF Forward, PlanSucceeded, ActionRefused
<1>4. Accounted(exec)'
  BY <1>1, <1>3, WrittenAccounted DEF Next
<1>5. /\ Accounted(copy[c])'
      /\ PendingWrite(c)' => copy'[c].cancel
      /\ exec' = exec \/ exec'.cancel
  <2>1. CASE RequestCancellationRead(c) \/ CancelExecutionRead(c)
    <3>1. (copy'[c] = CancelMeta(exec) \/ copy'[c] = Cancelled(exec)) /\ exec' = exec
      BY <1>1, <2>1 DEF RequestCancellationRead, CancelExecutionRead, Hold, store
    <3>2. copy'[c].status \in {exec.status, "cancelled"} /\ copy'[c].cancel
      BY <1>1, <3>1, CancelledStatus
    <3>3. Accounted(exec)
      BY DEF EndsInv
    <3>4. QED
      BY <1>2, <1>3, <3>1, <3>2, <3>3 DEF Accounted, Forward
  <2>2. CASE RequestCancellationWrite(c) \/ CancelExecutionWrite(c)
    <3>1. /\ exec' = copy[c] /\ copy' = copy /\ PendingWrite(c)
          /\ pc'[c] \in {"cancel_read", "done"}
      BY <1>1, <2>2 DEF RequestCancellationWrite, CancelExecutionWrite, AfterRequest, WriteBack,
         PendingWrite
    <3>2. Accounted(copy[c])'
      BY <1>1, <1>3, <3>1, CopyAccounted DEF EndsInv
    <3>3. QED
      BY <3>1, <3>2 DEF EndsInv, PendingWrite
  <2>3. QED
    BY <2>1, <2>2 DEF CancellerNext
<1>6. \A p \in Process : Accounted(copy[p])'
  <2>1. ASSUME NEW p \in Process, p # c PROVE Accounted(copy[p])'
    BY <1>1, <1>3, <2>1, CopyAccounted DEF EndsInv
  <2>2. QED
    BY <1>5, <2>1
<1>7. /\ \A b \in Cancellers : PendingWrite(b)' => copy'[b].cancel
      /\ \A a \in Approvers : pc'[a] = "approval_write" => proposal' # "none"
  BY <1>1, <1>5 DEF EndsInv, PendingWrite
<1>8. /\ pc'[Driver] \in InLoop \ {"executing_write"} => PlanKnown(exec)'
      /\ pc'[Driver] \in {"executing_write", "loop_write", "append_write"} =>
           PlanKnown(copy[Driver])'
      /\ pc'[Driver] = "fail" => PlanSucceeded'
  BY <1>1, <1>3, <1>5 DEF EndsInv, PlanKnown, Forward
<1>9. QED
  BY <1>2, <1>4, <1>6, <1>7, <1>8 DEF EndsInv

\* An approver fails an execution only once its rejection is stored, and it writes
\* after the loop has ended.
LEMMA ApproverEnds ==
  ASSUME IInv, IInv', EndsInv, NEW a \in Approvers, ApproverNext(a)
  PROVE  EndsInv'
<1>1. /\ TypeOK /\ DriverInv /\ a \in Process /\ a # Driver /\ Driver \in Process
      /\ exec \in Execution /\ copy \in [Process -> Execution] /\ copy[a] \in Execution
      /\ UNCHANGED <<steps, decision, workflow>> /\ approvals \subseteq approvals'
      /\ \A p \in Process \ {a} : pc'[p] = pc[p] /\ copy'[p] = copy[p]
      /\ pc'[Driver] = pc[Driver] /\ copy'[Driver] = copy[Driver]
      /\ pc \in [Process -> DriverPc \cup CancellerPc \cup ApproverPc]
      /\ \A c \in Cancellers : c \in Process \ {a}
      /\ \A b \in Approvers : b \in Process
  BY ApproverLeaves, ProcessAssumption DEF IInv, TypeOK, PcOK, Process
<1>2. Forward /\ (CancellationAsked' => CancellationAsked)
  BY <1>1 DEF Forward, PlanSucceeded, ActionRefused, CancellationAsked
<1>3. ~ CancellationAsked' => QuietInv'
  BY <1>2, QuietApproves DEF EndsInv, Forward
<1>4. Accounted(exec)'
  BY <1>1, <1>2, WrittenAccounted DEF Next
<1>5. Accounted(copy[a])'
  <2>1. Accounted(copy[a]) /\ Accounted(exec)
    BY <1>1 DEF EndsInv
  <2>2. CASE SubmitApproval(a) \/ SubmitApprovalRefused(a) \/ SaveApproval(a) \/ ApprovalWrite(a)
    <3>1. \/ copy'[a] \in {exec, copy[a]}
          \/ copy'[a] = AppendTimeline(copy[a], {<<"approval_received", a>>})
      BY <1>1, <2>2 DEF SubmitApproval, SubmitApprovalRefused, SaveApproval, ApprovalWrite,
         Hold, WriteBack
    <3>2. copy'[a].status \in {exec.status, copy[a].status}
      BY <1>1, <3>1, AppendTimelineMoves DEF Moved
    <3>3. QED
      BY <1>2, <2>1, <3>2 DEF Accounted, Forward
  <2>3. CASE ResolveRejected(a)
    <3>1. copy[a].status = "awaiting_approval" /\ ActionRefused
      BY <2>3 DEF ResolveRejected, IInv, ApproverInv, ActionRefused
    <3>2. PlanSucceeded
      BY <1>1, <3>1, CompletedRan
    <3>3. copy'[a] = Close(copy[a], "failed", "failed", ValidationSummary,
                          {<<"governed_outcome", "approval_rejected">>})
      BY <1>1, <2>3 DEF ResolveRejected, Hold
    <3>4. copy'[a].status = "failed"
      BY <1>1, <3>3, CloseMoves DEF Moved
    <3>5. QED
      BY <1>2, <3>1, <3>2, <3>4 DEF Accounted, Forward
  <2>4. CASE ResolveGranted(a)
    <3>1. copy'[a] = Close(copy[a], "completed", CompletionResult, ValidationSummary,
                          {<<"governed_outcome", "approval_granted">>})
      BY <1>1, <2>4 DEF ResolveGranted, Hold
    <3>2. copy'[a].status = "completed"
      BY <1>1, <3>1, CloseMoves DEF Moved
    <3>3. PlanSucceeded'
      BY <1>1, <3>2 DEF IInv, AllSound, Sound, FullyValidated, PlanSucceeded
    <3>4. QED
      BY <3>2, <3>3 DEF Accounted
  <2>5. QED
    BY <2>2, <2>3, <2>4 DEF ApproverNext, ApproverContinues
<1>6. \A p \in Process : Accounted(copy[p])'
  <2>1. ASSUME NEW p \in Process, p # a PROVE Accounted(copy[p])'
    BY <1>1, <1>2, <2>1, CopyAccounted DEF EndsInv
  <2>2. QED
    BY <1>5, <2>1
<1>7. \A c \in Cancellers : PendingWrite(c)' => copy'[c].cancel
  BY <1>1 DEF EndsInv, PendingWrite
<1>8. \A b \in Approvers : pc'[b] = "approval_write" => proposal' # "none"
  <2>1. proposal # "none" => proposal' # "none"
    BY DEF ApproverNext, ApproverContinues, SubmitApproval, SubmitApprovalRefused, SaveApproval,
       ResolveRejected, ResolveGranted, ApprovalWrite, WriteBack, store
  <2>2. pc'[a] = "approval_write" => proposal # "none"
    BY <1>1 DEF ApproverNext, ApproverContinues, SubmitApproval, SubmitApprovalRefused,
       SaveApproval, ResolveRejected, ResolveGranted, ApprovalWrite, Hold, WriteBack
  <2>3. QED
    BY <1>1, <2>1, <2>2 DEF EndsInv
<1>9. exec' = exec \/ pc[Driver] \notin InLoop
  <2>1. CASE ApprovalWrite(a)
    <3>1. proposal # "none"
      BY <2>1 DEF ApprovalWrite, EndsInv
    <3>2. QED
      BY <1>1, <3>1 DEF DriverInv
  <2>2. CASE ~ ApprovalWrite(a)
    BY <2>2 DEF ApproverNext, ApproverContinues, SubmitApproval, SubmitApprovalRefused,
       SaveApproval, ResolveRejected, ResolveGranted, store
  <2>3. QED
    BY <2>1, <2>2
<1>10. /\ pc'[Driver] \in InLoop \ {"executing_write"} => PlanKnown(exec)'
       /\ pc'[Driver] \in {"executing_write", "loop_write", "append_write"} =>
            PlanKnown(copy[Driver])'
       /\ pc'[Driver] = "fail" => PlanSucceeded'
  BY <1>1, <1>2, <1>9 DEF EndsInv, PlanKnown, Forward
<1>11. QED
  BY <1>3, <1>4, <1>6, <1>7, <1>8, <1>10 DEF EndsInv

\* The inductive invariant of ends holds.
LEMMA EndsInvariance == Spec => []EndsInv
<1>1. Init => EndsInv
  <2> SUFFICES ASSUME Init PROVE EndsInv
    OBVIOUS
  <2>1. /\ exec = NewExecution /\ \A p \in Process : copy[p] = NewExecution
        /\ pc[Driver] \in {"enqueue_read", "run"}
        /\ \A p \in Process \ {Driver} : pc[p] = "idle"
    BY DEF Init, Process
  <2>2. \A p \in Cancellers \cup Approvers : pc[p] = "idle"
    BY <2>1, ProcessAssumption DEF Process
  <2>3. Accounted(exec) /\ \A p \in Process : Accounted(copy[p])
    BY <2>1 DEF Accounted, NewExecution
  <2>4. QED
    BY <2>1, <2>2, <2>3, QuietBegins DEF EndsInv, PendingWrite, InLoop
<1>2. IInv /\ IInv' /\ StepOrder /\ EndsInv /\ [Next]_vars => EndsInv'
  <2> SUFFICES ASSUME IInv, IInv', StepOrder, EndsInv, [Next]_vars PROVE EndsInv'
    OBVIOUS
  <2>1. CASE UNCHANGED vars
    BY <2>1 DEF vars, store, request, locals, EndsInv, Accounted, PlanSucceeded, ActionRefused,
       CancellationAsked, PendingWrite, PlanKnown, QuietInv, PhaseInv, ToValidate, DriverHolds,
       ApproverHolds, Continues, FailsOnlyWhenRefused
  <2>2. QED
    BY <2>1, DriverEnds, CancellerEnds, ApproverEnds DEF Next, Finished
<1>3. QED
  BY <1>1, <1>2, Invariance, StepsRunInOrder, PTL DEF Spec

\* For any number of cancel and approval requests: an execution completes or fails only
\* with its whole plan run, fails only when its action was refused or a cancel request
\* raced the loop, and is cancelled only when somebody asked for it.
THEOREM EndsAreAccounted == Spec => []EndsAreAccountedFor
<1>1. EndsInv => EndsAreAccountedFor
  BY DEF EndsInv, EndsAreAccountedFor
<1>2. QED
  BY <1>1, EndsInvariance, PTL

\* Where nobody cancels, however many approvers race, an execution fails only because
\* policy or an approver refused its action: the engine's own errors are out of reach.
THEOREM FailuresAreRefusals == ASSUME Cancellers = {} PROVE Spec => []FailsOnlyWhenRefused
<1>1. EndsInv => FailsOnlyWhenRefused
  BY DEF EndsInv, CancellationAsked, QuietInv
<1>2. QED
  BY <1>1, EndsInvariance, PTL

(***************************************************************************)
(* A single writer: no cancelling thread, at most one approver.            *)
(***************************************************************************)

\* The single approver works on the record as it is, which nobody else writes.
LEMMA LoneApproves ==
  ASSUME SingleWriter, IInv, LoneInv, NEW a \in Approvers, ApproverNext(a)
  PROVE  LoneInv'
<1>1. /\ Approvers = {a} /\ a \in Process /\ exec \in Execution /\ copy \in [Process -> Execution]
      /\ copy[a] \in Execution
      /\ pc \in [Process -> DriverPc \cup CancellerPc \cup ApproverPc]
  BY DEF IInv, TypeOK, PcOK, Process, SingleWriter
<1>2. CASE SubmitApproval(a)
  <2>1. copy'[a] = exec /\ exec' = exec /\ exec.status = "awaiting_approval"
    BY <1>1, <1>2 DEF SubmitApproval, Hold, store
  <2>2. QED
    BY <1>1, <2>1 DEF LoneInv, Continues
<1>3. CASE SubmitApprovalRefused(a) \/ ApprovalWrite(a)
  <2>1. pc'[a] \in {"refused", "done"}
    BY <1>1, <1>3 DEF SubmitApprovalRefused, ApprovalWrite, WriteBack
  <2>2. QED
    BY <1>1, <2>1 DEF LoneInv, PendingWrite
<1>4. CASE SaveApproval(a)
  <2>1. /\ copy'[a] = AppendTimeline(copy[a], {<<"approval_received", a>>}) /\ exec' = exec
        /\ PendingWrite(a)
    BY <1>1, <1>4 DEF SaveApproval, Hold, PendingWrite
  <2>2. Moved(copy[a], copy[a].status, copy'[a])
    BY <1>1, <2>1, AppendTimelineMoves
  <2>3. QED
    BY <1>1, <2>1, <2>2 DEF LoneInv, Continues, Moved
<1>5. CASE ResolveRejected(a) \/ ResolveGranted(a)
  <2>1. exec' = exec /\ PendingWrite(a)
    BY <1>5 DEF ResolveRejected, ResolveGranted, PendingWrite
  <2>2. \E s \in {"completed", "failed"} : \E result, rows :
          copy'[a] = Close(copy[a], s, result, ValidationSummary, rows)
    BY <1>1, <1>5 DEF ResolveRejected, ResolveGranted, Hold
  <2>3. \E s \in {"completed", "failed"} : Moved(copy[a], s, copy'[a])
    BY <1>1, <2>2, CloseMoves
  <2>4. QED
    BY <1>1, <2>1, <2>3, Transitions DEF LoneInv, Continues, Moved
<1>6. QED
  BY <1>2, <1>3, <1>4, <1>5 DEF ApproverNext, ApproverContinues

\* With one writer, each thread goes on from the record as it is stored.
LEMMA LoneInvariance == ASSUME SingleWriter PROVE Spec => []LoneInv
<1>1. Init => LoneInv
  <2> SUFFICES ASSUME Init PROVE LoneInv
    OBVIOUS
  <2>1. \A a \in Approvers : pc[a] = "idle"
    BY ProcessAssumption DEF Init, Process
  <2>2. QED
    BY <2>1 DEF LoneInv, PendingWrite
<1>2. IInv /\ EndsInv /\ LoneInv /\ [Next]_vars => LoneInv'
  <2> SUFFICES ASSUME IInv, EndsInv, LoneInv, [Next]_vars PROVE LoneInv'
    OBVIOUS
  <2>1. QuietInv
    BY DEF EndsInv, CancellationAsked, SingleWriter
  <2>2. CASE DriverNext
    BY <2>1, <2>2, DriverAlone DEF LoneInv
  <2>3. CASE UNCHANGED vars
    BY <2>3 DEF vars, store, LoneInv, PendingWrite, Continues
  <2>4. QED
    BY <2>2, <2>3, LoneApproves DEF Next, Finished, SingleWriter
<1>3. QED
  BY <1>1, <1>2, Invariance, EndsInvariance, PTL DEF Spec

\* With one writer the engine implements Lifecycle: the status moves along the allowed
\* transitions and no row of the trace is lost.
THEOREM EngineImplementsLifecycle == ASSUME SingleWriter PROVE Spec => LifecycleImplemented
<1>1. Init => Life!LInit
  BY DEF Init, NewExecution, Life!LInit
<1>2. IInv /\ EndsInv /\ LoneInv /\ [Next]_vars => [Life!LMove]_<<exec.status, exec.timeline>>
  <2> SUFFICES ASSUME IInv, EndsInv, LoneInv, [Next]_vars
               PROVE  [Life!LMove]_<<exec.status, exec.timeline>>
    OBVIOUS
  <2>1. exec' = exec \/ \E p \in Process : PendingWrite(p) /\ exec' = copy[p]
    BY WritesWhatIsPending DEF IInv
  <2>2. exec' = exec \/ Continues(exec')
    <3>1. QuietInv /\ Process = {Driver} \cup Approvers
      BY DEF EndsInv, CancellationAsked, SingleWriter, Process
    <3>2. QED
      BY <2>1, <3>1 DEF QuietInv, LoneInv
  <2>3. QED
    BY <2>2 DEF Continues, Life!LMove, Life!ValidExecutionTransition, ValidExecutionTransition,
       Life!ExecutionTerminal, ExecutionTerminal, Life!ExecutionAllowed, ExecutionAllowed
<1>3. QED
  BY <1>1, <1>2, Invariance, EndsInvariance, LoneInvariance, PTL DEF Spec, LifecycleImplemented, Life!LSpec

(***************************************************************************)
(* Settled records, for any number of threads.                             *)
(***************************************************************************)

\* Cancelling a closed record leaves its status (cancel_execution).
LEMMA CancelledKeepsStatus ==
  ASSUME NEW r \in Execution, r.status \in ExecutionTerminal
  PROVE  CancelMeta(r).status = r.status /\ Cancelled(r).status = r.status
<1>1. ~ ValidExecutionTransition(r.status, "cancelled")
  BY DEF ExecutionTerminal, ValidExecutionTransition, ExecutionAllowed
<1>2. QED
  BY <1>1 DEF Cancelled, CancelMeta, Execution

\* A driver that reads a closed record stops, or writes its status back.
LEMMA DriverKeepsSettled ==
  ASSUME IInv, NEW s \in ExecutionTerminal, SettledAs(s), DriverNext
  PROVE  PendingWrite(Driver)' => copy'[Driver].status = s
<1>1. /\ Driver \in Process /\ exec \in Execution /\ exec.status = s
      /\ pc \in [Process -> DriverPc \cup CancellerPc \cup ApproverPc]
      /\ copy \in [Process -> Execution]
      /\ PendingWrite(Driver) => copy[Driver].status = s
  BY DEF IInv, TypeOK, PcOK, Process, SettledAs
<1>2. CASE EnqueueRead \/ WorkerRead
  <2>1. copy'[Driver] = exec \/ copy'[Driver] = [exec EXCEPT !.cancel = FALSE]
    BY <1>1, <1>2 DEF EnqueueRead, WorkerRead, Hold
  <2>2. QED
    BY <1>1, <2>1 DEF Execution
<1>3. CASE RunExecution \/ LoopRead \/ DispatchStops
  <2>1. pc'[Driver] \in {"done", "cancel"}
    BY <1>1, <1>3 DEF RunExecution, LoopRead, DispatchStops, Hold, AfterRunRead, AfterLoopRead
  <2>2. QED
    BY <2>1 DEF PendingWrite
<1>4. CASE EnqueueWrite \/ WorkerWrite \/ EnterPlanning \/ EnterExecuting \/ LoopWrite
           \/ AppendWrite \/ FinalWrite
  <2>1. copy' = copy /\ PendingWrite(Driver)
    BY <1>4 DEF EnqueueWrite, WorkerWrite, EnterPlanning, EnterExecuting, LoopWrite, AppendWrite,
       FinalWrite, WriteBack, PendingWrite
  <2>2. QED
    BY <1>1, <2>1
<1>5. CASE SavePlan \/ Propose \/ EvaluatePolicy \/ SettleProposal
  <2>1. pc[Driver] \in {"plan", "propose", "evaluate", "settle"}
    BY <1>5 DEF SavePlan, Propose, EvaluatePolicy, SettleProposal
  <2>2. copy[Driver].status \in {"planning", "validating"}
    BY <2>1 DEF IInv, DriverInv, InGovernance
  <2>3. QED
    BY <1>1, <2>1, <2>2 DEF PendingWrite, ExecutionTerminal
<1>6. CASE StepBegin \/ StepWork \/ SaveStepResult \/ StepSucceed
  <2>1. pc'[Driver] \in {"append_read", "step_succeed"}
    BY <1>1, <1>6 DEF StepBegin, StepWork, SaveStepResult, StepSucceed
  <2>2. QED
    BY <2>1 DEF PendingWrite
<1>7. CASE AppendRead
  <2>1. copy'[Driver] = AppendTimeline(exec, StepRows(cur, item))
    BY <1>1, <1>7 DEF AppendRead, Hold
  <2>2. QED
    BY <1>1, <2>1, AppendTimelineMoves DEF Moved
<1>8. CASE DriverCancels
  <2>1. copy'[Driver] = Cancelled(exec)
    BY <1>1, <1>8 DEF DriverCancels, Hold
  <2>2. QED
    BY <1>1, <2>1, CancelledKeepsStatus
<1>9. CASE DriverFails
  <2>1. ~ ValidExecutionTransition(exec.status, "failed")
    BY <1>1 DEF ExecutionTerminal, ValidExecutionTransition, ExecutionAllowed
  <2>2. copy'[Driver] = exec
    BY <1>1, <1>9, <2>1 DEF DriverFails, Hold
  <2>3. QED
    BY <1>1, <2>2
<1>10. ~ Dispatch
  BY <1>1 DEF Dispatch
<1>11. QED
  BY <1>2, <1>3, <1>4, <1>5, <1>6, <1>7, <1>8, <1>9, <1>10 DEF DriverNext

\* So does a request thread.
LEMMA RequestsKeepSettled ==
  ASSUME IInv, NEW s \in ExecutionTerminal, SettledAs(s),
         NEW p \in Process \ {Driver},
         \/ p \in Cancellers /\ CancellerNext(p)
         \/ p \in Approvers /\ ApproverNext(p)
  PROVE  /\ PendingWrite(p)' => copy'[p].status = s
         /\ \A q \in Process \ {p} : pc'[q] = pc[q] /\ copy'[q] = copy[q]
<1>1. /\ exec \in Execution /\ exec.status = s
      /\ pc \in [Process -> DriverPc \cup CancellerPc \cup ApproverPc]
      /\ copy \in [Process -> Execution]
      /\ PendingWrite(p) => copy[p].status = s
  BY DEF IInv, TypeOK, PcOK, SettledAs
<1>2. ASSUME p \in Cancellers, CancellerNext(p)
      PROVE  PendingWrite(p)' => copy'[p].status = s
  <2>1. CASE RequestCancellationRead(p) \/ CancelExecutionRead(p)
    <3>1. copy'[p] = CancelMeta(exec) \/ copy'[p] = Cancelled(exec)
      BY <1>1, <2>1 DEF RequestCancellationRead, CancelExecutionRead, Hold
    <3>2. QED
      BY <1>1, <3>1, CancelledKeepsStatus
  <2>2. CASE RequestCancellationWrite(p) \/ CancelExecutionWrite(p)
    <3>1. copy' = copy /\ PendingWrite(p)
      BY <2>2 DEF RequestCancellationWrite, CancelExecutionWrite, WriteBack, PendingWrite
    <3>2. QED
      BY <1>1, <3>1
  <2>3. QED
    BY <1>2, <2>1, <2>2 DEF CancellerNext
<1>3. ASSUME p \in Approvers, ApproverNext(p)
      PROVE  PendingWrite(p)' => copy'[p].status = s
  <2>1. ~ SubmitApproval(p)
    BY <1>1 DEF SubmitApproval, ExecutionTerminal
  <2>2. ~ (SaveApproval(p) \/ ResolveRejected(p) \/ ResolveGranted(p))
    <3>1. SUFFICES ASSUME SaveApproval(p) \/ ResolveRejected(p) \/ ResolveGranted(p) PROVE FALSE
      OBVIOUS
    <3>2. pc[p] \in {"approve", "reject", "granted", "rejected"}
      BY <3>1 DEF SaveApproval, ResolveRejected, ResolveGranted
    <3>3. copy[p].status = "awaiting_approval"
      BY <1>3, <3>2 DEF IInv, ApproverInv
    <3>4. QED
      BY <1>1, <3>2, <3>3 DEF PendingWrite, ExecutionTerminal
  <2>3. CASE SubmitApprovalRefused(p)
    BY <1>1, <2>3 DEF SubmitApprovalRefused, PendingWrite
  <2>4. CASE ApprovalWrite(p)
    <3>1. copy' = copy /\ PendingWrite(p)
      BY <2>4 DEF ApprovalWrite, WriteBack, PendingWrite
    <3>2. QED
      BY <1>1, <3>1
  <2>5. QED
    BY <1>3, <2>1, <2>2, <2>3, <2>4 DEF ApproverNext, ApproverContinues
<1>4. \A q \in Process \ {p} : pc'[q] = pc[q] /\ copy'[q] = copy[q]
  BY <1>1 DEF CancellerNext, RequestCancellationRead, RequestCancellationWrite,
     CancelExecutionRead, CancelExecutionWrite, ApproverNext, ApproverContinues, SubmitApproval,
     SubmitApprovalRefused, SaveApproval, ResolveRejected, ResolveGranted, ApprovalWrite,
     Hold, WriteBack
<1>5. QED
  BY <1>2, <1>3, <1>4

\* No step of any thread unsettles the record.
LEMMA StaysSettled ==
  ASSUME NEW s \in ExecutionTerminal
  PROVE  IInv /\ SettledAs(s) /\ [Next]_vars => SettledAs(s)'
<1> SUFFICES ASSUME IInv, SettledAs(s), [Next]_vars PROVE SettledAs(s)'
  OBVIOUS
<1>1. exec'.status = s
  BY WritesWhatIsPending DEF IInv, SettledAs
<1>2. CASE DriverNext
  <2>1. \A q \in Process \ {Driver} : pc'[q] = pc[q] /\ copy'[q] = copy[q]
    BY <1>2, DriverLeavesApprovers DEF IInv
  <2>2. \A q \in Process \ {Driver} : PendingWrite(q)' => copy'[q].status = s
    BY <2>1 DEF SettledAs, PendingWrite
  <2>3. PendingWrite(Driver)' => copy'[Driver].status = s
    BY <1>2, DriverKeepsSettled
  <2>4. QED
    BY <1>1, <2>2, <2>3 DEF SettledAs, Process
<1>3. ASSUME NEW p \in Process \ {Driver},
             \/ p \in Cancellers /\ CancellerNext(p)
             \/ p \in Approvers /\ ApproverNext(p)
      PROVE  SettledAs(s)'
  <2>1. /\ PendingWrite(p)' => copy'[p].status = s
        /\ \A q \in Process \ {p} : pc'[q] = pc[q] /\ copy'[q] = copy[q]
    BY <1>3, RequestsKeepSettled
  <2>2. \A q \in Process \ {p} : PendingWrite(q)' => copy'[q].status = s
    BY <2>1 DEF SettledAs, PendingWrite
  <2>3. QED
    BY <1>1, <2>1, <2>2 DEF SettledAs
<1>4. CASE UNCHANGED vars
  BY <1>4 DEF vars, store, SettledAs, PendingWrite
<1>5. \A p \in Cancellers \cup Approvers : p \in Process \ {Driver}
  BY ProcessAssumption DEF Process
<1>6. QED
  BY <1>2, <1>3, <1>4, <1>5 DEF Next, Finished

\* For any number of threads, a terminal status no thread holds an older copy of is
\* final, whatever is requested afterwards.
THEOREM SettledIsFinal == Spec => SettledForGood
<1>1. ASSUME NEW s \in ExecutionTerminal
      PROVE  Spec => [](exec.status = s /\ (\A p \in Process : ~ PendingWrite(p))
                          => [](exec.status = s))
  <2>1. exec.status = s /\ (\A p \in Process : ~ PendingWrite(p)) => SettledAs(s)
    BY DEF SettledAs
  <2>2. SettledAs(s) => exec.status = s
    BY DEF SettledAs
  <2>3. IInv /\ SettledAs(s) /\ [Next]_vars => SettledAs(s)'
    BY StaysSettled
  <2>4. QED
    BY <2>1, <2>2, <2>3, Invariance, PTL DEF Spec
<1>2. QED
  BY <1>1 DEF SettledForGood
===============================================================================
