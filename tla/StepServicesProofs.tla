-------------------------- MODULE StepServicesProofs --------------------------
(***************************************************************************)
(* The retry loop of model-runtime under the engine and the retrievals of  *)
(* its steps, for every value of MODEL_MAX_RETRIES, every corpus, any      *)
(* documents and any number of failing writes.                             *)
(***************************************************************************)
EXTENDS StepServices, InductionLemmas, FiniteSetTheorems

\* A call ends well or with one of the exceptions.
LEMMA OutcomesAreKnown ==
  ASSUME NEW provider, NEW task
  PROVE  Outcomes(provider, task) \subseteq Errors \cup {"ok"}
<1>1. ASSUME NEW reply, NEW validates PROVE Invoke(reply, validates) \in Errors \cup {"ok"}
  BY DEF Invoke, PostJson, ExtractMessageContent, Parse, ClassifyHttpStatus, Errors
<1> QED BY <1>1 DEF Outcomes, Errors

\* There is always a first attempt, whatever the environment says.
LEMMA OneAttemptAtLeast ==
  ASSUME config.max_retries \in Int
  PROVE  MaxAttempts(config) \in Nat \ {0}
BY DEF MaxAttempts

LEMMA InitRetry == Init => RetryInv
<1> SUFFICES ASSUME Init PROVE RetryInv
  OBVIOUS
<1>1. config.max_retries \in Int
  BY BudgetAssumption DEF Init, Configs
<1>2. calls = <<>> /\ pc = "next" /\ attempt = 0 /\ faults = 0
  BY DEF Init
<1> QED
  BY <1>1, <1>2, OneAttemptAtLeast
     DEF RetryInv, CallTypes, LoopPlaces, RetriesAreClassified, FallsBackForAReason

LEMMA AttemptKeeps ==
  ASSUME RetryInv, Attempt
  PROVE  RetryInv'
<1> USE DEF RetryInv
<1>1. PICK outcome \in Outcomes(config.provider, Step) :
        /\ calls' = Append(calls, outcome)
        /\ \/ /\ outcome = "ok"
              /\ held' = [source |-> "model_runtime", retry_count |-> attempt]
              /\ pc' = "trace" /\ UNCHANGED lastExc
           \/ /\ outcome = "transient"
              /\ lastExc' = outcome
              /\ pc' = IF attempt + 1 >= MaxAttempts(config) THEN "exhausted" ELSE "backoff"
              /\ UNCHANGED held
           \/ /\ outcome \notin {"ok", "transient"}
              /\ lastExc' = outcome
              /\ pc' = "fallback" /\ UNCHANGED held
  BY DEF Attempt
<1>2. outcome \in Errors \cup {"ok"}
  BY OutcomesAreKnown
<1>3. /\ pc = "attempt" /\ attempt = Len(calls) /\ attempt < MaxAttempts(config)
      /\ \A i \in 1 .. Len(calls) : calls[i] = "transient"
      /\ UNCHANGED <<config, attempt, faults>>
  BY DEF Attempt, LoopPlaces, fixed
<1>4. /\ calls' \in Seq(Errors \cup {"ok"}) /\ Len(calls') = attempt + 1
      /\ calls'[attempt + 1] = outcome
      /\ \A i \in 1 .. attempt : calls'[i] = "transient"
  BY <1>1, <1>2, <1>3 DEF CallTypes
<1>5. MaxAttempts(config) \in Nat \ {0} /\ MaxAttempts(config)' = MaxAttempts(config)
  BY <1>3, OneAttemptAtLeast DEF CallTypes, MaxAttempts
<1>6. CallTypes'
  BY <1>3, <1>4 DEF CallTypes
<1>7. LoopPlaces'
  BY <1>1, <1>3, <1>4, <1>5 DEF CallTypes, LoopPlaces, IsLastCall
<1>8. RetriesAreClassified'
  BY <1>1, <1>3, <1>4, <1>5 DEF CallTypes, RetriesAreClassified
<1>9. FallsBackForAReason'
  BY <1>1, <1>2 DEF FallsBackForAReason, Errors
<1> QED BY <1>6, <1>7, <1>8, <1>9

\* The other steps of the loop make no call.
LEMMA LoopKeeps ==
  ASSUME RetryInv, BeginModelStep \/ Backoff \/ Exhausted
  PROVE  RetryInv'
<1> USE DEF RetryInv
<1>1. MaxAttempts(config) \in Nat \ {0}
  BY OneAttemptAtLeast DEF CallTypes
<1>2. CASE BeginModelStep
  <2>1. calls' = <<>> /\ attempt' = 0 /\ pc' = "attempt" /\ UNCHANGED <<config, faults>>
    BY <1>2 DEF BeginModelStep, fixed
  <2> QED BY <1>1, <2>1
     DEF CallTypes, LoopPlaces, RetriesAreClassified, FallsBackForAReason, MaxAttempts
<1>3. CASE Backoff
  <2>1. /\ pc = "backoff" /\ UNCHANGED <<config, calls, held, faults>>
        /\ \/ pc' = "fallback" /\ lastExc' = "other" /\ attempt' = attempt
           \/ pc' = "attempt" /\ attempt' = attempt + 1
    BY <1>3 DEF Backoff, fixed
  <2> QED BY <1>1, <2>1
     DEF CallTypes, LoopPlaces, RetriesAreClassified, FallsBackForAReason, MaxAttempts
<1>4. CASE Exhausted
  <2>1. pc = "exhausted" /\ pc' = "fallback" /\ UNCHANGED <<config, attempt, calls, lastExc, held, faults>>
    BY <1>1, <1>4 DEF Exhausted, LoopPlaces, CallTypes, fixed, call
  <2> QED BY <1>1, <2>1
     DEF CallTypes, LoopPlaces, RetriesAreClassified, FallsBackForAReason, MaxAttempts
<1> QED BY <1>2, <1>3, <1>4

\* What comes after the loop, and steps without a model.
LEMMA RestKeeps ==
  ASSUME RetryInv,
         TraceModel \/ Fallback \/ RetrieveStep \/ ToolStep \/ SaveResult \/ Ingest \/ Ended
         \/ UNCHANGED vars
  PROVE  RetryInv'
<1> USE DEF RetryInv
<1>1. UNCHANGED <<config, attempt, lastExc, calls>>
  BY DEF TraceModel, Fallback, RetrieveStep, ToolStep, SaveResult, Ingest, Ended, vars, fixed, call
<1>2. MaxAttempts(config)' = MaxAttempts(config)
  BY <1>1 DEF MaxAttempts
<1> DEFINE Moved ==
      \/ pc' = pc /\ held' = held /\ faults' = faults
      \/ pc = "trace" /\ pc' = "save" /\ held' = held /\ faults' = faults
      \/ pc = "trace" /\ pc' = "fallback" /\ faults' = faults + 1
      \/ pc' = "save" /\ held'.source # "model_runtime" /\ faults' = faults
      \/ pc' \in {"next", "done", "halted"} /\ faults' \in {faults, faults + 1}
<1>3. Moved
  <2>1. CASE TraceModel
    BY <2>1 DEF TraceModel, Repository
  <2>2. CASE Fallback
    BY <2>2 DEF Fallback, Repository
  <2>3. CASE RetrieveStep
    BY <2>3 DEF RetrieveStep, Repository
  <2>4. CASE ToolStep
    BY <2>4 DEF ToolStep
  <2>5. CASE SaveResult
    BY <2>5 DEF SaveResult, Repository
  <2>6. CASE Ingest \/ Ended \/ UNCHANGED vars
    BY <2>6 DEF Ingest, Ended, vars
  <2> QED BY <2>1, <2>2, <2>3, <2>4, <2>5, <2>6
<1>4. faults \in Nat /\ faults' \in Nat /\ faults' >= faults
  BY <1>3 DEF CallTypes
<1>5. CallTypes'
  BY <1>1, <1>4 DEF CallTypes
<1>6. LoopPlaces'
  BY <1>1, <1>2, <1>3 DEF LoopPlaces, IsLastCall
<1>7. RetriesAreClassified'
  BY <1>1, <1>2, <1>3 DEF RetriesAreClassified, LoopPlaces, IsLastCall
<1>8. FallsBackForAReason'
  BY <1>1, <1>3, <1>4 DEF FallsBackForAReason, CallTypes
<1> QED BY <1>5, <1>6, <1>7, <1>8

\* The inductive invariant of the retry loop of ResilientStructuredProvider.
THEOREM RetryInvariance == Spec => []RetryInv
<1>1. RetryInv /\ [Next]_vars => RetryInv'
  BY AttemptKeeps, LoopKeeps, RestKeeps DEF Next, EngineNext
<1> QED BY InitRetry, <1>1, PTL DEF Spec

\* RetriesAreClassified for every budget: only transient failures are repeated, at
\* most max_retries times, and the telemetry counts the calls.
THEOREM RetriesStayClassified == Spec => []RetriesAreClassified
BY RetryInvariance, PTL DEF RetryInv

\* FallsBackForAReason for every budget, negative ones too: the assertion after the
\* loop of _call_with_retries never fails.
THEOREM FallbackHasAReason == Spec => []FallsBackForAReason
BY RetryInvariance, PTL DEF RetryInv

(***************************************************************************)
(* The trace.                                                              *)
(***************************************************************************)
\* rows is a sequence.
IsTimeline(rows) == \E S : rows \in Seq(S)

\* rows' is rows and one more.
OneMore(rows, more, row) ==
  /\ Len(rows) \in Nat /\ DOMAIN rows = 1 .. Len(rows) /\ DOMAIN more = 1 .. Len(rows) + 1
  /\ more[Len(rows) + 1] = row
  /\ \A j \in DOMAIN rows : more[j] = rows[j]

\* _trace_model_reasoning adds a row at the end (Append).
LEMMA AppendsOne ==
  ASSUME NEW rows, IsTimeline(rows), NEW row
  PROVE  IsTimeline(Append(rows, row)) /\ OneMore(rows, Append(rows, row), row)
<1>1. PICK S : rows \in Seq(S)
  BY DEF IsTimeline
<1>2. rows \in Seq(S \cup {row}) /\ row \in S \cup {row}
  BY <1>1
<1>3. Append(rows, row) \in Seq(S \cup {row})
  BY <1>2
<1>4. OneMore(rows, Append(rows, row), row)
  BY <1>1, <1>2 DEF OneMore
<1>5. QED
  BY <1>3, <1>4 DEF IsTimeline

\* The steps of the two plans, place by place.
LEMMA PlansInOrder ==
  ASSUME workflow \in {"incident_triage", "cost_attribution"}
  PROVE  /\ Len(Plan[workflow]) \in Nat \ {0} /\ DOMAIN Plan[workflow] = 1 .. Len(Plan[workflow])
         /\ \A i, j \in DOMAIN Plan[workflow] : Plan[workflow][i] = Plan[workflow][j] => i = j
         /\ \A i \in DOMAIN Plan[workflow] : Plan[workflow][i] \in StepName
<1>1. /\ Plan["incident_triage"] = <<"analyze_incident", "gather_evidence", "validate_incident">>
      /\ Plan["cost_attribution"] = <<"analyze_cost_anomaly", "retrieve_cost_evidence",
                                      "correlate_usage_patterns", "validate_cost_attribution">>
  BY DEF Plan
<1>2. CASE workflow = "incident_triage"
  <2>1. Len(Plan[workflow]) = 3 /\ DOMAIN Plan[workflow] = 1 .. 3
    BY <1>1, <1>2
  <2>2. \A i \in 1 .. 3 : i = 1 \/ i = 2 \/ i = 3
    OBVIOUS
  <2>3. /\ Plan[workflow][1] = "analyze_incident" /\ Plan[workflow][2] = "gather_evidence"
        /\ Plan[workflow][3] = "validate_incident"
    BY <1>1, <1>2
  <2>4. QED
    BY <2>1, <2>2, <2>3 DEF StepName
<1>3. CASE workflow = "cost_attribution"
  <2>1. Len(Plan[workflow]) = 4 /\ DOMAIN Plan[workflow] = 1 .. 4
    BY <1>1, <1>3
  <2>2. \A i \in 1 .. 4 : i = 1 \/ i = 2 \/ i = 3 \/ i = 4
    OBVIOUS
  <2>3. /\ Plan[workflow][1] = "analyze_cost_anomaly"
        /\ Plan[workflow][2] = "retrieve_cost_evidence"
        /\ Plan[workflow][3] = "correlate_usage_patterns"
        /\ Plan[workflow][4] = "validate_cost_attribution"
    BY <1>1, <1>3
  <2>4. QED
    BY <2>1, <2>2, <2>3 DEF StepName
<1>4. QED
  BY <1>2, <1>3

\* What is told stays told while other steps add rows.
LEMMA StaysTold ==
  ASSUME NEW s, NEW result, Told(s, result), faults' = faults \/ faults' # 0,
         \/ timeline' = timeline
         \/ \E row : OneMore(timeline, timeline', row) /\ row.step # s
  PROVE  Told(s, result)'
<1>1. CASE timeline' = timeline
  BY <1>1 DEF Told
<1>2. ASSUME NEW row, OneMore(timeline, timeline', row), row.step # s
      PROVE  Told(s, result)'
  <2>1. PICK i \in DOMAIN timeline :
          /\ timeline[i].step = s /\ timeline[i].path = result.source
          /\ result.source = "model_runtime" => timeline[i].retry_count = result.retry_count
          /\ \A j \in DOMAIN timeline :
               timeline[j].step = s => j <= i /\ (faults = 0 => j = i)
    BY DEF Told
  <2>2. i \in DOMAIN timeline' /\ timeline'[i] = timeline[i]
    BY <1>2 DEF OneMore
  <2>3. \A j \in DOMAIN timeline' :
          timeline'[j].step = s => j <= i /\ (faults' = 0 => j = i)
    BY <1>2, <2>1 DEF OneMore
  <2>4. QED
    BY <2>1, <2>2, <2>3 DEF Told
<1>3. QED
  BY <1>1, <1>2

\* A row just added tells what it says.
LEMMA TellsNow ==
  ASSUME NEW s, NEW result, NEW row, OneMore(timeline, timeline', row),
         row.step = s, row.path = result.source,
         result.source = "model_runtime" => row.retry_count = result.retry_count,
         faults' = 0 => NotTold(s)
  PROVE  Told(s, result)'
<1>1. Len(timeline) + 1 \in DOMAIN timeline' /\ timeline'[Len(timeline) + 1] = row
  BY DEF OneMore
<1>2. \A j \in DOMAIN timeline' :
        timeline'[j].step = s =>
          j <= Len(timeline) + 1 /\ (faults' = 0 => j = Len(timeline) + 1)
  BY DEF OneMore, NotTold
<1>3. QED
  BY <1>1, <1>2 DEF Told

\* What TraceInv says of the rows and results stored.
TraceSteady ==
  /\ workflow \in {"incident_triage", "cost_attribution"}
  /\ place \in 1 .. Len(Plan[workflow]) + 1
  /\ place \in DOMAIN Plan[workflow] \/ pc = "done"
  /\ \A i \in DOMAIN Plan[workflow] :
       i > place \/ (i = place /\ pc # "halted") => results[Plan[workflow][i]].source = "none"
  /\ \A j \in DOMAIN timeline :
       \E i \in DOMAIN Plan[workflow] : i <= place /\ timeline[j].step = Plan[workflow][i]
  /\ TraceTellsTheSource

\* What is at hand at the places of a step.
TraceAtHand ==
  /\ pc \in {"next", "attempt", "backoff", "exhausted", "trace"}
       \/ (pc = "fallback" /\ faults = 0)
       => NotTold(Step)
  /\ pc = "save" /\ Step \in ModelSteps => Told(Step, held)

\* The two halves of TraceInv.
LEMMA TraceParts == TraceInv <=> TraceSteady /\ TraceAtHand
BY DEF TraceInv, TraceSteady, TraceAtHand

\* While a step is under way its rows do not touch what the others have stored.
LEMMA StepKeepsSteady ==
  ASSUME TraceInv, pc \notin {"halted", "done"}, pc' # "done",
         UNCHANGED <<workflow, place, results>>, faults' = faults \/ faults' # 0,
         \/ timeline' = timeline
         \/ \E row : OneMore(timeline, timeline', row) /\ row.step = Step
  PROVE  TraceSteady'
<1>1. /\ workflow \in {"incident_triage", "cost_attribution"}
      /\ place \in DOMAIN Plan[workflow] /\ place \in 1 .. Len(Plan[workflow]) + 1
      /\ results[Step].source = "none"
  BY DEF TraceInv, Step
<1>2. \A i \in DOMAIN Plan[workflow] :
        i > place \/ (i = place /\ pc # "halted") => results[Plan[workflow][i]].source = "none"
  BY DEF TraceInv
<1>3. \A j \in DOMAIN timeline' :
        \E i \in DOMAIN Plan[workflow] : i <= place /\ timeline'[j].step = Plan[workflow][i]
  <2>1. \A j \in DOMAIN timeline :
          \E i \in DOMAIN Plan[workflow] : i <= place /\ timeline[j].step = Plan[workflow][i]
    BY DEF TraceInv
  <2>2. CASE timeline' = timeline
    BY <2>1, <2>2
  <2>3. ASSUME NEW row, OneMore(timeline, timeline', row), row.step = Step,
               NEW j \in DOMAIN timeline'
        PROVE  \E i \in DOMAIN Plan[workflow] : i <= place /\ timeline'[j].step = Plan[workflow][i]
    <3>1. CASE j \in DOMAIN timeline
      BY <2>1, <2>3, <3>1 DEF OneMore
    <3>2. CASE j \notin DOMAIN timeline
      <4>1. timeline'[j] = row
        BY <2>3, <3>2 DEF OneMore
      <4>2. QED
        BY <1>1, <2>3, <4>1 DEF Step
    <3>3. QED
      BY <3>1, <3>2
  <2>4. QED
    BY <2>2, <2>3
<1>4. TraceTellsTheSource'
  <2>1. SUFFICES ASSUME NEW s \in ModelSteps, results[s].source # "none"
                 PROVE  Told(s, results[s])'
    BY DEF TraceTellsTheSource
  <2>2. Told(s, results[s]) /\ s # Step
    BY <1>1, <2>1 DEF TraceInv, TraceTellsTheSource
  <2>3. PICK result : result = results[s]
    OBVIOUS
  <2>4. Told(s, result)'
    BY <2>2, <2>3, StaysTold
  <2>5. QED
    BY <2>3, <2>4 DEF Told
<1>5. QED
  BY <1>1, <1>2, <1>3, <1>4 DEF TraceSteady

\* TraceInv, and what it rests on.
SourceInv ==
  /\ RetryInv /\ TraceInv
  /\ IsTimeline(timeline) /\ DOMAIN results = StepName

\* The steps that write nothing.
LEMMA QuietKeepsTrace ==
  ASSUME SourceInv, BeginModelStep \/ Attempt \/ Backoff \/ Exhausted \/ ToolStep
  PROVE  TraceInv'
<1>1. UNCHANGED <<workflow, place, results, timeline, faults>>
  BY DEF BeginModelStep, Attempt, Backoff, Exhausted, ToolStep, fixed, stored
<1>2. /\ pc \in {"next", "attempt", "backoff", "exhausted"}
      /\ pc' \in {"attempt", "backoff", "exhausted", "trace", "fallback", "save"}
      /\ pc' = "save" => Step \notin ModelSteps
  <2>1. CASE BeginModelStep \/ Backoff \/ Exhausted
    BY <2>1 DEF BeginModelStep, Backoff, Exhausted
  <2>2. CASE ToolStep
    BY <2>2 DEF ToolStep
  <2>3. CASE Attempt
    BY <2>3 DEF Attempt
  <2>4. QED
    BY <2>1, <2>2, <2>3
<1>3. TraceSteady'
  BY <1>1, <1>2, StepKeepsSteady DEF SourceInv
<1>4. NotTold(Step) /\ Step' = Step
  BY <1>1, <1>2 DEF SourceInv, TraceInv, Step
<1>5. TraceAtHand'
  BY <1>1, <1>2, <1>4 DEF TraceAtHand, NotTold
<1>6. QED
  BY <1>3, <1>5, TraceParts, PTL

\* The rows of a model step: the first one inside the try, the second one after it.
LEMMA RowsKeepTrace ==
  ASSUME SourceInv, TraceModel \/ Fallback
  PROVE  TraceInv' /\ IsTimeline(timeline')
<1>1. /\ UNCHANGED <<workflow, place, results>> /\ Step' = Step
      /\ faults \in Nat /\ faults' \in {faults, faults + 1}
      /\ faults' = faults \/ faults' # 0
  BY DEF TraceModel, Fallback, Repository, fixed, Step, SourceInv, RetryInv, CallTypes
<1>2. CASE TraceModel
  <2> DEFINE row == [step |-> Step, path |-> "model_runtime", retry_count |-> held.retry_count]
  <2>1. /\ pc = "trace" /\ held' = held
        /\ \/ AppendRow(row) /\ pc' = "save" /\ faults' = faults
           \/ /\ faults' = faults + 1 /\ pc' = "fallback"
              /\ AppendRow(row) \/ timeline' = timeline
    BY <1>2 DEF TraceModel, Repository
  <2>2. /\ row.step = Step /\ row.path = "model_runtime" /\ row.retry_count = held.retry_count
        /\ held.source = "model_runtime" /\ NotTold(Step)
    BY <2>1 DEF SourceInv, RetryInv, LoopPlaces, TraceInv
  <2> HIDE DEF row
  <2>3. timeline' = timeline \/ OneMore(timeline, timeline', row)
    BY <2>1, AppendsOne DEF SourceInv, AppendRow
  <2>4. IsTimeline(timeline')
    BY <2>1, AppendsOne DEF SourceInv, AppendRow
  <2>5. TraceSteady'
    BY <1>1, <2>1, <2>2, <2>3, StepKeepsSteady DEF SourceInv
  <2>6. CASE pc' = "save"
    <3>1. OneMore(timeline, timeline', row) /\ faults' = faults
      BY <2>1, <2>6, AppendsOne DEF SourceInv, AppendRow
    <3>2. PICK s, result : s = Step /\ result = held
      OBVIOUS
    <3>3. Told(s, result)'
      BY <2>2, <3>1, <3>2, TellsNow
    <3>4. TraceAtHand'
      BY <1>1, <2>1, <2>6, <3>2, <3>3 DEF TraceAtHand, Told
    <3>5. QED
      BY <2>4, <2>5, <3>4, TraceParts, PTL
  <2>7. CASE pc' # "save"
    <3>1. pc' = "fallback" /\ faults' # 0
      BY <1>1, <2>1, <2>7
    <3>2. TraceAtHand'
      BY <3>1 DEF TraceAtHand
    <3>3. QED
      BY <2>4, <2>5, <3>2, TraceParts, PTL
  <2>8. QED
    BY <2>6, <2>7
<1>3. CASE Fallback
  <2> DEFINE row == [step |-> Step, path |-> "deterministic_fallback"]
  <2>1. /\ pc = "fallback"
        /\ \/ /\ AppendRow(row) /\ pc' = "save" /\ faults' = faults
              /\ held' = [source |-> "deterministic_fallback"]
           \/ /\ faults' = faults + 1 /\ pc' = "halted"
              /\ AppendRow(row) \/ timeline' = timeline
    BY <1>3 DEF Fallback, Repository
  <2>2. /\ row.step = Step /\ row.path = "deterministic_fallback"
        /\ faults = 0 => NotTold(Step)
    BY <2>1 DEF SourceInv, TraceInv
  <2> HIDE DEF row
  <2>3. timeline' = timeline \/ OneMore(timeline, timeline', row)
    BY <2>1, AppendsOne DEF SourceInv, AppendRow
  <2>4. IsTimeline(timeline')
    BY <2>1, AppendsOne DEF SourceInv, AppendRow
  <2>5. TraceSteady'
    BY <1>1, <2>1, <2>2, <2>3, StepKeepsSteady DEF SourceInv
  <2>6. CASE pc' = "save"
    <3>1. AppendRow(row) /\ faults' = faults /\ held'.source = "deterministic_fallback"
      BY <2>1, <2>6
    <3>2. /\ OneMore(timeline, timeline', row) /\ faults' = faults
          /\ held'.source = "deterministic_fallback"
      BY <3>1, AppendsOne DEF SourceInv, AppendRow
    <3>3. PICK s, result : s = Step /\ result = held'
      OBVIOUS
    <3>4. Told(s, result)'
      BY <2>2, <3>2, <3>3, TellsNow
    <3>5. TraceAtHand'
      BY <1>1, <2>1, <2>6, <3>3, <3>4 DEF TraceAtHand, Told
    <3>6. QED
      BY <2>4, <2>5, <3>5, TraceParts, PTL
  <2>7. CASE pc' # "save"
    <3>1. pc' = "halted"
      BY <2>1, <2>7
    <3>2. TraceAtHand'
      BY <3>1 DEF TraceAtHand
    <3>3. QED
      BY <2>4, <2>5, <3>2, TraceParts, PTL
  <2>8. QED
    BY <2>6, <2>7
<1>4. QED
  BY <1>2, <1>3

\* A retrieval step adds a row of its own.
LEMMA RetrieveKeepsTrace ==
  ASSUME SourceInv, RetrieveStep
  PROVE  TraceInv' /\ IsTimeline(timeline')
<1>1. /\ UNCHANGED <<workflow, place, results>> /\ Step' = Step
      /\ pc = "next" /\ pc' \in {"save", "halted"} /\ Step \notin ModelSteps
      /\ faults' = faults \/ faults' # 0
  BY DEF RetrieveStep, Repository, fixed, Step, SourceInv, RetryInv, CallTypes, ModelSteps,
     RetrievalSteps
<1>2. \/ timeline' = timeline
      \/ \E row : timeline' = Append(timeline, row) /\ row.step = Step
  BY DEF RetrieveStep, Repository, AppendRow
<1>3. IsTimeline(timeline')
  BY <1>2, AppendsOne DEF SourceInv
<1>4. timeline' = timeline \/ \E row : OneMore(timeline, timeline', row) /\ row.step = Step
  BY <1>2, AppendsOne DEF SourceInv
<1>5. TraceSteady'
  BY <1>1, <1>4, StepKeepsSteady DEF SourceInv
<1>6. TraceAtHand'
  BY <1>1 DEF TraceAtHand
<1>7. QED
  BY <1>3, <1>5, <1>6, TraceParts, PTL

\* save_step_result stores what the trace has told.
LEMMA SaveKeepsTrace ==
  ASSUME SourceInv, SaveResult
  PROVE  TraceInv' /\ DOMAIN results' = StepName
<1>1. /\ UNCHANGED <<workflow, timeline>> /\ pc = "save"
      /\ faults' = faults \/ faults' # 0
      /\ results' = results \/ results' = [results EXCEPT ![Step] = held]
      /\ \/ pc' = "halted" /\ place' = place
         \/ /\ place' = place + 1 /\ results' = [results EXCEPT ![Step] = held]
            /\ pc' = IF place = Len(Plan[workflow]) THEN "done" ELSE "next"
  BY DEF SaveResult, Repository, fixed, SourceInv, RetryInv, CallTypes
<1>2. /\ workflow \in {"incident_triage", "cost_attribution"}
      /\ place \in DOMAIN Plan[workflow]
      /\ \A i \in DOMAIN Plan[workflow] : i > place => results[Plan[workflow][i]].source = "none"
      /\ \A j \in DOMAIN timeline :
           \E i \in DOMAIN Plan[workflow] : i <= place /\ timeline[j].step = Plan[workflow][i]
      /\ Step = Plan[workflow][place]
  BY <1>1 DEF SourceInv, TraceInv, Step
<1>3. /\ Len(Plan[workflow]) \in Nat \ {0} /\ DOMAIN Plan[workflow] = 1 .. Len(Plan[workflow])
      /\ \A i, j \in DOMAIN Plan[workflow] : Plan[workflow][i] = Plan[workflow][j] => i = j
      /\ Step \in StepName
  BY <1>2, PlansInOrder
<1>4. \A s \in StepName \ {Step} : results'[s] = results[s]
  BY <1>1, <1>3 DEF SourceInv
<1>5. \A i \in DOMAIN Plan[workflow] : i > place => results'[Plan[workflow][i]].source = "none"
  <2>1. SUFFICES ASSUME NEW i \in DOMAIN Plan[workflow], i > place
                 PROVE  results'[Plan[workflow][i]].source = "none"
    OBVIOUS
  <2>2. Plan[workflow][i] # Step /\ Plan[workflow][i] \in StepName
    BY <1>2, <1>3, <2>1, PlansInOrder
  <2>3. QED
    BY <1>2, <1>4, <2>1, <2>2
<1>6. TraceTellsTheSource'
  <2>1. SUFFICES ASSUME NEW s \in ModelSteps, results'[s].source # "none"
                 PROVE  Told(s, results[s])'
    BY DEF TraceTellsTheSource
  <2>2. PICK result : result = results'[s]
    OBVIOUS
  <2>3. s \in StepName
    BY DEF ModelSteps, StepName
  <2>4. Told(s, result)
    <3>1. CASE result = results[s]
      BY <2>1, <2>2, <3>1 DEF SourceInv, TraceInv, TraceTellsTheSource
    <3>2. CASE result # results[s]
      <4>1. s = Step /\ result = held
        BY <1>1, <1>4, <2>2, <2>3, <3>2 DEF SourceInv
      <4>2. QED
        BY <1>1, <4>1 DEF SourceInv, TraceInv
    <3>3. QED
      BY <3>1, <3>2
  <2>5. Told(s, result)'
    BY <1>1, <2>4, StaysTold
  <2>6. QED
    BY <2>2, <2>5 DEF Told
<1>7. DOMAIN results' = StepName
  BY <1>1 DEF SourceInv
<1>8. CASE pc' = "halted" /\ place' = place
  <2>1. TraceSteady'
    BY <1>1, <1>2, <1>3, <1>5, <1>6, <1>8 DEF TraceSteady
  <2>2. TraceAtHand'
    BY <1>8 DEF TraceAtHand
  <2>3. QED
    BY <1>7, <2>1, <2>2 DEF TraceInv, TraceSteady, TraceAtHand
<1>9. CASE place' = place + 1 /\ pc' = IF place = Len(Plan[workflow]) THEN "done" ELSE "next"
  <2>1. place' \in 1 .. Len(Plan[workflow]) + 1 /\ (place' \in DOMAIN Plan[workflow] \/ pc' = "done")
    BY <1>2, <1>3, <1>9
  <2>2. \A i \in DOMAIN Plan[workflow] : i >= place' => results'[Plan[workflow][i]].source = "none"
    BY <1>2, <1>3, <1>5, <1>9
  <2>3. \A j \in DOMAIN timeline :
          \E i \in DOMAIN Plan[workflow] : i <= place' /\ timeline[j].step = Plan[workflow][i]
    BY <1>2, <1>3, <1>9
  <2>4. TraceSteady'
    BY <1>1, <1>2, <1>3, <1>6, <2>1, <2>2, <2>3 DEF TraceSteady
  <2>5. pc' # "done" => NotTold(Step)'
    <3>1. SUFFICES ASSUME pc' # "done", NEW j \in DOMAIN timeline PROVE timeline[j].step # Step'
      BY <1>1 DEF NotTold
    <3>2. place' \in DOMAIN Plan[workflow] /\ Step' = Plan[workflow][place']
      BY <1>1, <2>1, <3>1 DEF Step
    <3>3. PICK i \in DOMAIN Plan[workflow] : i <= place /\ timeline[j].step = Plan[workflow][i]
      BY <1>2
    <3>4. i # place'
      BY <1>2, <1>3, <1>9, <3>3
    <3>5. QED
      BY <1>3, <3>2, <3>3, <3>4
  <2>6. TraceAtHand'
    BY <1>9, <2>5 DEF TraceAtHand
  <2>7. QED
    BY <1>7, <2>4, <2>6 DEF TraceInv, TraceSteady, TraceAtHand
<1>10. QED
  BY <1>1, <1>8, <1>9

\* Every step keeps the invariant.
LEMMA SourceNext == SourceInv /\ [Next]_vars => SourceInv'
<1> SUFFICES ASSUME SourceInv, [Next]_vars PROVE SourceInv'
  OBVIOUS
<1>1. RetryInv'
  BY AttemptKeeps, LoopKeeps, RestKeeps DEF SourceInv, Next, EngineNext
<1>2. CASE BeginModelStep \/ Attempt \/ Backoff \/ Exhausted \/ ToolStep
  <2>1. UNCHANGED <<results, timeline>>
    BY <1>2 DEF BeginModelStep, Attempt, Backoff, Exhausted, ToolStep, stored
  <2>2. QED
    BY <1>1, <1>2, <2>1, QuietKeepsTrace DEF SourceInv
<1>3. CASE TraceModel \/ Fallback
  <2>1. UNCHANGED results
    BY <1>3 DEF TraceModel, Fallback
  <2>2. QED
    BY <1>1, <1>3, <2>1, RowsKeepTrace DEF SourceInv
<1>4. CASE RetrieveStep
  <2>1. UNCHANGED results
    BY <1>4 DEF RetrieveStep
  <2>2. QED
    BY <1>1, <1>4, <2>1, RetrieveKeepsTrace DEF SourceInv
<1>5. CASE SaveResult
  <2>1. UNCHANGED timeline
    BY <1>5 DEF SaveResult
  <2>2. QED
    BY <1>1, <1>5, <2>1, SaveKeepsTrace DEF SourceInv
<1>6. CASE Ingest \/ Ended \/ UNCHANGED vars
  <2>1. UNCHANGED <<workflow, place, pc, held, results, timeline, faults>>
    BY <1>6 DEF Ingest, Ended, vars, fixed, stored
  <2>2. Step' = Step
    BY <2>1 DEF Step
  <2>3. TraceInv'
    BY <2>1, <2>2 DEF SourceInv, TraceInv, NotTold, Told, TraceTellsTheSource
  <2>4. QED
    BY <1>1, <2>1, <2>3 DEF SourceInv
<1>7. QED
  BY <1>2, <1>3, <1>4, <1>5, <1>6 DEF Next, EngineNext

\* Before the first step nothing is stored and nothing is told.
LEMMA SourceInit == Init => SourceInv
<1> SUFFICES ASSUME Init PROVE SourceInv
  OBVIOUS
<1>1. RetryInv
  BY InitRetry
<1>2. /\ workflow \in {"incident_triage", "cost_attribution"}
      /\ place = 1 /\ pc = "next" /\ timeline = <<>>
      /\ DOMAIN results = StepName /\ \A s \in StepName : results[s].source = "none"
  BY DEF Init, NoResult
<1>3. IsTimeline(timeline) /\ DOMAIN timeline = {}
  BY <1>2 DEF IsTimeline
<1>4. \A i \in DOMAIN Plan[workflow] : results[Plan[workflow][i]].source = "none"
  BY <1>2, PlansInOrder
<1>5. place \in DOMAIN Plan[workflow] /\ place \in 1 .. Len(Plan[workflow]) + 1
  BY <1>2, PlansInOrder
<1>6. TraceTellsTheSource
  BY <1>2 DEF TraceTellsTheSource, ModelSteps, StepName
<1>7. NotTold(Step)
  BY <1>3 DEF NotTold
<1>8. TraceInv
  BY <1>2, <1>3, <1>4, <1>5, <1>6, <1>7 DEF TraceInv
<1>9. QED
  BY <1>1, <1>2, <1>3, <1>8 DEF SourceInv

\* For every retry budget and any number of failing writes, the trace tells where each
\* stored result of a model step comes from.
THEOREM TraceIsTrue == Spec => []TraceTellsTheSource
<1>1. SourceInv => TraceTellsTheSource
  BY DEF SourceInv, TraceInv
<1>2. QED
  BY <1>1, SourceInit, SourceNext, PTL DEF Spec

(***************************************************************************)
(* What a retrieval cites.                                                 *)
(***************************************************************************)
\* The key of the sort is a strict order of the scored rows.
Marks(scored) ==
  /\ IsFiniteSet(scored)
  /\ \A a \in scored : a.score \in Nat /\ a.id \in Int /\ a.place \in Int
  /\ \A a, b \in scored : a.place = b.place => a = b

LEMMA BetterOrders ==
  ASSUME NEW scored, Marks(scored), NEW a \in scored, NEW b \in scored, NEW c \in scored
  PROVE  /\ ~ Better(a, a)
         /\ Better(a, b) /\ Better(b, c) => Better(a, c)
         /\ a = b \/ Better(a, b) \/ Better(b, a)
         /\ ~ Better(b, a) => a.score >= b.score
  BY DEF Marks, Better

Before(scored, a) == {b \in scored : Better(b, a)}

LEMMA BeforeIsFinite ==
  ASSUME NEW scored, Marks(scored), NEW a \in scored
  PROVE  /\ IsFiniteSet(Before(scored, a)) /\ Cardinality(Before(scored, a)) \in Nat
         /\ Cardinality(scored) \in Nat
         /\ Cardinality(Before(scored, a)) < Cardinality(scored)
  <1>1. IsFiniteSet(scored) /\ Before(scored, a) \in SUBSET scored
    BY DEF Marks, Before
  <1>2. IsFiniteSet(Before(scored, a)) /\ Cardinality(Before(scored, a)) <= Cardinality(scored)
        /\ (Cardinality(scored) = Cardinality(Before(scored, a)) => scored = Before(scored, a))
    BY <1>1, FS_Subset
  <1>3. Cardinality(Before(scored, a)) \in Nat /\ Cardinality(scored) \in Nat
    BY <1>1, <1>2, FS_CardinalityType
  <1>4. a \notin Before(scored, a)
    BY BetterOrders DEF Before
  <1>5. QED BY <1>2, <1>3, <1>4

\* Who is ahead of somebody has fewer ahead of it.
LEMMA FewerBefore ==
  ASSUME NEW scored, Marks(scored), NEW a \in scored, NEW b \in scored, Better(a, b)
  PROVE  Cardinality(Before(scored, a)) < Cardinality(Before(scored, b))
  <1>1. PICK A : A = Before(scored, a)
    OBVIOUS
  <1>2. PICK B : B = Before(scored, b)
    OBVIOUS
  <1>3. A \in SUBSET B
    <2>1. ASSUME NEW c \in A PROVE c \in B
      BY <1>1, <1>2, <2>1, BetterOrders DEF Before
    <2>2. QED BY <2>1
  <1>4. a \in B /\ a \notin A
    BY <1>1, <1>2, BetterOrders DEF Before
  <1>5. IsFiniteSet(B) /\ Cardinality(A) \in Nat /\ Cardinality(B) \in Nat
    BY <1>1, <1>2, BeforeIsFinite
  <1>6. Cardinality(A) <= Cardinality(B) /\ (Cardinality(B) = Cardinality(A) => B = A)
    BY <1>3, <1>5, FS_Subset
  <1>7. QED BY <1>1, <1>2, <1>4, <1>5, <1>6

IsRanking(scored, n, ranked) ==
  /\ n \in Nat /\ ranked \in [1 .. n -> scored]
  /\ \A k \in 1 .. n : Cardinality(Before(scored, ranked[k])) = k - 1
  /\ \A a \in scored : \E k \in 1 .. n : ranked[k] = a

\* The ranking has every scored row at its place.
LEMMA RankedRows ==
  ASSUME NEW scored, Marks(scored), NEW n, n = Cardinality(scored), NEW ranked, ranked = Ranked(scored)
  PROVE  IsRanking(scored, n, ranked)
  <1> DEFINE rank == [a \in scored |-> Cardinality(Before(scored, a))]
  <1>1. n \in Nat
    BY FS_CardinalityType DEF Marks
  <1>2. rank \in [scored -> 0 .. n - 1]
    <2>1. ASSUME NEW a \in scored PROVE Cardinality(Before(scored, a)) \in 0 .. n - 1
      BY <1>1, BeforeIsFinite
    <2>2. QED BY <2>1
  <1>3. \A a, b \in scored : rank[a] = rank[b] => a = b
    <2>1. ASSUME NEW a \in scored, NEW b \in scored, a # b PROVE rank[a] # rank[b]
      <3>1. Better(a, b) \/ Better(b, a)
        BY <2>1, BetterOrders
      <3>2. Cardinality(Before(scored, a)) \in Nat /\ Cardinality(Before(scored, b)) \in Nat
        BY BeforeIsFinite
      <3>3. Cardinality(Before(scored, a)) # Cardinality(Before(scored, b))
        BY <3>1, <3>2, FewerBefore
      <3>4. QED BY <3>3
    <2>2. QED BY <2>1
  <1>4. \A k \in 0 .. n - 1 : \E a \in scored : rank[a] = k
    <2>1. rank \in Injection(scored, 0 .. n - 1)
      <3> HIDE DEF rank
      <3>1. QED BY <1>2, <1>3 DEF Injection, IsInjective
    <2>2. IsFiniteSet(0 .. n - 1) /\ Cardinality(0 .. n - 1) = n
      <3>1. 0 \in Int /\ n - 1 \in Int
        BY <1>1
      <3>2. IsFiniteSet(0 .. n - 1) /\ Cardinality(0 .. n - 1) = IF 0 > n - 1 THEN 0 ELSE n - 1 - 0 + 1
        BY <3>1, FS_Interval
      <3>3. QED BY <1>1, <3>2
    <2>3. rank \in Surjection(scored, 0 .. n - 1)
      <3> HIDE DEF rank
      <3>1. QED BY <2>1, <2>2, FS_Injection
    <2>4. QED
      <3> HIDE DEF rank
      <3>1. QED BY <2>3 DEF Surjection
  <1>5. \A k \in 1 .. n : ranked[k] \in scored /\ rank[ranked[k]] = k - 1
    <2>1. PICK ahead : ahead = {<<a, Cardinality(Before(scored, a))>> : a \in scored}
      OBVIOUS
    <2>2. ranked = [k \in 1 .. n |-> (CHOOSE p \in ahead : p[2] = k - 1)[1]]
      BY <2>1 DEF Ranked, Before
    <2>3. ASSUME NEW k \in 1 .. n PROVE ranked[k] \in scored /\ rank[ranked[k]] = k - 1
      <3>1. PICK a \in scored : rank[a] = k - 1
        <4>1. k - 1 \in 0 .. n - 1
          BY <1>1
        <4> HIDE DEF rank
        <4>2. QED BY <1>4, <4>1
      <3>2. PICK p : p = CHOOSE q \in ahead : q[2] = k - 1
        OBVIOUS
      <3>3. <<a, rank[a]>> \in ahead /\ <<a, rank[a]>>[2] = k - 1
        BY <2>1, <3>1
      <3>4. p \in ahead /\ p[2] = k - 1
        BY <3>2, <3>3
      <3>5. PICK b \in scored : p = <<b, rank[b]>>
        BY <2>1, <3>4
      <3>6. ranked[k] = b
        BY <2>2, <3>2, <3>5
      <3>7. QED BY <3>4, <3>5, <3>6
    <2>4. QED BY <2>3
  <1>6. ranked \in [1 .. n -> scored]
    <2>1. ranked = [k \in 1 .. n |-> ranked[k]]
      BY DEF Ranked
    <2> HIDE DEF rank
    <2>2. QED BY <1>5, <2>1
  <1>7. \A a \in scored : \E k \in 1 .. n : ranked[k] = a
    <2>1. ASSUME NEW a \in scored PROVE \E k \in 1 .. n : ranked[k] = a
      <3> HIDE DEF rank
      <3>1. PICK k \in Int : k = rank[a] + 1
        BY <1>2, <1>1
      <3>2. k \in 1 .. n /\ k - 1 = rank[a]
        BY <1>1, <1>2, <3>1
      <3>3. ranked[k] \in scored /\ rank[ranked[k]] = rank[a]
        BY <1>5, <3>2
      <3>4. QED BY <1>3, <3>2, <3>3
    <2>2. QED BY <2>1
  <1>8. QED BY <1>1, <1>5, <1>6, <1>7 DEF IsRanking

LEMMA ScoreIsNatural ==
  ASSUME NEW row, IsRow(row), NEW query
  PROVE  Score(row, query) \in Nat
  <1>1. IsFiniteSet(row.keywords) /\ row.similarity \in Nat
    BY DEF IsRow
  <1>2. IsFiniteSet(query \cap row.keywords)
    BY <1>1, FS_Intersection
  <1>3. Cardinality(query \cap row.keywords) \in Nat
    BY <1>2, FS_CardinalityType
  <1>4. QED BY <1>1, <1>3 DEF Score

\* The scored rows, by what they were made of.
LEMMA ScoredFrom ==
  ASSUME NEW rows, NEW places, NEW query
  PROVE  /\ \A a \in Scored(rows, places, query) :
              a.place \in places /\ a.score = Score(rows[a.place], query) /\ a.id = rows[a.place].id
         /\ \A a, b \in Scored(rows, places, query) : a.place = b.place => a = b
         /\ \A i \in places : Score(rows[i], query) > 0 =>
              \E a \in Scored(rows, places, query) : a.place = i
  <1> DEFINE mark(i) == [score |-> Score(rows[i], query), id |-> rows[i].id, place |-> i]
  <1>1. Scored(rows, places, query) = {a \in {mark(i) : i \in places} : a.score > 0}
    BY DEF Scored
  <1>2. \A i : mark(i).place = i /\ mark(i).score = Score(rows[i], query) /\ mark(i).id = rows[i].id
    OBVIOUS
  <1>3. \A a \in Scored(rows, places, query) : \E i \in places : a = mark(i)
    <2> HIDE DEF mark
    <2>1. QED BY <1>1
  <1>4. \A i \in places : mark(i).score > 0 => mark(i) \in Scored(rows, places, query)
    <2> HIDE DEF mark
    <2>1. QED BY <1>1
  <1> HIDE DEF mark
  <1>5. QED BY <1>2, <1>3, <1>4

LEMMA ScoredMarks ==
  ASSUME NEW rows, IsCorpus(rows), NEW places \in SUBSET (DOMAIN rows), NEW query
  PROVE  Marks(Scored(rows, places, query))
  <1>1. PICK scored : scored = Scored(rows, places, query)
    OBVIOUS
  <1>2. PICK n \in Nat : DOMAIN rows = 1 .. n
    BY SeqDomain DEF IsCorpus, IsSeq
  <1>3. \A a \in scored : a.score \in Nat /\ a.id \in Int /\ a.place \in 1 .. n
    <2>1. ASSUME NEW a \in scored PROVE a.score \in Nat /\ a.id \in Int /\ a.place \in 1 .. n
      <3>1. a.place \in 1 .. n /\ a.score = Score(rows[a.place], query) /\ a.id = rows[a.place].id
        BY <1>1, <1>2, ScoredFrom
      <3>2. IsRow(rows[a.place])
        BY <1>2, <3>1 DEF IsCorpus
      <3>3. QED BY <3>1, <3>2, ScoreIsNatural DEF IsRow
    <2>2. QED BY <2>1
  <1>4. \A a, b \in scored : a.place = b.place => a = b
    BY <1>1, ScoredFrom
  <1>5. IsFiniteSet(scored)
    <2>1. PICK f : f = [a \in scored |-> a.place]
      OBVIOUS
    <2>2. f \in [scored -> 1 .. n] /\ \A a, b \in scored : f[a] = f[b] => a = b
      BY <1>3, <1>4, <2>1
    <2>3. f \in Injection(scored, 1 .. n)
      BY <2>2 DEF Injection, IsInjective
    <2>4. IsFiniteSet(1 .. n)
      <3>1. 1 \in Int /\ n \in Int
        OBVIOUS
      <3>2. QED BY <3>1, FS_Interval
    <2>5. QED BY <2>3, <2>4, FS_Injection
  <1>6. QED BY <1>1, <1>3, <1>4, <1>5 DEF Marks

LEMMA LeastElement ==
  ASSUME NEW S \in SUBSET Nat, S # {}
  PROVE  Min(S) \in S
  <1>1. \E x \in S : \A y \in S : x <= y
    <2>1. SUFFICES ASSUME \A x \in S : \E y \in S : y < x PROVE FALSE
      OBVIOUS
    <2> DEFINE T == {k \in Nat : \A m \in 0 .. k : m \notin S}
    <2>2. 0 \in T
      BY <2>1
    <2>3. ASSUME NEW k \in Nat, k \in T PROVE k + 1 \in T
      <3>1. k + 1 \notin S
        BY <2>1, <2>3
      <3>2. QED BY <2>3, <3>1
    <2>4. \A k \in Nat : k \in T
      <3> HIDE DEF T
      <3>1. QED BY <2>2, <2>3, NaturalsBySets
    <2>5. PICK x \in S : x \in Nat
      OBVIOUS
    <2>6. x \in T
      BY <2>4, <2>5
    <2>7. QED BY <2>5, <2>6
  <1>2. QED BY <1>1 DEF Min

LEMMA SmallerIsNatural ==
  ASSUME NEW a \in Nat, NEW b \in Nat
  PROVE  Min({a, b}) \in Nat
  <1>1. a \in Int /\ b \in Int
    OBVIOUS
  <1>2. Min({a, b}) \in {a, b}
    BY <1>1, SmallerOfTwo
  <1>3. QED BY <1>2

LEMMA CappedAlike ==
  ASSUME NEW cap \in Nat, NEW s \in Nat, NEW t \in Nat, s >= t
  PROVE  Min({cap, s}) >= Min({cap, t}) /\ Min({cap, s}) \in Nat /\ Min({cap, t}) \in Nat
  <1>1. cap \in Int /\ s \in Int /\ t \in Int
    OBVIOUS
  <1>2. Min({cap, s}) \in {cap, s}
    BY <1>1, SmallerOfTwo
  <1>3. Min({cap, t}) \in {cap, t}
    BY <1>1, SmallerOfTwo
  <1>4. Min({cap, t}) <= cap /\ Min({cap, t}) <= t
    BY <1>1, SmallerOfTwo
  <1>5. QED BY <1>2, <1>3, <1>4

\* The places that are searched hold the searched rows.
LEMMA PlacesSearched ==
  ASSUME NEW rows, IsCorpus(rows), NEW request, NEW places, places = FilterCorpus(rows, request)
  PROVE  /\ places \in SUBSET (DOMAIN rows) /\ places # {}
         /\ Searched(request, rows) = {rows[i] : i \in places}
  <1>1. PICK n \in Nat : DOMAIN rows = 1 .. n
    BY SeqDomain DEF IsCorpus, IsSeq
  <1>2. DOMAIN rows # {}
    <2>1. SUFFICES ASSUME DOMAIN rows = {} PROVE FALSE
      OBVIOUS
    <2>2. rows = [i \in 1 .. n |-> rows[i]]
      BY <1>1, SeqDomain DEF IsCorpus, IsSeq
    <2>3. rows = <<>>
      BY <1>1, <2>1, <2>2
    <2>4. QED BY <2>3 DEF IsCorpus
  <1> DEFINE scoped == {i \in DOMAIN rows : InScope(rows[i], request)}
             scope == {row \in {rows[i] : i \in DOMAIN rows} : InScope(row, request)}
  <1>3. scope = {rows[i] : i \in scoped} /\ scoped \subseteq DOMAIN rows
    OBVIOUS
  <1>4. scope = {} <=> scoped = {}
    BY <1>3
  <1>5. /\ places = IF scoped = {} THEN DOMAIN rows ELSE scoped
        /\ Searched(request, rows) =
             IF scope = {} THEN {rows[i] : i \in DOMAIN rows} ELSE scope
    BY DEF FilterCorpus, Searched
  <1> HIDE DEF scope, scoped
  <1>6. CASE scoped = {}
    BY <1>2, <1>4, <1>5, <1>6
  <1>7. CASE scoped # {}
    BY <1>3, <1>4, <1>5, <1>7
  <1>8. QED BY <1>6, <1>7

\* The cited chunk of a scored row, and what it takes from the row.
LEMMA RetrievesGrounded ==
  ASSUME NEW rows, IsCorpus(rows), NEW request, request.max \in Nat \ {0},
         NEW response, response = Retrieve(request, rows)
  PROVE  Grounded(response, rows)
  <1>1. PICK places : places = FilterCorpus(rows, request)
    OBVIOUS
  <1>2. PICK query : query = request.query
    OBVIOUS
  <1>3. PICK scored : scored = Scored(rows, places, query)
    OBVIOUS
  <1>4. PICK max \in Nat \ {0} : max = request.max
    OBVIOUS
  <1>5. PICK ten \in Nat : ten = 10
    OBVIOUS
  <1>6. PICK title : title = rows[Max(places)].title
    OBVIOUS
  <1>7. PICK chunks : chunks = ScoreAndRank(query, rows, places, max)
    OBVIOUS
  <1>8. response.request = request /\ response.chunks = chunks
    BY <1>1, <1>2, <1>4, <1>7 DEF Retrieve
  <1>9. /\ places \in SUBSET (DOMAIN rows) /\ places # {}
        /\ Searched(request, rows) = {rows[i] : i \in places}
    BY <1>1, PlacesSearched
  <1>10. \A i \in places : IsRow(rows[i]) /\ Score(rows[i], query) \in Nat
    BY <1>9, ScoreIsNatural DEF IsCorpus
  <1> DEFINE Source(chunk) == {row \in Searched(request, rows) :
                                 /\ row.id = chunk.id /\ row.doc = chunk.doc
                                 /\ row.meta = chunk.meta /\ row.version = chunk.version}
             OfPlace(chunk, i) == /\ chunk.id = rows[i].id /\ chunk.doc = rows[i].doc
                                  /\ chunk.meta = rows[i].meta /\ chunk.version = rows[i].version
  <1>11. SUFFICES /\ Len(chunks) \in 1 .. max /\ DOMAIN chunks = 1 .. Len(chunks)
                  /\ \A k \in 1 .. Len(chunks) : \E i \in places : OfPlace(chunks[k], i)
                  /\ \A k \in 1 .. Len(chunks), l \in 1 .. Len(chunks) :
                       l < k => chunks[l].score >= chunks[k].score
                  /\ \A i \in places : \/ \E k \in 1 .. Len(chunks) : chunks[k].id = rows[i].id
                                       \/ Min({ten, Score(rows[i], query)}) <= chunks[Len(chunks)].score
    <2>1. \A k \in 1 .. Len(chunks) : \E i \in places : rows[i] \in Source(chunks[k])
      BY <1>9, <1>11
    <2>2. \A k \in DOMAIN chunks : Source(chunks[k]) # {}
      <3> HIDE DEF Source
      <3>1. QED BY <1>11, <2>1
    <2>3. \A k \in DOMAIN chunks : \A l \in 1 .. k - 1 : chunks[l].score >= chunks[k].score
      BY <1>11
    <2>4. \A row \in Searched(request, rows) :
            \/ \E k \in DOMAIN chunks : chunks[k].id = row.id
            \/ Min({10, Score(row, request.query)}) <= chunks[Len(chunks)].score
      BY <1>2, <1>5, <1>9, <1>11
    <2> HIDE DEF OfPlace
    <2>5. QED BY <1>4, <1>8, <1>11, <2>2, <2>3, <2>4 DEF Grounded
  <1>12. CASE scored # {}
    <2>1. Marks(scored)
      BY <1>3, <1>9, ScoredMarks
    <2>2. PICK n : n = Cardinality(scored)
      OBVIOUS
    <2>3. PICK ranked : ranked = Ranked(scored)
      OBVIOUS
    <2>4. /\ n \in Nat /\ ranked \in [1 .. n -> scored]
          /\ \A k \in 1 .. n : Cardinality(Before(scored, ranked[k])) = k - 1
          /\ \A a \in scored : \E k \in 1 .. n : ranked[k] = a
      <3>1. IsRanking(scored, n, ranked)
        BY <2>1, <2>2, <2>3, RankedRows
      <3>2. QED BY <3>1 DEF IsRanking
    <2>5. n # 0
      BY <1>12, <2>4
    <2>6. PICK m : m = Min({max, n})
      OBVIOUS
    <2>7. m \in 1 .. max /\ m \in 1 .. n
      <3>1. max \in Int /\ n \in Int
        BY <2>4
      <3>2. m \in {max, n} /\ m <= max /\ m <= n
        BY <3>1, <2>6, SmallerOfTwo
      <3>3. QED BY <2>4, <2>5, <3>2
    <2>8. chunks = [k \in 1 .. m |-> Chunk(rows[ranked[k].place], title, Min({ten, ranked[k].score}))]
      BY <1>3, <1>5, <1>6, <1>7, <1>12, <2>2, <2>3, <2>6 DEF ScoreAndRank
    <2>9. Len(chunks) = m /\ DOMAIN chunks = 1 .. m
      BY <2>7, <2>8
    <2>10. \A k \in 1 .. m : /\ ranked[k] \in scored /\ OfPlace(chunks[k], ranked[k].place)
                             /\ chunks[k].score = Min({ten, ranked[k].score})
      <3>1. ASSUME NEW k \in 1 .. m
            PROVE /\ ranked[k] \in scored /\ OfPlace(chunks[k], ranked[k].place)
                  /\ chunks[k].score = Min({ten, ranked[k].score})
        <4>1. PICK score : score = Min({ten, ranked[k].score})
          OBVIOUS
        <4>2. chunks[k] = Chunk(rows[ranked[k].place], title, score)
          BY <2>8, <4>1
        <4>3. QED BY <2>4, <2>7, <4>1, <4>2 DEF Chunk
      <3>2. QED BY <3>1
    <2>11. \A a \in scored : a.place \in places /\ a.score = Score(rows[a.place], query) /\ a.score \in Nat
      BY <1>3, <2>1, ScoredFrom DEF Marks
    <2>12. \A k \in 1 .. n, l \in 1 .. n :
             l < k => Min({ten, ranked[l].score}) >= Min({ten, ranked[k].score})
      <3>1. ASSUME NEW k \in 1 .. n, NEW l \in 1 .. n, l < k
            PROVE  Min({ten, ranked[l].score}) >= Min({ten, ranked[k].score})
        <4>1. PICK a \in scored : a = ranked[l]
          BY <2>4
        <4>2. PICK b \in scored : b = ranked[k]
          BY <2>4
        <4>3. ~ Better(b, a)
          <5>1. SUFFICES ASSUME Better(b, a) PROVE FALSE
            OBVIOUS
          <5>2. Cardinality(Before(scored, b)) < Cardinality(Before(scored, a))
            BY <2>1, <5>1, FewerBefore
          <5>3. Cardinality(Before(scored, b)) = k - 1 /\ Cardinality(Before(scored, a)) = l - 1
            BY <2>4, <4>1, <4>2
          <5>4. QED BY <2>4, <3>1, <5>2, <5>3
        <4>4. a.score >= b.score /\ a.score \in Nat /\ b.score \in Nat
          BY <2>1, <2>11, <4>3, BetterOrders
        <4>5. PICK s \in Nat, t \in Nat : s = a.score /\ t = b.score
          BY <4>4
        <4>6. Min({ten, s}) >= Min({ten, t})
          BY <4>4, <4>5, CappedAlike
        <4>7. QED BY <4>1, <4>2, <4>5, <4>6
      <3>2. QED BY <3>1
    <2>13. \A i \in places : \/ \E k \in 1 .. m : chunks[k].id = rows[i].id
                             \/ Min({ten, Score(rows[i], query)}) <= chunks[m].score
      <3>1. ASSUME NEW i \in places PROVE \/ \E k \in 1 .. m : chunks[k].id = rows[i].id
                                          \/ Min({ten, Score(rows[i], query)}) <= chunks[m].score
        <4>1. CASE Score(rows[i], query) > 0
          <5>1. PICK a \in scored : a.place = i
            BY <1>3, <4>1, ScoredFrom
          <5>2. PICK k \in 1 .. n : ranked[k] = a
            BY <2>4
          <5>3. CASE k <= m
            <6>1. k \in 1 .. m
              BY <2>7, <5>3
            <6>2. chunks[k].id = rows[i].id
              BY <2>10, <5>1, <5>2, <6>1
            <6>3. QED BY <6>1, <6>2
          <5>4. CASE ~ (k <= m)
            <6>1. m < k /\ m \in 1 .. n /\ m \in 1 .. m
              BY <2>4, <2>7, <5>4
            <6>2. Min({ten, ranked[m].score}) >= Min({ten, ranked[k].score})
              BY <2>12, <6>1
            <6>3. chunks[m].score = Min({ten, ranked[m].score})
              BY <2>10, <6>1
            <6>4. ranked[k].score = Score(rows[i], query)
              BY <2>11, <5>1, <5>2
            <6>5. PICK s \in Nat, t \in Nat : s = ranked[m].score /\ t = ranked[k].score
              BY <2>4, <2>11, <6>1
            <6>6. Min({ten, s}) \in Nat /\ Min({ten, t}) \in Nat /\ Min({ten, s}) >= Min({ten, t})
              <7>1. Min({ten, s}) \in Nat /\ Min({ten, t}) \in Nat
                BY SmallerIsNatural
              <7>2. QED BY <6>2, <6>5, <7>1
            <6>7. QED BY <6>3, <6>4, <6>5, <6>6
          <5>5. QED BY <5>3, <5>4
        <4>2. CASE ~ (Score(rows[i], query) > 0)
          <5>1. PICK none \in Nat : none = Score(rows[i], query) /\ none = 0
            BY <1>10, <4>2
          <5>2. m \in 1 .. m
            BY <2>7
          <5>3. PICK s \in Nat : s = ranked[m].score
            BY <2>10, <2>11, <5>2
          <5>4. s >= none
            BY <5>1
          <5>5. Min({ten, s}) >= Min({ten, none}) /\ Min({ten, s}) \in Nat /\ Min({ten, none}) \in Nat
            BY <5>4, CappedAlike
          <5>6. chunks[m].score = Min({ten, s})
            BY <2>10, <5>2, <5>3
          <5>7. QED BY <5>1, <5>5, <5>6
        <4>3. QED BY <4>1, <4>2
      <3>2. QED BY <3>1
    <2>14. QED
      <3>1. \A k \in 1 .. m : \E i \in places : OfPlace(chunks[k], i)
        <4> HIDE DEF OfPlace
        <4>1. QED BY <2>10, <2>11
      <3>2. ASSUME NEW k \in 1 .. m, NEW l \in 1 .. m, l < k
            PROVE  chunks[l].score >= chunks[k].score
        <4>1. k \in 1 .. n /\ l \in 1 .. n
          BY <2>4, <2>7
        <4>2. Min({ten, ranked[l].score}) >= Min({ten, ranked[k].score})
          BY <2>12, <3>2, <4>1
        <4>3. QED BY <2>10, <4>2
      <3> HIDE DEF OfPlace
      <3>3. QED BY <2>7, <2>9, <2>13, <3>1, <3>2
  <1>13. CASE scored = {}
    <2>1. PICK first : first = Min(places)
      OBVIOUS
    <2>2. first \in places
      <3>1. places \in SUBSET Nat
        <4>1. PICK n \in Nat : DOMAIN rows = 1 .. n
          BY SeqDomain DEF IsCorpus, IsSeq
        <4>2. QED BY <1>9, <4>1
      <3>2. QED BY <1>9, <2>1, <3>1, LeastElement
    <2>3. PICK one \in Nat : one = 1
      OBVIOUS
    <2>4. PICK chunk : chunk = Chunk(rows[first], rows[first].title, one)
      OBVIOUS
    <2>5. chunks = <<chunk>>
      BY <1>3, <1>7, <1>9, <1>13, <2>1, <2>3, <2>4 DEF ScoreAndRank
    <2>6. Len(chunks) = 1 /\ DOMAIN chunks = 1 .. 1 /\ chunks[1] = chunk
      BY <2>5
    <2>7. OfPlace(chunk, first) /\ chunk.score = one
      BY <2>4 DEF Chunk
    <2>8. \A i \in places : Min({ten, Score(rows[i], query)}) <= 1
      <3>1. ASSUME NEW i \in places PROVE Min({ten, Score(rows[i], query)}) <= 1
        <4>1. ~ (Score(rows[i], query) > 0)
          BY <1>3, <1>13, ScoredFrom
        <4>2. PICK none \in Nat : none = Score(rows[i], query) /\ none = 0
          BY <1>10, <4>1
        <4>3. ten \in Int /\ none \in Int
          BY <4>2
        <4>4. Min({ten, none}) <= none /\ Min({ten, none}) \in {ten, none}
          BY <4>3, SmallerOfTwo
        <4>5. QED BY <4>2, <4>4
      <3>2. QED BY <3>1
    <2>9. QED
      <3> HIDE DEF OfPlace
      <3>1. QED BY <2>2, <2>3, <2>6, <2>7, <2>8
  <1>14. QED BY <1>12, <1>13

(***************************************************************************)
(* The windows a document is cut into.                                     *)
(***************************************************************************)
EndFrom(n, size, start) == Min({n, start + size})
NextFrom(n, size, overlap, start) == Max({0, EndFrom(n, size, start) - overlap})

\* The windows from start on, when f has those of the later starts.
WindowsFrom(f, n, size, overlap, start) ==
  <<<<start, EndFrom(n, size, start)>>>>
    \o (IF EndFrom(n, size, start) >= n THEN <<>> ELSE f[NextFrom(n, size, overlap, start)])

\* A window is not empty before the end of the text, and the next one starts later.
LEMMA NextIsLater ==
  ASSUME NEW n \in Nat, NEW size \in Nat, NEW overlap \in Nat, overlap < size, NEW start \in 0 .. n
  PROVE  /\ EndFrom(n, size, start) \in start .. n
         /\ EndFrom(n, size, start) - start <= size
         /\ start < n => start < EndFrom(n, size, start)
         /\ ~ (EndFrom(n, size, start) >= n) =>
              /\ NextFrom(n, size, overlap, start) = EndFrom(n, size, start) - overlap
              /\ NextFrom(n, size, overlap, start) \in start + 1 .. n - 1
  <1>1. PICK past \in Int : past = start + size
    OBVIOUS
  <1>2. PICK end : end = EndFrom(n, size, start)
    OBVIOUS
  <1>3. n \in Int /\ end = Min({n, past})
    BY <1>1, <1>2 DEF EndFrom
  <1>4. end \in {n, past} /\ end <= n /\ end <= past
    BY <1>3, SmallerOfTwo
  <1>5. end \in start .. n /\ end - start <= size /\ (start < n => start < end)
    BY <1>1, <1>4
  <1>6. ASSUME ~ (end >= n)
        PROVE  /\ NextFrom(n, size, overlap, start) = end - overlap
               /\ NextFrom(n, size, overlap, start) \in start + 1 .. n - 1
    <2>1. end = start + size /\ end < n
      BY <1>1, <1>4, <1>6
    <2>2. PICK back \in Int : back = end - overlap
      BY <1>5
    <2>3. back > start /\ back < n
      BY <2>1, <2>2
    <2>4. PICK zero \in Int : zero = 0
      OBVIOUS
    <2>5. NextFrom(n, size, overlap, start) = Max({zero, back})
      BY <1>2, <2>2, <2>4 DEF NextFrom
    <2>6. Max({zero, back}) \in {zero, back} /\ Max({zero, back}) >= back
      BY SmallerOfTwo
    <2>7. Max({zero, back}) = back
      BY <2>3, <2>4, <2>6
    <2>8. QED BY <2>2, <2>3, <2>5, <2>7
  <1>7. QED BY <1>2, <1>5, <1>6

\* ChunkText computes, start by start, what its text says: from the last start down.
LEMMA WindowsHaveValues ==
  ASSUME NEW n \in Nat, NEW size \in Nat, NEW overlap \in Nat, overlap < size
  PROVE  \E f : /\ f = [start \in 0 .. n |-> WindowsFrom(f, n, size, overlap, start)]
                /\ ChunkText(n, size, overlap) = IF n = 0 THEN <<>> ELSE f[0]
  <1> DEFINE Turn(f, start) == WindowsFrom(f, n, size, overlap, start)
             Values(f, k) == f = [start \in n - k .. n |-> Turn(f, start)]
             T == {k \in 0 .. n : \E f : Values(f, k)}
  <1>1. ASSUME NEW k \in 0 .. n, NEW g, NEW f, f = [start \in n - k .. n |-> IF start = n - k THEN Turn(g, start) ELSE g[start]],
               NEW start \in n - k .. n
        PROVE  Turn(f, start) = Turn(g, start)
    <2>1. start \in 0 .. n
      OBVIOUS
    <2>2. PICK end : end = EndFrom(n, size, start)
      OBVIOUS
    <2>3. PICK next : next = NextFrom(n, size, overlap, start)
      OBVIOUS
    <2>4. ~ (end >= n) => next \in start + 1 .. n - 1
      BY <2>1, <2>2, <2>3, NextIsLater
    <2>5. ~ (end >= n) => f[next] = g[next]
      <3>1. ASSUME ~ (end >= n) PROVE f[next] = g[next]
        <4>1. next \in n - k .. n /\ next # n - k
          BY <2>4, <3>1
        <4> HIDE DEF Turn
        <4>2. QED BY <1>1, <4>1
      <3>2. QED BY <3>1
    <2>6. QED BY <2>2, <2>3, <2>5 DEF WindowsFrom
  <1>2. 0 \in T
    <2>1. PICK g : g = <<>>
      OBVIOUS
    <2>2. PICK f : f = [start \in n - 0 .. n |-> IF start = n - 0 THEN Turn(g, start) ELSE g[start]]
      OBVIOUS
    <2>3. \A start \in n - 0 .. n : f[start] = Turn(f, start)
      <3>1. ASSUME NEW start \in n - 0 .. n PROVE f[start] = Turn(f, start)
        <4>1. 0 \in 0 .. n /\ start = n - 0
          BY <3>1
        <4>2. Turn(f, start) = Turn(g, start)
          <5> HIDE DEF Turn
          <5>1. QED BY <1>1, <2>2, <4>1
        <4>3. f[start] = Turn(g, start)
          <5> HIDE DEF Turn
          <5>1. QED BY <2>2, <4>1
        <4>4. QED BY <4>2, <4>3
      <3>2. QED BY <3>1
    <2>4. Values(f, 0)
      <3> HIDE DEF Turn
      <3>1. f = [start \in n - 0 .. n |-> f[start]]
        BY <2>2
      <3>2. [start \in n - 0 .. n |-> f[start]] = [start \in n - 0 .. n |-> Turn(f, start)]
        BY <2>3
      <3>3. QED BY <3>1, <3>2
    <2> HIDE DEF Values
    <2>5. QED BY <2>4
  <1>3. ASSUME NEW j \in 0 .. n - 1, j \in T PROVE j + 1 \in T
    <2>1. PICK g : Values(g, j)
      BY <1>3
    <2>2. PICK k \in 0 .. n : k = j + 1
      OBVIOUS
    <2>3. PICK f : f = [start \in n - k .. n |-> IF start = n - k THEN Turn(g, start) ELSE g[start]]
      OBVIOUS
    <2>4. \A start \in n - k .. n : f[start] = Turn(f, start)
      <3>1. ASSUME NEW start \in n - k .. n PROVE f[start] = Turn(f, start)
        <4>1. Turn(f, start) = Turn(g, start)
          <5> HIDE DEF Turn
          <5>1. QED BY <1>1, <2>3
        <4>2. f[start] = Turn(g, start)
          <5> HIDE DEF Turn
          <5>1. CASE start = n - k
            BY <2>3, <5>1
          <5>2. CASE start # n - k
            <6>1. start \in n - j .. n
              BY <2>2, <5>2
            <6>2. g[start] = Turn(g, start)
              BY <2>1, <6>1
            <6>3. QED BY <2>3, <5>2, <6>2
          <5>3. QED BY <5>1, <5>2
        <4>3. QED BY <4>1, <4>2
      <3>2. QED BY <3>1
    <2>5. Values(f, k)
      <3> HIDE DEF Turn
      <3>1. f = [start \in n - k .. n |-> f[start]]
        BY <2>3
      <3>2. [start \in n - k .. n |-> f[start]] = [start \in n - k .. n |-> Turn(f, start)]
        BY <2>4
      <3>3. QED BY <3>1, <3>2
    <2> HIDE DEF Values
    <2>6. QED BY <2>2, <2>5
  <1>4. n \in T
    <2> HIDE DEF T
    <2>1. QED BY <1>2, <1>3, TurnsBySets
  <1>5. PICK f : f = [start \in 0 .. n |-> Turn(f, start)]
    <2>1. n - n = 0
      OBVIOUS
    <2> HIDE DEF Turn
    <2>2. QED BY <1>4, <2>1
  <1> DEFINE F == CHOOSE g : g = [start \in 0 .. n |-> Turn(g, start)]
  <1>6. F = [start \in 0 .. n |-> Turn(F, start)]
    <2> HIDE DEF Turn
    <2>1. QED BY <1>5
  <1>7. ChunkText(n, size, overlap) = IF n = 0 THEN <<>> ELSE F[0]
    BY DEF ChunkText, WindowsFrom, EndFrom, NextFrom
  <1> HIDE DEF F
  <1>8. QED BY <1>6, <1>7

\* A run of windows from start to the end of a text of n characters.
IsChain(s, n, size, overlap, start) ==
  /\ IsSeq(s) /\ Len(s) \in Nat \ {0}
  /\ \A i \in 1 .. Len(s) :
       /\ s[i][1] \in Int /\ s[i][2] \in Int
       /\ s[i][1] < s[i][2] /\ s[i][2] - s[i][1] <= size
       /\ i > 1 => s[i][1] = s[i - 1][2] - overlap
  /\ s[1][1] = start /\ s[Len(s)][2] = n

\* One more window in front of a chain.
LEMMA ChainGrows ==
  ASSUME NEW n \in Nat, NEW size \in Nat, NEW overlap \in Nat, NEW start \in Nat, NEW end \in Nat,
         NEW s, IsChain(s, n, size, overlap, end - overlap),
         start < end, end - start <= size
  PROVE  IsChain(<<<<start, end>>>> \o s, n, size, overlap, start)
  <1>1. PICK one : one = <<<<start, end>>>>
    OBVIOUS
  <1>2. one[1][1] = start /\ one[1][2] = end /\ IsSeq(one) /\ Len(one) = 1
    <2>1. PICK w : w = <<start, end>>
      OBVIOUS
    <2>2. one = <<w>> /\ one[1] = w
      BY <1>1, <2>1
    <2>3. w[1] = start /\ w[2] = end
      BY <2>1
    <2>4. QED BY <2>2, <2>3, OneElement
  <1>3. PICK c : c = one \o s
    OBVIOUS
  <1>4. PICK m \in Nat : m = Len(s) /\ m > 0
    BY DEF IsChain
  <1>5. IsSeq(s)
    BY DEF IsChain
  <1>6. /\ IsSeq(c) /\ Len(c) = 1 + m
        /\ \A i \in 1 .. Len(one) : c[i] = one[i]
        /\ \A i \in 1 .. m : c[Len(one) + i] = s[i]
    <2>1. /\ IsSeq(one \o s) /\ Len(one \o s) = Len(one) + Len(s)
          /\ \A i \in 1 .. Len(one) : (one \o s)[i] = one[i]
          /\ \A i \in 1 .. Len(s) : (one \o s)[Len(one) + i] = s[i]
      <3>1. IsSeq(one) /\ IsSeq(s)
        BY <1>2, <1>5
      <3>2. QED BY <3>1, Concatenation
    <2>2. QED BY <1>2, <1>3, <1>4, <2>1
  <1>7. c[1] = one[1] /\ \A i \in 1 .. m : c[1 + i] = s[i]
    BY <1>2, <1>6
  <1>8. ASSUME NEW i \in 1 .. Len(c)
        PROVE  /\ c[i][1] \in Int /\ c[i][2] \in Int
               /\ c[i][1] < c[i][2] /\ c[i][2] - c[i][1] <= size
               /\ i > 1 => c[i][1] = c[i - 1][2] - overlap
    <2>1. CASE i = 1
      BY <1>2, <1>7, <2>1
    <2>2. CASE i = 2
      <3>1. 1 \in 1 .. m
        BY <1>4
      <3>2. c[1 + 1] = s[1]
        BY <1>7, <3>1
      <3>3. c[2] = s[1] /\ c[1] = one[1]
        BY <1>7, <3>2
      <3>4. /\ s[1][1] \in Int /\ s[1][2] \in Int /\ s[1][1] < s[1][2] /\ s[1][2] - s[1][1] <= size
            /\ s[1][1] = end - overlap
        BY <1>4, <3>1 DEF IsChain
      <3>5. 2 - 1 = 1
        OBVIOUS
      <3>6. QED BY <1>2, <2>2, <3>3, <3>4, <3>5
    <2>3. CASE i > 2
      <3>1. PICK j \in 2 .. m : i = 1 + j
        <4>1. i - 1 \in 2 .. m /\ i = 1 + (i - 1)
          BY <1>6, <2>3
        <4>2. QED BY <4>1
      <3>2. j \in 1 .. m /\ j - 1 \in 1 .. m /\ i - 1 = 1 + (j - 1) /\ j > 1
        BY <3>1
      <3>3. c[i] = s[j] /\ c[i - 1] = s[j - 1]
        BY <1>7, <3>1, <3>2
      <3>4. /\ s[j][1] \in Int /\ s[j][2] \in Int /\ s[j][1] < s[j][2] /\ s[j][2] - s[j][1] <= size
            /\ s[j][1] = s[j - 1][2] - overlap
        BY <1>4, <3>2 DEF IsChain
      <3>5. QED BY <3>3, <3>4
    <2>4. QED BY <2>1, <2>2, <2>3
  <1>9. c[1][1] = start
    BY <1>2, <1>7
  <1>10. c[Len(c)][2] = n
    <2>1. m \in 1 .. m
      BY <1>4
    <2>2. c[1 + m] = s[m] /\ s[m][2] = n
      BY <1>4, <1>7, <2>1 DEF IsChain
    <2>3. QED BY <1>6, <2>2
  <1>11. Len(c) \in Nat \ {0}
    BY <1>4, <1>6
  <1>12. QED BY <1>1, <1>3, <1>6, <1>8, <1>9, <1>10, <1>11 DEF IsChain

\* The last window reaches the end.
LEMMA ChainOfOne ==
  ASSUME NEW n \in Nat, NEW size \in Nat, NEW overlap \in Nat, NEW start \in Nat,
         start < n, n - start <= size
  PROVE  IsChain(<<<<start, n>>>>, n, size, overlap, start)
  <1>1. PICK w : w = <<start, n>>
    OBVIOUS
  <1>2. PICK one : one = <<w>>
    OBVIOUS
  <1>3. w[1] = start /\ w[2] = n
    BY <1>1
  <1>4. one[1] = w /\ IsSeq(one) /\ Len(one) = 1
    BY <1>2, OneElement
  <1>5. IsChain(one, n, size, overlap, start)
    BY <1>3, <1>4 DEF IsChain
  <1>6. QED BY <1>1, <1>2, <1>5

\* A text that is not empty is cut into windows from its start to its end.
LEMMA ChunksCover ==
  ASSUME NEW n \in Nat, NEW size \in Nat, NEW overlap \in Nat, overlap < size,
         NEW windows, windows = ChunkText(n, size, overlap)
  PROVE  /\ n = 0 => windows = <<>>
         /\ n # 0 => IsChain(windows, n, size, overlap, 0)
  <1>1. PICK f : /\ f = [start \in 0 .. n |-> WindowsFrom(f, n, size, overlap, start)]
                 /\ ChunkText(n, size, overlap) = IF n = 0 THEN <<>> ELSE f[0]
    BY WindowsHaveValues
  <1> DEFINE T == {k \in 0 .. n : \A start \in n - k .. n : start # n => IsChain(f[start], n, size, overlap, start)}
  <1>2. 0 \in T
    OBVIOUS
  <1>3. ASSUME NEW k \in 0 .. n - 1, k \in T PROVE k + 1 \in T
    <2>1. ASSUME NEW start \in n - (k + 1) .. n, start # n PROVE IsChain(f[start], n, size, overlap, start)
      <3>1. start \in 0 .. n /\ start \in Nat /\ start < n
        BY <2>1
      <3>2. PICK end : end = EndFrom(n, size, start)
        OBVIOUS
      <3>3. PICK next : next = NextFrom(n, size, overlap, start)
        OBVIOUS
      <3>4. /\ end \in start .. n /\ end - start <= size /\ start < end
            /\ ~ (end >= n) => next = end - overlap /\ next \in start + 1 .. n - 1
        BY <3>1, <3>2, <3>3, NextIsLater
      <3>5. f[start] = <<<<start, end>>>> \o (IF end >= n THEN <<>> ELSE f[next])
        BY <1>1, <3>1, <3>2, <3>3 DEF WindowsFrom
      <3>6. CASE end >= n
        <4>1. end = n
          BY <3>4, <3>6
        <4>2. PICK w : w = <<start, end>>
          OBVIOUS
        <4>3. <<w>> \o <<>> = <<w>>
          OBVIOUS
        <4>4. f[start] = <<<<start, n>>>>
          BY <3>5, <3>6, <4>1, <4>2, <4>3
        <4>5. QED BY <3>1, <3>4, <4>1, <4>4, ChainOfOne
      <3>7. CASE ~ (end >= n)
        <4>1. f[start] = <<<<start, end>>>> \o f[next]
          BY <3>5, <3>7
        <4>2. next \in n - k .. n /\ next # n
          BY <2>1, <3>1, <3>4, <3>7
        <4>3. IsChain(f[next], n, size, overlap, next)
          BY <1>3, <4>2
        <4>4. next = end - overlap /\ end \in Nat
          BY <3>4, <3>7
        <4>5. PICK s : s = f[next]
          OBVIOUS
        <4>6. IsChain(s, n, size, overlap, end - overlap)
          BY <4>3, <4>4, <4>5
        <4>7. IsChain(<<<<start, end>>>> \o s, n, size, overlap, start)
          BY <3>1, <3>4, <4>4, <4>6, ChainGrows
        <4>8. QED BY <4>1, <4>5, <4>7
      <3>8. QED BY <3>6, <3>7
    <2>2. k + 1 \in 0 .. n
      OBVIOUS
    <2>3. QED BY <2>1, <2>2
  <1>4. n \in T
    <2> HIDE DEF T
    <2>1. QED BY <1>2, <1>3, TurnsBySets
  <1>5. n # 0 => IsChain(f[0], n, size, overlap, 0)
    <2>1. 0 \in n - n .. n
      OBVIOUS
    <2>2. QED BY <1>4, <2>1
  <1>6. QED BY <1>1, <1>5

(***************************************************************************)
(* The corpus.                                                             *)
(***************************************************************************)
\* The rows of a document: at least one, and one row per window.
AreRows(rows, d) ==
  /\ IsSeq(rows) /\ Len(rows) \in Nat \ {0}
  /\ \A i \in 1 .. Len(rows) :
       /\ IsRow(rows[i]) /\ rows[i].id = d.id + i - 1 /\ rows[i].doc = d.id
  /\ d.length # 0 =>
       /\ Len(rows) = Len(ChunkText(d.length, ChunkSize, Overlap))
       /\ \A i \in 1 .. Len(rows) : rows[i].window = ChunkText(d.length, ChunkSize, Overlap)[i]

LEMMA RowsOfDocument ==
  ASSUME NEW d \in Documents
  PROVE  AreRows(DocumentRows(d, ChunkSize, Overlap), d)
  <1>1. PICK n : n = d.length
    OBVIOUS
  <1>2. PICK windows : windows = ChunkText(n, ChunkSize, Overlap)
    OBVIOUS
  <1>3. PICK parts : parts = IF windows = <<>> THEN <<<<0, 0>>>> ELSE windows
    OBVIOUS
  <1>4. n \in Nat /\ IsFiniteSet(d.keywords) /\ d.similarity \in Nat /\ d.id \in Int
    BY <1>1, DocumentsAssumption
  <1>5. /\ n = 0 => windows = <<>>
        /\ n # 0 => IsChain(windows, n, ChunkSize, Overlap, 0)
    BY <1>2, <1>4, ChunkAssumption, ChunksCover
  <1>6. n # 0 => parts = windows
    <2>1. ASSUME n # 0 PROVE windows # <<>>
      <3>1. Len(windows) \in Nat \ {0}
        BY <1>5, <2>1 DEF IsChain
      <3>2. QED BY <3>1, Nothing
    <2>2. QED BY <1>3, <2>1
  <1>7. PICK m \in Nat \ {0} : m = Len(parts) /\ DOMAIN parts = 1 .. m
    <2>1. IsSeq(parts) /\ Len(parts) # 0
      <3>1. CASE n = 0
        <4>1. PICK w : w = <<0, 0>>
          OBVIOUS
        <4>2. parts = <<w>>
          BY <1>3, <1>5, <3>1, <4>1
        <4>3. QED BY <4>2, OneElement
      <3>2. CASE n # 0
        BY <1>5, <1>6, <3>2 DEF IsChain
      <3>3. QED BY <3>1, <3>2
    <2>2. Len(parts) \in Nat /\ DOMAIN parts = 1 .. Len(parts)
      BY <2>1, SeqDomain
    <2>3. QED BY <2>1, <2>2
  <1> DEFINE Of(i) == Row(d.id + i - 1, d.id, parts[i], d.title, d.titleTerms, d.keywords,
                          d.meta, d.version, d.similarity)
  <1>8. PICK rows : rows = DocumentRows(d, ChunkSize, Overlap)
    OBVIOUS
  <1>9. rows = [i \in 1 .. m |-> Of(i)]
    <2>1. rows = [i \in DOMAIN parts |-> Of(i)]
      BY <1>1, <1>2, <1>3, <1>8 DEF DocumentRows
    <2> HIDE DEF Of
    <2>2. QED BY <1>7, <2>1
  <1>10. \A i : /\ Of(i).keywords = d.keywords /\ Of(i).similarity = d.similarity
                /\ Of(i).id = d.id + i - 1 /\ Of(i).doc = d.id /\ Of(i).window = parts[i]
    BY DEF Row
  <1> HIDE DEF Of
  <1>11. \A i \in 1 .. m : IsRow(Of(i))
    <2>1. ASSUME NEW i \in 1 .. m PROVE IsRow(Of(i))
      <3>1. d.id + i - 1 \in Int
        BY <1>4
      <3>2. QED BY <1>4, <1>10, <3>1 DEF IsRow
    <2>2. QED BY <2>1
  <1>12. IsSeq(rows) /\ Len(rows) = m
    <2>1. rows = [i \in 1 .. m |-> rows[i]]
      BY <1>9
    <2>2. QED BY <1>7, <2>1, SeqByPlaces
  <1>13. \A i \in 1 .. m : rows[i] = Of(i)
    BY <1>9
  <1>14. \A i \in 1 .. m : IsRow(rows[i]) /\ rows[i].id = d.id + i - 1 /\ rows[i].doc = d.id
    BY <1>10, <1>11, <1>13
  <1>15. n # 0 => m = Len(windows) /\ \A i \in 1 .. m : rows[i].window = windows[i]
    BY <1>6, <1>7, <1>10, <1>13
  <1>16. QED BY <1>1, <1>2, <1>7, <1>8, <1>12, <1>14, <1>15 DEF AreRows

RowsNamed(rows, e) == {rows[i] : i \in {j \in DOMAIN rows : rows[j].doc = e}}

Adds(before, after, rows, doc) ==
  \A e : RowsNamed(after, e) =
           RowsNamed(before, e) \cup (IF e = doc THEN {rows[i] : i \in DOMAIN rows} ELSE {})

\* A document added to a corpus leaves a corpus, with the rows of both.
LEMMA CorpusGrows ==
  ASSUME NEW before, IsCorpus(before), NEW d \in Documents, NEW rows, AreRows(rows, d),
         NEW after, after = before \o rows
  PROVE  /\ IsCorpus(after)
         /\ Adds(before, after, rows, d.id)
  <1>1. PICK n \in Nat : n = Len(before) /\ DOMAIN before = 1 .. n
    BY SeqDomain DEF IsCorpus, IsSeq
  <1>2. PICK m \in Nat : m = Len(rows) /\ DOMAIN rows = 1 .. m /\ m > 0
    BY SeqDomain DEF AreRows
  <1>3. /\ IsSeq(after) /\ Len(after) = n + m
        /\ \A i \in 1 .. n : after[i] = before[i]
        /\ \A i \in 1 .. m : after[n + i] = rows[i]
    <2>1. IsSeq(before) /\ IsSeq(rows)
      BY DEF IsCorpus, IsSeq, AreRows
    <2>2. /\ IsSeq(before \o rows) /\ Len(before \o rows) = Len(before) + Len(rows)
          /\ \A i \in 1 .. Len(before) : (before \o rows)[i] = before[i]
          /\ \A i \in 1 .. Len(rows) : (before \o rows)[Len(before) + i] = rows[i]
      BY <2>1, Concatenation
    <2>3. QED BY <1>1, <1>2, <2>2
  <1>4. DOMAIN after = 1 .. n + m
    BY <1>3, SeqDomain
  <1>5. \A k \in 1 .. n + m : k \in 1 .. n \/ \E i \in 1 .. m : k = n + i
    <2>1. ASSUME NEW k \in 1 .. n + m, k \notin 1 .. n PROVE \E i \in 1 .. m : k = n + i
      <3>1. k - n \in 1 .. m /\ k = n + (k - n)
        BY <2>1
      <3>2. QED BY <3>1
    <2>2. QED BY <2>1
  <1>6. \A k \in 1 .. n + m : \/ k \in 1 .. n /\ after[k] = before[k]
                              \/ \E i \in 1 .. m : k = n + i /\ after[k] = rows[i]
    BY <1>3, <1>5
  <1>7. IsCorpus(after)
    <2>1. \A k \in DOMAIN after : IsRow(after[k])
      <3>1. \A i \in 1 .. n : IsRow(before[i])
        BY <1>1 DEF IsCorpus
      <3>2. \A i \in 1 .. m : IsRow(rows[i])
        BY <1>2 DEF AreRows
      <3>3. QED BY <1>4, <1>6, <3>1, <3>2
    <2>2. after # <<>>
      <3>1. Len(after) # 0
        BY <1>2, <1>3
      <3>2. QED BY <3>1, Nothing
    <2>3. QED BY <1>3, <2>1, <2>2 DEF IsCorpus, IsSeq
  <1>8. ASSUME NEW e
        PROVE  RowsNamed(after, e) = RowsNamed(before, e) \cup
                                     (IF e = d.id THEN {rows[i] : i \in DOMAIN rows} ELSE {})
    <2>1. \A i \in 1 .. m : rows[i].doc = d.id
      BY <1>2 DEF AreRows
    <2>2. PICK A : A = {after[i] : i \in {j \in DOMAIN after : after[j].doc = e}}
      OBVIOUS
    <2>3. PICK B : B = {before[i] : i \in {j \in DOMAIN before : before[j].doc = e}}
      OBVIOUS
    <2>4. PICK C : C = {rows[i] : i \in DOMAIN rows}
      OBVIOUS
    <2>5. ASSUME NEW r \in A PROVE r \in B \/ (e = d.id /\ r \in C)
      <3>1. PICK k \in 1 .. n + m : r = after[k] /\ after[k].doc = e
        BY <1>4, <2>2
      <3>2. CASE k \in 1 .. n /\ after[k] = before[k]
        BY <1>1, <2>3, <3>1, <3>2
      <3>3. CASE \E i \in 1 .. m : k = n + i /\ after[k] = rows[i]
        BY <1>2, <2>1, <2>4, <3>1, <3>3
      <3>4. QED BY <1>6, <3>2, <3>3
    <2>6. ASSUME NEW r \in B PROVE r \in A
      <3>1. PICK k \in 1 .. n : r = before[k] /\ before[k].doc = e
        BY <1>1, <2>3
      <3>2. k \in DOMAIN after /\ after[k] = r
        BY <1>3, <1>4, <3>1
      <3>3. QED BY <2>2, <3>1, <3>2
    <2>7. ASSUME NEW r \in C, e = d.id PROVE r \in A
      <3>1. PICK i \in 1 .. m : r = rows[i]
        BY <1>2, <2>4
      <3>2. PICK k : k = n + i
        OBVIOUS
      <3>3. k \in 1 .. n + m /\ after[k] = rows[i]
        BY <1>3, <3>2
      <3>4. QED BY <1>4, <2>1, <2>2, <2>7, <3>1, <3>3
    <2>8. QED BY <2>2, <2>3, <2>4, <2>5, <2>6, <2>7 DEF RowsNamed
  <1>9. QED BY <1>7, <1>8 DEF Adds

\* The windows of a document that is in the corpus are those it was cut into.
LEMMA WindowsFromRows ==
  ASSUME NEW d \in Documents, NEW rows, AreRows(rows, d), RowsOf(d) = {rows[i] : i \in DOMAIN rows}
  PROVE  d.length > 0 => Covers(Windows(d), d.length, ChunkSize, Overlap)
  <1>1. PICK m \in Nat \ {0} : m = Len(rows) /\ DOMAIN rows = 1 .. m
    BY SeqDomain DEF AreRows
  <1>2. PICK n \in Nat : n = d.length
    BY DocumentsAssumption
  <1>3. PICK first \in Int : first = d.id
    BY DocumentsAssumption
  <1>4. PICK mine : mine = {rows[i] : i \in 1 .. m}
    OBVIOUS
  <1>5. RowsOf(d) = mine
    BY <1>1, <1>4
  <1>6. \A i \in 1 .. m : rows[i].id = first + i - 1
    BY <1>1, <1>3 DEF AreRows
  <1>7. Cardinality(mine) = m
    <2>1. PICK f : f = [i \in 1 .. m |-> rows[i]]
      OBVIOUS
    <2>2. f \in [1 .. m -> mine]
      BY <1>4, <2>1
    <2>3. \A i, j \in 1 .. m : f[i] = f[j] => i = j
      BY <1>6, <2>1
    <2>4. \A r \in mine : \E i \in 1 .. m : f[i] = r
      BY <1>4, <2>1
    <2>5. f \in Bijection(1 .. m, mine)
      <3>1. f \in Injection(1 .. m, mine)
        BY <2>2, <2>3 DEF Injection, IsInjective
      <3>2. f \in Surjection(1 .. m, mine)
        BY <2>2, <2>4 DEF Surjection
      <3>3. QED BY <3>1, <3>2 DEF Bijection
    <2>6. IsFiniteSet(1 .. m) /\ Cardinality(1 .. m) = m
      <3>1. 1 \in Int /\ m \in Int
        OBVIOUS
      <3>2. IsFiniteSet(1 .. m) /\ Cardinality(1 .. m) = IF 1 > m THEN 0 ELSE m - 1 + 1
        BY <3>1, FS_Interval
      <3>3. QED BY <3>2
    <2>7. Cardinality(1 .. m) = Cardinality(mine)
      <3>1. f \in Surjection(1 .. m, mine) /\ f \in Injection(1 .. m, mine)
        BY <2>5 DEF Bijection
      <3>2. QED BY <2>6, <3>1, FS_Surjection
    <2>8. QED BY <2>6, <2>7
  <1>8. \A k \in 1 .. m : (CHOOSE row \in RowsOf(d) : row.id = d.id + k - 1) = rows[k]
    <2>1. ASSUME NEW k \in 1 .. m PROVE (CHOOSE row \in RowsOf(d) : row.id = d.id + k - 1) = rows[k]
      <3>1. PICK row : row = CHOOSE r \in RowsOf(d) : r.id = d.id + k - 1
        OBVIOUS
      <3>2. rows[k] \in RowsOf(d) /\ rows[k].id = d.id + k - 1
        BY <1>3, <1>4, <1>5, <1>6
      <3>3. row \in RowsOf(d) /\ row.id = d.id + k - 1
        BY <3>1, <3>2
      <3>4. PICK i \in 1 .. m : row = rows[i]
        BY <1>4, <1>5, <3>3
      <3>5. i = k
        BY <1>3, <1>6, <3>3, <3>4
      <3>6. QED BY <3>1, <3>4, <3>5
    <2>2. QED BY <2>1
  <1>9. PICK windows : windows = ChunkText(n, ChunkSize, Overlap)
    OBVIOUS
  <1>10. ASSUME n # 0 PROVE Covers(Windows(d), n, ChunkSize, Overlap)
    <2>1. IsChain(windows, n, ChunkSize, Overlap, 0)
      BY <1>9, <1>10, ChunkAssumption, ChunksCover
    <2>2. m = Len(windows) /\ \A i \in 1 .. m : rows[i].window = windows[i]
      BY <1>1, <1>2, <1>9, <1>10 DEF AreRows
    <2>3. Windows(d) = [k \in 1 .. m |-> (CHOOSE row \in RowsOf(d) : row.id = d.id + k - 1).window]
      <3>1. Cardinality(RowsOf(d)) = m
        BY <1>5, <1>7
      <3>2. QED BY <3>1 DEF Windows
    <2>4. Windows(d) = [k \in 1 .. m |-> windows[k]]
      <3>1. \A k \in 1 .. m : (CHOOSE row \in RowsOf(d) : row.id = d.id + k - 1).window = windows[k]
        BY <1>8, <2>2
      <3>2. QED BY <2>3, <3>1
    <2>5. Windows(d) = windows
      <3>1. IsSeq(windows)
        BY <2>1 DEF IsChain
      <3>2. windows = [k \in 1 .. Len(windows) |-> windows[k]]
        BY <3>1, SeqDomain
      <3>3. QED BY <2>2, <2>4, <3>2
    <2>6. DOMAIN windows = 1 .. m /\ windows # <<>>
      BY <1>1, <2>1, <2>2, SeqDomain, Nothing DEF IsChain
    <2>7. \A i \in 1 .. m : /\ windows[i][1] < windows[i][2] /\ windows[i][2] - windows[i][1] <= ChunkSize
                            /\ i > 1 => windows[i][1] = windows[i - 1][2] - Overlap
      BY <2>1, <2>2 DEF IsChain
    <2>8. windows[1][1] = 0 /\ windows[Len(windows)][2] = n
      BY <2>1 DEF IsChain
    <2>9. n > 0
      BY <1>10
    <2>10. QED BY <2>5, <2>6, <2>7, <2>8, <2>9 DEF Covers
  <1>11. QED BY <1>2, <1>10

\* An ingestion leaves a corpus that is whole.
LEMMA IngestKeepsCorpus ==
  ASSUME CorpusInv, Ingest
  PROVE  CorpusInv'
  <1>1. PICK d \in Documents : corpus' = corpus \o DocumentRows(d, ChunkSize, Overlap)
    BY DEF Ingest
  <1>2. PICK rows : rows = DocumentRows(d, ChunkSize, Overlap)
    OBVIOUS
  <1>3. AreRows(rows, d)
    BY <1>2, RowsOfDocument
  <1>4. PICK before : before = corpus
    OBVIOUS
  <1>5. PICK after : after = corpus'
    OBVIOUS
  <1>6. after = before \o rows /\ IsCorpus(before)
    BY <1>1, <1>2, <1>4, <1>5 DEF CorpusInv
  <1>7. /\ IsCorpus(after)
        /\ Adds(before, after, rows, d.id)
    BY <1>3, <1>6, CorpusGrows
  <1>8. ASSUME NamedApart PROVE WholeDocuments'
    <2>1. ASSUME NEW e \in Documents
          PROVE  RowsOf(e)' \in {{}, {DocumentRows(e, ChunkSize, Overlap)[i] :
                                        i \in DOMAIN DocumentRows(e, ChunkSize, Overlap)}}
      <3>1. PICK All : All = {DocumentRows(e, ChunkSize, Overlap)[i] :
                                i \in DOMAIN DocumentRows(e, ChunkSize, Overlap)}
        OBVIOUS
      <3>2. RowsOf(e) \in {{}, All}
        BY <1>8, <3>1 DEF CorpusInv, WholeDocuments
      <3>3. RowsOf(e)' = RowsOf(e) \cup (IF e.id = d.id THEN {rows[i] : i \in DOMAIN rows} ELSE {})
        <4>1. RowsOf(e)' = RowsNamed(after, e.id)
          BY <1>5 DEF RowsOf, RowsNamed
        <4>2. RowsOf(e) = RowsNamed(before, e.id)
          BY <1>4 DEF RowsOf, RowsNamed
        <4>3. QED BY <1>7, <4>1, <4>2 DEF Adds
      <3>4. CASE e = d
        <4>1. {rows[i] : i \in DOMAIN rows} = All
          BY <1>2, <3>1, <3>4
        <4>2. RowsOf(e)' = All
          BY <3>2, <3>3, <3>4, <4>1
        <4>3. QED BY <3>1, <4>2
      <3>5. CASE e # d
        <4>1. e.id # d.id
          BY <1>8, <3>5 DEF NamedApart
        <4>2. RowsOf(e)' = RowsOf(e)
          BY <3>3, <4>1
        <4>3. QED BY <3>1, <3>2, <4>2
      <3>6. QED BY <3>4, <3>5
    <2>2. QED BY <2>1 DEF WholeDocuments
  <1>9. CitationsGrounded'
    BY DEF CorpusInv, CitationsGrounded, Ingest
  <1>10. QED BY <1>5, <1>7, <1>8, <1>9 DEF CorpusInv, NamedApart

\* A retrieval step is the only one that leaves citations to be stored.
LEMMA EngineKeepsCorpus ==
  ASSUME CorpusInv, RetryInv, EngineNext
  PROVE  CorpusInv'
  <1>1. UNCHANGED corpus
    BY DEF EngineNext, BeginModelStep, Attempt, Backoff, Exhausted, TraceModel, Fallback,
           RetrieveStep, ToolStep, SaveResult
  <1>2. SUFFICES CitationsGrounded'
    <2>1. IsCorpus(corpus)' /\ (NamedApart' => WholeDocuments')
      BY <1>1 DEF CorpusInv, WholeDocuments, RowsOf, NamedApart
    <2>2. QED BY <1>2, <2>1 DEF CorpusInv
  <1>3. CASE RetrieveStep
    <2>1. PICK request \in Requests(Step) :
            held' = [source |-> "knowledge", response |-> Retrieve(request, corpus), corpus |-> corpus]
      BY <1>3 DEF RetrieveStep
    <2>2. PICK response : response = Retrieve(request, corpus)
      OBVIOUS
    <2>3. request.max \in Nat \ {0}
      BY <2>1 DEF Requests
    <2>4. Grounded(response, corpus)
      BY <2>2, <2>3, RetrievesGrounded DEF CorpusInv
    <2>5. held'.response = response /\ held'.corpus = corpus
      BY <2>1, <2>2
    <2>6. QED BY <2>4, <2>5 DEF CitationsGrounded
  <1>4. CASE BeginModelStep \/ Attempt \/ Backoff \/ Exhausted
    <2>1. pc' # "save"
      BY <1>4 DEF BeginModelStep, Attempt, Backoff, Exhausted
    <2>2. QED BY <2>1 DEF CitationsGrounded
  <1>5. CASE TraceModel
    <2>1. held.source = "model_runtime" /\ held' = held
      BY <1>5 DEF TraceModel, RetryInv, LoopPlaces
    <2>2. QED BY <2>1 DEF CitationsGrounded
  <1>6. CASE Fallback
    <2>1. pc' = "save" => held'.source = "deterministic_fallback"
      BY <1>6 DEF Fallback, Repository
    <2>2. QED BY <2>1 DEF CitationsGrounded
  <1>7. CASE ToolStep
    <2>1. held'.source = "tools"
      BY <1>7 DEF ToolStep
    <2>2. QED BY <2>1 DEF CitationsGrounded
  <1>8. CASE SaveResult
    <2>1. pc' # "save"
      BY <1>8 DEF SaveResult, Repository
    <2>2. QED BY <2>1 DEF CitationsGrounded
  <1>9. QED
    BY <1>3, <1>4, <1>5, <1>6, <1>7, <1>8 DEF EngineNext

LEMMA CorpusInit == Init => CorpusInv
  <1> SUFFICES ASSUME Init PROVE CorpusInv
    OBVIOUS
  <1>1. corpus \in Corpora /\ IsCorpus(corpus)
    BY CorpusAssumption DEF Init
  <1>2. ASSUME NamedApart PROVE WholeDocuments
    <2>1. ASSUME NEW d \in Documents PROVE RowsOf(d) = {}
      BY <1>1, <1>2 DEF NamedApart, RowsOf
    <2>2. QED BY <2>1 DEF WholeDocuments
  <1>3. CitationsGrounded
    BY DEF Init, CitationsGrounded
  <1>4. QED BY <1>1, <1>2, <1>3 DEF CorpusInv

LEMMA CorpusNext == CorpusInv /\ RetryInv /\ [Next]_vars => CorpusInv'
  <1> SUFFICES ASSUME CorpusInv, RetryInv, [Next]_vars PROVE CorpusInv'
    OBVIOUS
  <1>1. CASE Ended \/ UNCHANGED vars
    <2>1. UNCHANGED <<pc, held, corpus>>
      BY <1>1 DEF Ended, vars
    <2>2. QED BY <2>1 DEF CorpusInv, WholeDocuments, RowsOf, CitationsGrounded, NamedApart
  <1>2. QED BY <1>1, IngestKeepsCorpus, EngineKeepsCorpus DEF Next

\* Whatever the corpus and whatever was ingested, what a retrieval step stores cites the
\* best of the rows in scope, or of all rows when no row is, the best ones first.
THEOREM CitationsAreGrounded == Spec => []CitationsGrounded
  <1>1. CorpusInv => CitationsGrounded
    BY DEF CorpusInv
  <1>2. QED
    BY <1>1, CorpusInit, CorpusNext, RetryInvariance, PTL DEF Spec

\* If documents are named apart, those of any length lose no text between their chunks.
THEOREM DocumentsAreCovered == ASSUME NamedApart PROVE Spec => []DocumentsCovered
  <1>1. CorpusInv => DocumentsCovered
    <2>1. SUFFICES ASSUME CorpusInv, NEW d \in Documents, d.length > 0, Windows(d) # <<>>
                   PROVE  Covers(Windows(d), d.length, ChunkSize, Overlap)
      BY DEF DocumentsCovered
    <2>2. PICK rows : rows = DocumentRows(d, ChunkSize, Overlap)
      OBVIOUS
    <2>3. RowsOf(d) \in {{}, {rows[i] : i \in DOMAIN rows}}
      BY <2>1, <2>2 DEF CorpusInv, WholeDocuments
    <2>4. RowsOf(d) # {}
      <3>1. SUFFICES ASSUME RowsOf(d) = {} PROVE FALSE
        OBVIOUS
      <3>2. Cardinality({}) = 0
        BY FS_EmptySet
      <3>3. Windows(d) = [k \in 1 .. 0 |-> (CHOOSE row \in {} : row.id = d.id + k - 1).window]
        BY <3>1, <3>2 DEF Windows
      <3>4. Windows(d) = <<>>
        BY <3>3
      <3>5. QED BY <2>1, <3>4
    <2>5. AreRows(rows, d)
      BY <2>2, RowsOfDocument
    <2>6. QED BY <2>1, <2>3, <2>4, <2>5, WindowsFromRows
  <1>2. QED
    BY <1>1, CorpusInit, CorpusNext, RetryInvariance, PTL DEF Spec
===============================================================================
