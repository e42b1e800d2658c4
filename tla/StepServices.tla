----------------------------- MODULE StepServices -----------------------------
(***************************************************************************)
(* The steps of an incident triage or a cost attribution that ask          *)
(* model-runtime or knowledge-service, run one after the other by the      *)
(* engine's _run_step: the retry loop of ResilientStructuredProvider, the  *)
(* engine's fallback to its deterministic StepExecutor, and retrievals     *)
(* from a corpus that documents are added to.  Every repository call may   *)
(* fail, before or after its write took effect.  Other writers of the      *)
(* record are ExecutionEngine's matter.                                    *)
(***************************************************************************)
EXTENDS ModelRuntime, Knowledge, Planner

CONSTANTS
  MaxRetries,   \* the values MODEL_MAX_RETRIES may have
  Corpora,      \* the corpora the service may be built with
  Documents,    \* what may be ingested
  ChunkSize, Overlap,
  MaxIngests,   \* bound on ingestions
  MaxFaults     \* bound on failing repository calls

ASSUME ChunkAssumption == Overlap \in Nat /\ ChunkSize \in Nat /\ Overlap < ChunkSize

ASSUME BudgetAssumption == MaxRetries \subseteq Int

\* An empty corpus given to the service is replaced by the one it ships with.
ASSUME CorpusAssumption == \A rows \in Corpora : IsCorpus(rows)

ASSUME DocumentsAssumption ==
  \A d \in Documents :
    IsFiniteSet(d.keywords) /\ d.similarity \in Nat /\ d.id \in Int /\ d.length \in Nat

VARIABLES
  workflow, config,
  place, pc,   \* the step under way and the engine's place in it
  attempt,     \* of _call_with_retries
  lastExc,     \* last_exc, or what the caller catches
  held,        \* the step result not stored yet
  results,     \* step_results
  timeline,    \* trace rows: "model_reasoning" and "knowledge_retrieved"
  corpus,      \* KnowledgeService._corpus
  calls,       \* how the provider's calls of this step ended (history)
  faults, ingests

call == <<attempt, lastExc, calls>>
stored == <<results, timeline>>
fixed == <<workflow, config>>
vars == <<fixed, place, pc, call, held, stored, corpus, faults, ingests>>

Step == Plan[workflow][place]
NoResult == [source |-> "none"]
ModelSteps ==
  {"analyze_incident", "validate_incident", "analyze_cost_anomaly",
   "validate_cost_attribution"}
RetrievalSteps == {"gather_evidence", "retrieve_cost_evidence"}

\* update_execution or save_step_result: it takes effect and returns, or it raises
\* with or without having taken effect.
Repository(effect, noEffect, returns, raises) ==
  \/ effect /\ returns /\ UNCHANGED faults
  \/ faults < MaxFaults /\ faults' = faults + 1 /\ raises /\ (effect \/ noEffect)

AppendRow(row) == timeline' = Append(timeline, row)

(***************************************************************************)
(* A model step.                                                           *)
(***************************************************************************)
BeginModelStep ==
  /\ pc = "next" /\ Step \in ModelSteps
  /\ pc' = "attempt"
  /\ attempt' = 0 /\ lastExc' = "none" /\ calls' = <<>>
  /\ UNCHANGED <<fixed, place, held, stored, corpus, faults, ingests>>

\* One pass of the loop: fn() and what its result or exception leads to.
Attempt ==
  /\ pc = "attempt" /\ attempt < MaxAttempts(config)
  /\ \E outcome \in Outcomes(config.provider, Step) :
       /\ calls' = Append(calls, outcome)
       /\ \/ /\ outcome = "ok"
             /\ held' = [source |-> "model_runtime", retry_count |-> attempt]
             /\ pc' = "trace" /\ UNCHANGED lastExc
          \/ /\ outcome = "transient"
             /\ lastExc' = outcome
             /\ pc' = IF attempt + 1 >= MaxAttempts(config) THEN "exhausted" ELSE "backoff"
             /\ UNCHANGED held
          \/ /\ outcome \notin {"ok", "transient"}
             /\ lastExc' = outcome
             /\ pc' = "fallback" /\ UNCHANGED held
  /\ UNCHANGED <<fixed, place, attempt, stored, corpus, faults, ingests>>

\* Mutants of Backoff: the attempt is not counted; what sleep raises is not caught.
BackoffForgets ==
  /\ pc = "backoff" /\ pc' = "attempt"
  /\ UNCHANGED <<fixed, place, call, held, stored, corpus, faults, ingests>>

BackoffUncaught ==
  /\ pc = "backoff"
  /\ IF config.backoff = "negative"
       THEN pc' = "halted" /\ UNCHANGED attempt
       ELSE pc' = "attempt" /\ attempt' = attempt + 1
  /\ UNCHANGED <<fixed, place, lastExc, calls, held, stored, corpus, faults, ingests>>

\* time.sleep raises a ValueError when the backoff is negative.
Backoff ==
  /\ pc = "backoff"
  /\ IF config.backoff = "negative"
       THEN pc' = "fallback" /\ lastExc' = "other" /\ UNCHANGED attempt
       ELSE pc' = "attempt" /\ attempt' = attempt + 1 /\ UNCHANGED lastExc
  /\ UNCHANGED <<fixed, place, calls, held, stored, corpus, faults, ingests>>

\* The loop has ended without a result: last_exc is raised.
Exhausted ==
  /\ \/ pc = "exhausted"
     \/ pc = "attempt" /\ attempt >= MaxAttempts(config)
  /\ pc' = "fallback"
  /\ UNCHANGED <<fixed, place, call, held, stored, corpus, faults, ingests>>

\* Mutant of TraceModel: a row that could not be written is passed over.
TraceModelUnguarded ==
  /\ pc = "trace"
  /\ Repository(AppendRow([step |-> Step, path |-> "model_runtime",
                         retry_count |-> held.retry_count]),
                UNCHANGED timeline, pc' = "save", pc' = "save")
  /\ UNCHANGED <<fixed, place, call, held, results, corpus, ingests>>

\* _trace_model_reasoning inside the try: when it raises, the step falls back.
TraceModel ==
  /\ pc = "trace"
  /\ Repository(AppendRow([step |-> Step, path |-> "model_runtime",
                         retry_count |-> held.retry_count]),
                UNCHANGED timeline, pc' = "save", pc' = "fallback")
  /\ UNCHANGED <<fixed, place, call, held, results, corpus, ingests>>

\* The except clause: its own trace row, then execute_step.  What the row's write
\* raises is caught by nobody.
Fallback ==
  /\ pc = "fallback"
  /\ Repository(AppendRow([step |-> Step, path |-> "deterministic_fallback"]),
                UNCHANGED timeline,
                pc' = "save" /\ held' = [source |-> "deterministic_fallback"],
                pc' = "halted" /\ UNCHANGED held)
  /\ UNCHANGED <<fixed, place, call, results, corpus, ingests>>

(***************************************************************************)
(* The other steps.                                                        *)
(***************************************************************************)
\* The request of _gather_evidence_via_services or of
\* _retrieve_cost_evidence_via_services, with or without a service in the input.
Requests(step) ==
  LET request(query, filters) ==
        [query |-> query, filters |-> filters, max |-> 5, version |-> AnyVersion]
  IN  IF step = "gather_evidence"
        THEN {request({"incident", "latency", "deploy"}, [incident_id |-> "i1"])}
        ELSE {request({"cost", "billing"}, [workflow |-> "cost_attribution"]),
              request({"cost", "billing"},
                      [workflow |-> "cost_attribution", service |-> "s1"])}

RetrieveStep ==
  /\ pc = "next" /\ Step \in RetrievalSteps
  /\ \E response \in {Retrieve(request, corpus) : request \in Requests(Step)} :
       /\ held' = [source |-> "knowledge", response |-> response, corpus |-> corpus]
       /\ Repository(AppendRow([step |-> Step, path |-> "knowledge_retrieved",
                              chunk_count |-> Len(response.chunks)]),
                     UNCHANGED timeline, pc' = "save", pc' = "halted")
  /\ UNCHANGED <<fixed, place, call, results, corpus, ingests>>

\* A step that only calls tools (ToolExecutor).
ToolStep ==
  /\ pc = "next" /\ Step \notin ModelSteps \cup RetrievalSteps
  /\ held' = [source |-> "tools"]
  /\ pc' = "save"
  /\ UNCHANGED <<fixed, place, call, stored, corpus, faults, ingests>>

\* save_step_result, and on to the next step.
SaveResult ==
  /\ pc = "save"
  /\ Repository(results' = [results EXCEPT ![Step] = held], UNCHANGED results,
                /\ place' = place + 1
                /\ pc' = IF place = Len(Plan[workflow]) THEN "done" ELSE "next",
                pc' = "halted" /\ UNCHANGED place)
  /\ UNCHANGED <<fixed, call, held, timeline, corpus, ingests>>

\* KnowledgeService.ingest_document
Ingest ==
  /\ ingests < MaxIngests
  /\ ingests' = ingests + 1
  /\ \E d \in Documents : corpus' = corpus \o DocumentRows(d, ChunkSize, Overlap)
  /\ UNCHANGED <<fixed, place, pc, call, held, stored, faults>>

(***************************************************************************)
(* The specification.                                                      *)
(***************************************************************************)
Init ==
  /\ workflow \in {"incident_triage", "cost_attribution"}
  /\ config \in Configs(MaxRetries)
  /\ place = 1 /\ pc = "next"
  /\ attempt = 0 /\ lastExc = "none" /\ calls = <<>>
  /\ held = NoResult
  /\ results = [s \in StepName |-> NoResult]
  /\ timeline = <<>>
  /\ corpus \in Corpora
  /\ faults = 0 /\ ingests = 0

EngineNext ==
  \/ BeginModelStep \/ Attempt \/ Backoff \/ Exhausted \/ TraceModel \/ Fallback
  \/ RetrieveStep \/ ToolStep \/ SaveResult

Ended == pc \in {"done", "halted"} /\ UNCHANGED vars

Next == EngineNext \/ Ingest \/ Ended

Spec == Init /\ [][Next]_vars

\* The engine's thread keeps running: a provider call ends by its HTTP timeout.
FairSpec == Spec /\ WF_vars(EngineNext)

(***************************************************************************)
(* Properties.                                                             *)
(***************************************************************************)
\* The assertion in _call_with_retries, and what it rests on: the fallback is never
\* entered without an exception, whatever MODEL_MAX_RETRIES is.
FallsBackForAReason == pc \in {"exhausted", "fallback"} /\ faults = 0 => lastExc # "none"

\* docs/architecture/observability-and-reliability.md: retries are bounded and
\* classified.  The provider is called again only after a transient failure, at most
\* max_retries more times, and the telemetry of a result counts the calls it took.
RetriesAreClassified ==
  /\ Len(calls) <= MaxAttempts(config)
  /\ \A i \in 1 .. Len(calls) - 1 : calls[i] = "transient"
  /\ pc \in {"trace", "save"} /\ held.source = "model_runtime"
       => calls[Len(calls)] = "ok" /\ held.retry_count = Len(calls) - 1

\* A row of the timeline names the path of a result of s, and its retries; it is the
\* last row of s, and the only one unless a write failed.
Told(s, result) ==
  \E i \in DOMAIN timeline :
    /\ timeline[i].step = s /\ timeline[i].path = result.source
    /\ result.source = "model_runtime" => timeline[i].retry_count = result.retry_count
    /\ \A j \in DOMAIN timeline :
         timeline[j].step = s => j <= i /\ (faults = 0 => j = i)

\* The trace tells where each stored result comes from, although a write of the
\* trace may fail after it took effect: the last model_reasoning row of a step
\* names the path of its result and its retries, and it is the only row unless a
\* write failed.
TraceTellsTheSource ==
  \A s \in ModelSteps : results[s].source # "none" => Told(s, results[s])

\* What a retrieval step is about to store is grounded in the corpus it searched, whatever
\* was ingested since.  That the citations match the request's filters is not promised: when
\* no row does, the code cites others and says nothing of it (Knowledge!Searched).
CitationsGrounded ==
  pc = "save" /\ held.source = "knowledge" => Grounded(held.response, held.corpus)

RowsOf(d) == {corpus[i] : i \in {j \in DOMAIN corpus : corpus[j].doc = d.id}}

\* The windows of the chunks of d in the corpus, in order.
Windows(d) ==
  [k \in 1 .. Cardinality(RowsOf(d)) |->
     (CHOOSE row \in RowsOf(d) : row.id = d.id + k - 1).window]

\* Ingested documents lose no text between their chunks.
DocumentsCovered ==
  \A d \in Documents :
    d.length > 0 /\ Windows(d) # <<>> => Covers(Windows(d), d.length, ChunkSize, Overlap)

\* docs/architecture/observability-and-reliability.md: "Completion does not depend on
\* a live LLM."  Whatever the provider answers, every step gets its result.
StepsComplete == <>(pc = "done" \/ faults > 0)

(***************************************************************************)
(* The inductive invariant: what the calls of this step, the place in the  *)
(* retry loop and the exception at hand say of each other.                 *)
(***************************************************************************)
CallTypes ==
  /\ config.max_retries \in Int
  /\ attempt \in Nat /\ faults \in Nat
  /\ calls \in Seq(Errors \cup {"ok"})

\* The result at hand is that of the last call.
IsLastCall(result) ==
  /\ calls # <<>> /\ calls[Len(calls)] = "ok"
  /\ result.retry_count = Len(calls) - 1

LoopPlaces ==
  /\ pc = "attempt" => attempt = Len(calls) /\ attempt < MaxAttempts(config)
  /\ pc = "backoff" => attempt + 1 = Len(calls) /\ attempt + 1 < MaxAttempts(config)
  /\ pc \in {"attempt", "backoff"} => \A i \in 1 .. Len(calls) : calls[i] = "transient"
  /\ pc = "trace" => held.source = "model_runtime" /\ IsLastCall(held)

RetryInv == CallTypes /\ LoopPlaces /\ RetriesAreClassified /\ FallsBackForAReason

(***************************************************************************)
(* TraceTellsTheSource made inductive: the steps run in the order of the   *)
(* plan, the rows are of the steps begun, and the result at hand is told.  *)
(***************************************************************************)
NotTold(s) == \A j \in DOMAIN timeline : timeline[j].step # s

TraceInv ==
  /\ workflow \in {"incident_triage", "cost_attribution"}
  /\ place \in 1 .. Len(Plan[workflow]) + 1
  /\ place \in DOMAIN Plan[workflow] \/ pc = "done"
  /\ \A i \in DOMAIN Plan[workflow] :
       i > place \/ (i = place /\ pc # "halted") => results[Plan[workflow][i]].source = "none"
  /\ \A j \in DOMAIN timeline :
       \E i \in DOMAIN Plan[workflow] : i <= place /\ timeline[j].step = Plan[workflow][i]
  /\ pc \in {"next", "attempt", "backoff", "exhausted", "trace"}
       \/ (pc = "fallback" /\ faults = 0)
       => NotTold(Step)
  /\ pc = "save" /\ Step \in ModelSteps => Told(Step, held)
  /\ TraceTellsTheSource

(***************************************************************************)
(* CitationsGrounded and DocumentsCovered made inductive: the corpus can   *)
(* be scored, and has every row of a document or none.                     *)
(***************************************************************************)
\* The caller of ingest_document names documents apart from each other and from
\* those of the corpus.
NamedApart ==
  /\ \A d, e \in Documents : d.id = e.id => d = e
  /\ \A d \in Documents, rows \in Corpora : \A i \in DOMAIN rows : rows[i].doc # d.id

WholeDocuments ==
  \A d \in Documents :
    RowsOf(d) \in {{}, {DocumentRows(d, ChunkSize, Overlap)[i] :
                        i \in DOMAIN DocumentRows(d, ChunkSize, Overlap)}}

CorpusInv == IsCorpus(corpus) /\ (NamedApart => WholeDocuments) /\ CitationsGrounded
=============================================================================
