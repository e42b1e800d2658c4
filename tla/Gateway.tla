------------------------------- MODULE Gateway -------------------------------
(***************************************************************************)
(* How an execution gets from POST /v1/executions to the thread that runs  *)
(* it: request threads in ExecutionFacade.create_execution, the process's  *)
(* idempotency dictionary and work queue, the worker thread of main.py,    *)
(* FastAPI background tasks, and restarts of the process, which lose all   *)
(* of that but, with Postgres, keep the records.  What a run does is       *)
(* ExecutionEngine's matter: here it starts and ends.                      *)
(*                                                                         *)
(* Requests are numbered in the order they come in, and the execution a    *)
(* request creates has its number.                                         *)
(***************************************************************************)
EXTENDS Integers, Sequences, FiniteSets

CONSTANTS
  MaxRequests,  \* bound on requests, and so on executions
  Keys,         \* idempotency keys, with tenant and workflow type
  NoKey,        \* a request without a key
  Deployments,  \* the settings the gateway may be started with
  MaxInFlight,  \* how many requests of one key are under way at a time
  MaxRestarts,  \* bound on restarts of the process
  MaxFaults     \* bound on runs that end in an exception

Clients == 1..MaxRequests
Nobody == 0  \* no execution

\* schedule_execution_start, use_execution_worker_queue, use_postgres
Settings == [schedule : BOOLEAN, use_queue : BOOLEAN, postgres : BOOLEAN]

ASSUME NameAssumption == NoKey \notin Keys

ASSUME SettingsAssumption == Deployments \subseteq Settings

ASSUME BoundAssumption ==
  MaxRequests \in Nat /\ MaxInFlight \in Nat \ {0} /\ MaxRestarts \in Nat /\ MaxFaults \in Nat

VARIABLES
  settings,
  record,    \* the stored execution: "absent", "created", "running", "settled"
  idem,      \* GatewayState.idempotency
  queue,     \* InMemoryExecutionQueue
  worker,    \* the execution the worker thread has dequeued
  alive,     \* the worker thread runs
  pc, key, mode, answer,  \* of each request
  starts,    \* how often the run of each execution was started (history)
  told,      \* a request with the key was answered in this process (history)
  late,      \* requests received after that (history)
  crashed,   \* executions whose run ended in an exception (history)
  restarts

process == <<idem, queue, worker, alive>>
requests == <<pc, key, mode, answer>>
history == <<starts, told, late, crashed, restarts>>
vars == <<settings, record, process, requests, history>>

InFlight(c) == pc[c] \in {"lookup", "save", "remember", "schedule"}

Goto(c, next) == pc' = [pc EXCEPT ![c] = next]

Respond(c) == told' = told \cup ({key[c]} \cap Keys)

(***************************************************************************)
(* create_execution.                                                       *)
(***************************************************************************)
Comes(c) == pc[c] = "idle" /\ \A d \in 1..(c - 1) : pc[d] # "idle"

Receive(c) ==
  /\ Comes(c)
  /\ \E k \in Keys \cup {NoKey}, m \in {"background", "interactive"} :
       /\ k # NoKey =>
            Cardinality({d \in Clients : InFlight(d) /\ key[d] = k}) < MaxInFlight
       /\ key' = [key EXCEPT ![c] = k]
       /\ mode' = [mode EXCEPT ![c] = m]
       /\ late' = IF k \in told THEN late \cup {c} ELSE late
  /\ Goto(c, "lookup")
  /\ UNCHANGED <<settings, record, process, answer, starts, told, crashed, restarts>>

\* An unregistered workflow_type, a context without tenant or policy scope, or an
\* unknown execution_mode: ValueError, answered with 400.
Reject(c) ==
  /\ Comes(c)
  /\ Goto(c, "rejected")
  /\ UNCHANGED <<settings, record, process, key, mode, answer, history>>

\* Mutant of Known: every key is new.
KnownNever(k) == FALSE

\* The key is in the dictionary and the execution it names is stored.
Known(k) == k # NoKey /\ idem[k] # Nobody /\ record[idem[k]] # "absent"

Lookup(c) ==
  /\ pc[c] = "lookup"
  /\ IF Known(key[c])
       THEN answer' = [answer EXCEPT ![c] = idem[key[c]]] /\ Goto(c, "answered") /\ Respond(c)
       ELSE UNCHANGED <<answer, told>> /\ Goto(c, "save")
  /\ UNCHANGED <<settings, record, process, key, mode, starts, late, crashed, restarts>>

\* ExecutionService.create_execution
Save(c) ==
  /\ pc[c] = "save"
  /\ record' = [record EXCEPT ![c] = "created"]
  /\ answer' = [answer EXCEPT ![c] = c]
  /\ Goto(c, "remember")
  /\ UNCHANGED <<settings, process, key, mode, history>>

Remember(c) ==
  /\ pc[c] = "remember"
  /\ idem' = IF key[c] = NoKey THEN idem ELSE [idem EXCEPT ![key[c]] = c]
  /\ Goto(c, "schedule")
  /\ UNCHANGED <<settings, record, queue, worker, alive, key, mode, answer, history>>

\* Mutant of Enqueue: the queue holds one item.
EnqueueWhenEmpty(c) == queue' = IF queue = <<>> THEN <<c>> ELSE queue

\* InMemoryExecutionQueue.enqueue
Enqueue(c) == queue' = Append(queue, c)

\* enqueue_execution, a background task for after the response, or nothing.
Schedule(c) ==
  /\ pc[c] = "schedule"
  /\ \/ /\ ~ settings.schedule
        /\ Goto(c, "answered") /\ UNCHANGED queue
     \/ /\ settings.schedule /\ settings.use_queue /\ mode[c] = "background"
        /\ Enqueue(c) /\ Goto(c, "answered")
     \/ /\ settings.schedule /\ ~ (settings.use_queue /\ mode[c] = "background")
        /\ Goto(c, "task") /\ UNCHANGED queue
  /\ Respond(c)
  /\ UNCHANGED <<settings, record, idem, worker, alive, key, mode, answer, starts, late, crashed, restarts>>

(***************************************************************************)
(* Runs.                                                                   *)
(***************************************************************************)
Start(e) ==
  /\ record' = [record EXCEPT ![e] = "running"]
  /\ starts' = [starts EXCEPT ![e] = @ + 1]

\* start_execution as a background task, once the response is sent.
TaskStarts(c) ==
  /\ pc[c] = "task"
  /\ Start(c)
  /\ Goto(c, "in_task")
  /\ UNCHANGED <<settings, process, key, mode, answer, told, late, crashed, restarts>>

TaskEnds(c) ==
  /\ pc[c] = "in_task"
  /\ record' = [record EXCEPT ![c] = "settled"]
  /\ Goto(c, "answered")
  /\ UNCHANGED <<settings, process, key, mode, answer, history>>

\* start_execution handles an OrchestrationError and nothing else.
Raises(e) ==
  /\ Cardinality(crashed) < MaxFaults
  /\ crashed' = crashed \cup {e}

\* The server logs an exception of a background task; the record stays as it is.
TaskRaises(c) ==
  /\ pc[c] = "in_task"
  /\ Raises(c)
  /\ Goto(c, "answered")
  /\ UNCHANGED <<settings, record, process, key, mode, answer, starts, told, late, restarts>>

\* Mutant of Dequeue: the item is read and left in the queue.
DequeuePeeks ==
  /\ alive /\ worker = Nobody /\ queue # <<>>
  /\ worker' = Head(queue)
  /\ UNCHANGED <<settings, record, idem, queue, alive, requests, history>>

\* InMemoryExecutionQueue.dequeue, in run_once
Dequeue ==
  /\ alive /\ worker = Nobody /\ queue # <<>>
  /\ worker' = Head(queue)
  /\ queue' = Tail(queue)
  /\ UNCHANGED <<settings, record, idem, alive, requests, history>>

WorkerStarts ==
  /\ worker # Nobody /\ record[worker] # "running"
  /\ Start(worker)
  /\ UNCHANGED <<settings, process, requests, told, late, crashed, restarts>>

WorkerEnds ==
  /\ worker # Nobody /\ record[worker] = "running"
  /\ record' = [record EXCEPT ![worker] = "settled"]
  /\ worker' = Nobody
  /\ UNCHANGED <<settings, idem, queue, alive, requests, history>>

\* The exception ends the worker thread, for _worker_loop has no handler.
WorkerDies ==
  /\ worker # Nobody /\ record[worker] = "running"
  /\ Raises(worker)
  /\ alive' = FALSE
  /\ worker' = Nobody
  /\ UNCHANGED <<settings, record, idem, queue, requests, starts, told, late, restarts>>

\* The process ends and build_gateway_state runs again.
Restart ==
  /\ restarts < MaxRestarts
  /\ restarts' = restarts + 1
  /\ idem' = [k \in Keys |-> Nobody]
  /\ queue' = <<>>
  /\ worker' = Nobody
  /\ alive' = TRUE
  /\ record' = IF settings.postgres THEN record ELSE [e \in Clients |-> "absent"]
  /\ pc' = [c \in Clients |->
              IF pc[c] \in {"idle", "answered", "rejected"} THEN pc[c] ELSE "lost"]
  /\ told' = {}
  /\ UNCHANGED <<settings, key, mode, answer, starts, late, crashed>>

(***************************************************************************)
(* The specification.                                                      *)
(***************************************************************************)
Init ==
  /\ settings \in Deployments
  /\ record = [e \in Clients |-> "absent"]
  /\ idem = [k \in Keys |-> Nobody]
  /\ queue = <<>>
  /\ worker = Nobody
  /\ alive = TRUE
  /\ pc = [c \in Clients |-> "idle"]
  /\ key = [c \in Clients |-> NoKey]
  /\ mode = [c \in Clients |-> "background"]
  /\ answer = [c \in Clients |-> Nobody]
  /\ starts = [e \in Clients |-> 0]
  /\ told = {} /\ late = {} /\ crashed = {}
  /\ restarts = 0

RequestContinues(c) ==
  Lookup(c) \/ Save(c) \/ Remember(c) \/ Schedule(c) \/ TaskStarts(c) \/ TaskEnds(c)

WorkerNext == Dequeue \/ WorkerStarts \/ WorkerEnds

\* Nothing is under way.
Quiet ==
  /\ \A c \in Clients : pc[c] \in {"answered", "rejected", "lost"}
  /\ worker = Nobody /\ (queue = <<>> \/ ~ alive)
  /\ UNCHANGED vars

Next ==
  \/ \E c \in Clients : Receive(c) \/ Reject(c) \/ RequestContinues(c) \/ TaskRaises(c)
  \/ WorkerNext \/ WorkerDies \/ Restart \/ Quiet

Spec == Init /\ [][Next]_vars

\* Threads that have work keep running, and a run ends (ExecutionEngine: Settles).
FairSpec ==
  Spec /\ WF_vars(WorkerNext) /\ \A c \in Clients : WF_vars(RequestContinues(c))

(***************************************************************************)
(* Properties.                                                             *)
(***************************************************************************)
\* The run of an execution is started at most once, and what waits in the queue
\* was never started: across duplicate requests, exceptions in the worker and
\* restarts.  A second start of a governed run would repeat its tool calls.
StartedOnce ==
  /\ \A e \in Clients : starts[e] <= 1
  /\ \A i \in 1 .. Len(queue) : starts[queue[i]] = 0 /\ queue[i] # worker
  /\ \A i, j \in 1 .. Len(queue) : queue[i] = queue[j] => i = j

\* docs/architecture/api-design.md: a duplicate idempotency_key returns the same
\* execution_id, so duplicate submits do not fork runs.
DuplicatesDoNotFork ==
  \A c, d \in Clients :
    pc[c] = "answered" /\ pc[d] = "answered" /\ key[c] = key[d] /\ key[c] # NoKey
      => answer[c] = answer[d]

\* What a duplicate gets for certain: a request that comes in after one with its key
\* was answered creates nothing, however requests of the key overlap and whatever
\* becomes of their runs, as long as the process lives (create_execution).
LateDuplicatesForkNothing ==
  \A c \in late : pc[c] # "lost" => record[c] = "absent" /\ answer[c] # c

\* docs/architecture/runtime-model.md calls an execution "a governed run with a
\* finite exit".  An execution that was to be started is settled, unless the process
\* was restarted, its own run ended in an exception, or it waited for the worker
\* thread and that died: an exception in a background task stops no other run.
FiniteExit ==
  \A e \in Clients :
    settings.schedule /\ record[e] = "created"
      ~> \/ record[e] = "settled" \/ restarts > 0 \/ e \in crashed
         \/ ~ alive /\ settings.use_queue /\ mode[e] = "background"

(***************************************************************************)
(* The inductive invariant.  A request is in one place at a time: what is  *)
(* queued or with the worker has been answered, and until then its run has *)
(* not been started.                                                       *)
(***************************************************************************)
Types ==
  /\ record \in [Clients -> {"absent", "created", "running", "settled"}]
  /\ idem \in [Keys -> Clients \cup {Nobody}]
  /\ queue \in Seq(Clients)
  /\ worker \in Clients \cup {Nobody}
  /\ pc \in [Clients -> {"idle", "lookup", "save", "remember", "schedule", "task",
                         "in_task", "answered", "rejected", "lost"}]
  /\ key \in [Clients -> Keys \cup {NoKey}]
  /\ answer \in [Clients -> Clients \cup {Nobody}]
  /\ starts \in [Clients -> Nat]
  /\ told \subseteq Keys /\ late \subseteq Clients

\* An execution the worker has not begun, or one of a request still under way.
NotStarted ==
  /\ \A c \in Clients : pc[c] \notin {"in_task", "answered", "lost"} => starts[c] = 0
  /\ worker # Nobody /\ record[worker] # "running" => starts[worker] = 0

HandedOver ==
  /\ \A i \in 1 .. Len(queue) : pc[queue[i]] = "answered" /\ record[queue[i]] # "absent"
  /\ worker # Nobody => pc[worker] = "answered" /\ record[worker] # "absent"

\* What was told of a key is in the dictionary, and what is there is stored.
KeysKept ==
  /\ \A k \in Keys : idem[k] # Nobody => record[idem[k]] # "absent"
  /\ \A k \in told : idem[k] # Nobody
  /\ \A c \in Clients : pc[c] = "schedule" /\ key[c] # NoKey => idem[key[c]] # Nobody

CreatedInOrder ==
  \A c \in Clients :
    /\ pc[c] \in {"idle", "lookup", "save"} => record[c] = "absent" /\ answer[c] = Nobody
    /\ pc[c] \in {"remember", "schedule", "task", "in_task"} => record[c] # "absent"

LateOnes ==
  \A c \in late :
    /\ pc[c] \in {"lookup", "answered", "lost"}
    /\ pc[c] = "lookup" => key[c] \in told

GatewayInv ==
  /\ Types /\ StartedOnce /\ NotStarted /\ HandedOver
  /\ KeysKept /\ CreatedInOrder /\ LateOnes /\ LateDuplicatesForkNothing
=============================================================================
