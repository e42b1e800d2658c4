---------------------------- MODULE GatewayProofs ----------------------------
(***************************************************************************)
(* For any number of requests, keys, settings, restarts and exceptions:    *)
(* no execution is started twice, and late duplicates create nothing.      *)
(***************************************************************************)
EXTENDS Gateway, TLAPS

LEMMA NobodyIsNoClient == Nobody \notin Clients
BY BoundAssumption DEF Nobody, Clients

\* A request that has no run yet is neither queued nor with the worker.
LEMMA NotHandedOver ==
  ASSUME GatewayInv, NEW c \in Clients, pc[c] # "answered"
  PROVE  worker # c /\ \A i \in 1 .. Len(queue) : queue[i] # c
BY NobodyIsNoClient DEF GatewayInv, HandedOver

\* Requests of the queue are clients.
LEMMA QueuedAreClients ==
  ASSUME queue \in Seq(Clients), NEW i \in 1 .. Len(queue)
  PROVE  queue[i] \in Clients
OBVIOUS

LEMMA InitEstablishes == Init => GatewayInv
BY BoundAssumption, NameAssumption
   DEF Init, GatewayInv, Types, StartedOnce, NotStarted, HandedOver, KeysKept, CreatedInOrder,
       LateOnes, LateDuplicatesForkNothing, Clients, Nobody

LEMMA ReceiveKeeps ==
  ASSUME GatewayInv, NEW c \in Clients, Receive(c)
  PROVE  GatewayInv'
<1> USE DEF GatewayInv, Receive, Comes, Goto, process
<1>1. PICK k \in Keys \cup {NoKey} :
        /\ key' = [key EXCEPT ![c] = k]
        /\ late' = IF k \in told THEN late \cup {c} ELSE late
  OBVIOUS
<1>2. pc' = [pc EXCEPT ![c] = "lookup"] /\ pc[c] = "idle"
  OBVIOUS
<1>3. UNCHANGED <<record, idem, queue, worker, answer, starts, told>>
  OBVIOUS
<1>4. Types'
  BY <1>1, <1>2, <1>3 DEF Types
<1>5. StartedOnce' /\ NotStarted' /\ HandedOver'
  BY <1>2, <1>3, NotHandedOver DEF Types, StartedOnce, NotStarted, HandedOver
<1>6. KeysKept' /\ CreatedInOrder'
  BY <1>1, <1>2, <1>3 DEF Types, KeysKept, CreatedInOrder
<1>7. LateOnes' /\ LateDuplicatesForkNothing'
  BY <1>1, <1>2, <1>3, NobodyIsNoClient DEF Types, LateOnes, LateDuplicatesForkNothing, CreatedInOrder
<1> QED BY <1>4, <1>5, <1>6, <1>7

LEMMA RejectKeeps ==
  ASSUME GatewayInv, NEW c \in Clients, Reject(c)
  PROVE  GatewayInv'
<1> USE DEF GatewayInv, Reject, Comes, Goto, process, history
<1>1. pc' = [pc EXCEPT ![c] = "rejected"] /\ pc[c] = "idle"
  OBVIOUS
<1>2. UNCHANGED <<record, idem, queue, worker, key, answer, starts, told, late>>
  OBVIOUS
<1>3. Types'
  BY <1>1, <1>2 DEF Types
<1>4. StartedOnce' /\ NotStarted' /\ HandedOver'
  BY <1>1, <1>2, NotHandedOver DEF Types, StartedOnce, NotStarted, HandedOver
<1>5. KeysKept' /\ CreatedInOrder'
  BY <1>1, <1>2 DEF Types, KeysKept, CreatedInOrder
<1>6. LateOnes' /\ LateDuplicatesForkNothing'
  BY <1>1, <1>2 DEF Types, LateOnes, LateDuplicatesForkNothing
<1> QED BY <1>3, <1>4, <1>5, <1>6

LEMMA LookupKeeps ==
  ASSUME GatewayInv, NEW c \in Clients, Lookup(c)
  PROVE  GatewayInv'
<1> USE DEF GatewayInv
<1>1. pc[c] = "lookup" /\ UNCHANGED <<record, idem, queue, worker, key, starts, late>>
  BY DEF Lookup, process
<1>2. starts[c] = 0 /\ record[c] = "absent" /\ answer[c] = Nobody
  BY <1>1 DEF NotStarted, CreatedInOrder
<1>3. CASE Known(key[c])
  <2>1. /\ pc' = [pc EXCEPT ![c] = "answered"]
        /\ answer' = [answer EXCEPT ![c] = idem[key[c]]]
        /\ told' = told \cup ({key[c]} \cap Keys)
    BY <1>3 DEF Lookup, Goto, Respond
  <2>2. key[c] \in Keys /\ idem[key[c]] \in Clients /\ idem[key[c]] # c
    BY <1>2, <1>3 DEF Known, Types
  <2>3. Types'
    BY <1>1, <2>1, <2>2 DEF Types
  <2>4. StartedOnce' /\ NotStarted' /\ HandedOver'
    BY <1>1, <2>1, NotHandedOver DEF Types, StartedOnce, NotStarted, HandedOver
  <2>5. KeysKept' /\ CreatedInOrder'
    BY <1>1, <1>3, <2>1, <2>2 DEF Types, KeysKept, CreatedInOrder, Known
  <2>6. LateOnes' /\ LateDuplicatesForkNothing'
    BY <1>1, <1>2, <2>1, <2>2 DEF Types, LateOnes, LateDuplicatesForkNothing
  <2> QED BY <2>3, <2>4, <2>5, <2>6
<1>4. CASE ~ Known(key[c])
  <2>1. pc' = [pc EXCEPT ![c] = "save"] /\ UNCHANGED <<answer, told>>
    BY <1>4 DEF Lookup, Goto
  <2>2. c \notin late
    BY <1>1, <1>4, NameAssumption DEF Known, LateOnes, KeysKept, Types
  <2>3. Types'
    BY <1>1, <2>1 DEF Types
  <2>4. StartedOnce' /\ NotStarted' /\ HandedOver'
    BY <1>1, <1>2, <2>1, NotHandedOver DEF Types, StartedOnce, NotStarted, HandedOver
  <2>5. KeysKept' /\ CreatedInOrder'
    BY <1>1, <1>2, <2>1 DEF Types, KeysKept, CreatedInOrder
  <2>6. LateOnes' /\ LateDuplicatesForkNothing'
    BY <1>1, <2>1, <2>2 DEF Types, LateOnes, LateDuplicatesForkNothing
  <2> QED BY <2>3, <2>4, <2>5, <2>6
<1> QED BY <1>3, <1>4

LEMMA SaveKeeps ==
  ASSUME GatewayInv, NEW c \in Clients, Save(c)
  PROVE  GatewayInv'
<1> USE DEF GatewayInv
<1>1. /\ pc[c] = "save" /\ pc' = [pc EXCEPT ![c] = "remember"]
      /\ record' = [record EXCEPT ![c] = "created"] /\ answer' = [answer EXCEPT ![c] = c]
      /\ UNCHANGED <<idem, queue, worker, key, starts, told, late>>
  BY DEF Save, Goto, process, history
<1>2. c \notin late
  BY <1>1 DEF LateOnes
<1>3. Types'
  BY <1>1 DEF Types
<1>4. StartedOnce' /\ NotStarted' /\ HandedOver'
  BY <1>1, NotHandedOver DEF Types, StartedOnce, NotStarted, HandedOver
<1>5. KeysKept' /\ CreatedInOrder'
  BY <1>1 DEF Types, KeysKept, CreatedInOrder
<1>6. LateOnes' /\ LateDuplicatesForkNothing'
  BY <1>1, <1>2 DEF Types, LateOnes, LateDuplicatesForkNothing
<1> QED BY <1>3, <1>4, <1>5, <1>6

LEMMA RememberKeeps ==
  ASSUME GatewayInv, NEW c \in Clients, Remember(c)
  PROVE  GatewayInv'
<1> USE DEF GatewayInv
<1>1. /\ pc[c] = "remember" /\ pc' = [pc EXCEPT ![c] = "schedule"]
      /\ idem' = IF key[c] = NoKey THEN idem ELSE [idem EXCEPT ![key[c]] = c]
      /\ UNCHANGED <<record, queue, worker, key, answer, starts, told, late>>
  BY DEF Remember, Goto, history
<1>2. c \notin late /\ record[c] # "absent"
  BY <1>1 DEF LateOnes, CreatedInOrder
<1>3. Types'
  BY <1>1 DEF Types
<1>4. StartedOnce' /\ NotStarted' /\ HandedOver'
  BY <1>1, NotHandedOver DEF Types, StartedOnce, NotStarted, HandedOver
<1>5. KeysKept' /\ CreatedInOrder'
  BY <1>1, <1>2, NobodyIsNoClient DEF Types, KeysKept, CreatedInOrder
<1>6. LateOnes' /\ LateDuplicatesForkNothing'
  BY <1>1, <1>2 DEF Types, LateOnes, LateDuplicatesForkNothing
<1> QED BY <1>3, <1>4, <1>5, <1>6

LEMMA ScheduleKeeps ==
  ASSUME GatewayInv, NEW c \in Clients, Schedule(c)
  PROVE  GatewayInv'
<1> USE DEF GatewayInv
<1>1. /\ pc[c] = "schedule" /\ told' = told \cup ({key[c]} \cap Keys)
      /\ UNCHANGED <<record, idem, worker, key, answer, starts, late>>
  BY DEF Schedule, Respond
<1>2. c \notin late /\ record[c] # "absent" /\ starts[c] = 0
  BY <1>1 DEF LateOnes, CreatedInOrder, NotStarted
<1>3. key[c] \in Keys => idem[key[c]] # Nobody
  BY <1>1, NameAssumption DEF KeysKept
<1>4. worker # c /\ \A i \in 1 .. Len(queue) : queue[i] # c
  BY <1>1, NotHandedOver
<1>5. CASE queue' = queue /\ (pc' = [pc EXCEPT ![c] = "answered"] \/ pc' = [pc EXCEPT ![c] = "task"])
  <2>1. Types'
    BY <1>1, <1>5 DEF Types
  <2>2. StartedOnce' /\ NotStarted'
    BY <1>1, <1>2, <1>5 DEF Types, StartedOnce, NotStarted
  <2>3. HandedOver'
    BY <1>1, <1>4, <1>5, QueuedAreClients DEF Types, HandedOver
  <2>4. KeysKept' /\ CreatedInOrder'
    BY <1>1, <1>2, <1>3, <1>5 DEF Types, KeysKept, CreatedInOrder
  <2>5. LateOnes' /\ LateDuplicatesForkNothing'
    BY <1>1, <1>2, <1>5 DEF Types, LateOnes, LateDuplicatesForkNothing
  <2> QED BY <2>1, <2>2, <2>3, <2>4, <2>5
<1>6. CASE queue' = Append(queue, c) /\ pc' = [pc EXCEPT ![c] = "answered"]
  <2>1. Types'
    BY <1>1, <1>6 DEF Types
  <2>2. /\ Len(queue') = Len(queue) + 1 /\ Len(queue) \in Nat
        /\ \A i \in 1 .. Len(queue') : \/ queue'[i] = c /\ i = Len(queue')
                                       \/ queue'[i] = queue[i] /\ i \in 1 .. Len(queue)
    BY <1>6 DEF Types
  <2>3. StartedOnce'
    BY <1>1, <1>2, <1>4, <2>2 DEF StartedOnce
  <2>4. NotStarted' /\ HandedOver'
    BY <1>1, <1>2, <1>6, <2>2 DEF Types, NotStarted, HandedOver
  <2>5. KeysKept' /\ CreatedInOrder'
    BY <1>1, <1>2, <1>3, <1>6 DEF Types, KeysKept, CreatedInOrder
  <2>6. LateOnes' /\ LateDuplicatesForkNothing'
    BY <1>1, <1>2, <1>6 DEF Types, LateOnes, LateDuplicatesForkNothing
  <2> QED BY <2>1, <2>3, <2>4, <2>5, <2>6
<1> QED BY <1>5, <1>6 DEF Schedule, Enqueue, Goto

\* Only what is queued or with the worker, or has a task, is run, and none of the
\* late ones is.
LEMMA RunsAreNotLate ==
  ASSUME GatewayInv, NEW c \in late, pc[c] # "lost"
  PROVE  c \in Clients /\ worker # c /\ pc[c] \in {"lookup", "answered"}
BY NobodyIsNoClient DEF GatewayInv, Types, LateOnes, LateDuplicatesForkNothing, HandedOver

LEMMA TaskStartsKeeps ==
  ASSUME GatewayInv, NEW c \in Clients, TaskStarts(c)
  PROVE  GatewayInv'
<1> USE DEF GatewayInv
<1>1. /\ pc[c] = "task" /\ pc' = [pc EXCEPT ![c] = "in_task"]
      /\ record' = [record EXCEPT ![c] = "running"] /\ starts' = [starts EXCEPT ![c] = @ + 1]
      /\ UNCHANGED <<idem, queue, worker, key, answer, told, late>>
  BY DEF TaskStarts, Start, Goto, process
<1>2. c \notin late /\ starts[c] = 0
  BY <1>1 DEF LateOnes, NotStarted
<1>3. Types'
  BY <1>1 DEF Types
<1>4. StartedOnce' /\ NotStarted'
  <2>1. worker # c /\ \A i \in 1 .. Len(queue) : queue[i] # c /\ queue[i] \in Clients
    BY <1>1, NotHandedOver, QueuedAreClients DEF Types
  <2>2. StartedOnce'
    BY <1>1, <1>2, <2>1 DEF Types, StartedOnce
  <2>3. NotStarted'
    BY <1>1, <1>2, <2>1 DEF Types, NotStarted
  <2> QED BY <2>2, <2>3
<1>5. HandedOver'
  BY <1>1, NotHandedOver, QueuedAreClients DEF Types, HandedOver
<1>6. KeysKept' /\ CreatedInOrder'
  BY <1>1 DEF Types, KeysKept, CreatedInOrder
<1>7. LateOnes' /\ LateDuplicatesForkNothing'
  BY <1>1, <1>2 DEF Types, LateOnes, LateDuplicatesForkNothing
<1> QED BY <1>3, <1>4, <1>5, <1>6, <1>7

\* The end of a task, in order or by an exception.
LEMMA TaskEndKeeps ==
  ASSUME GatewayInv, NEW c \in Clients, TaskEnds(c) \/ TaskRaises(c)
  PROVE  GatewayInv'
<1> USE DEF GatewayInv
<1>1. /\ pc[c] = "in_task" /\ pc' = [pc EXCEPT ![c] = "answered"]
      /\ record' = [record EXCEPT ![c] = "settled"] \/ record' = record
      /\ UNCHANGED <<idem, queue, worker, key, answer, starts, told, late>>
  BY DEF TaskEnds, TaskRaises, Goto, process, history
<1>2. c \notin late
  BY <1>1 DEF LateOnes
<1>3. Types'
  BY <1>1 DEF Types
<1>4. StartedOnce' /\ NotStarted'
  BY <1>1, <1>2, NotHandedOver, QueuedAreClients DEF Types, StartedOnce, NotStarted
<1>5. HandedOver'
  BY <1>1, NotHandedOver, QueuedAreClients DEF Types, HandedOver
<1>6. KeysKept' /\ CreatedInOrder'
  BY <1>1 DEF Types, KeysKept, CreatedInOrder
<1>7. LateOnes' /\ LateDuplicatesForkNothing'
  BY <1>1, <1>2 DEF Types, LateOnes, LateDuplicatesForkNothing
<1> QED BY <1>3, <1>4, <1>5, <1>6, <1>7

LEMMA DequeueKeeps ==
  ASSUME GatewayInv, Dequeue
  PROVE  GatewayInv'
<1> USE DEF GatewayInv
<1>1. /\ queue # <<>> /\ worker' = Head(queue) /\ queue' = Tail(queue)
      /\ UNCHANGED <<record, idem, pc, key, answer, starts, told, late>>
  BY DEF Dequeue, requests, history
<1>2. /\ Len(queue) \in Nat \ {0} /\ Len(queue') = Len(queue) - 1
      /\ worker' = queue[1] /\ queue[1] \in Clients /\ queue' \in Seq(Clients)
      /\ \A i \in 1 .. Len(queue') : queue'[i] = queue[i + 1] /\ i + 1 \in 1 .. Len(queue)
  BY <1>1 DEF Types
<1>3. Types'
  BY <1>1, <1>2 DEF Types
<1>4. StartedOnce'
  BY <1>1, <1>2 DEF StartedOnce
<1>5. NotStarted' /\ HandedOver'
  BY <1>1, <1>2 DEF NotStarted, HandedOver, StartedOnce
<1>6. KeysKept' /\ CreatedInOrder' /\ LateOnes' /\ LateDuplicatesForkNothing'
  BY <1>1 DEF KeysKept, CreatedInOrder, LateOnes, LateDuplicatesForkNothing
<1> QED BY <1>3, <1>4, <1>5, <1>6

LEMMA WorkerStartsKeeps ==
  ASSUME GatewayInv, WorkerStarts
  PROVE  GatewayInv'
<1> USE DEF GatewayInv
<1>1. /\ worker # Nobody /\ record[worker] # "running"
      /\ record' = [record EXCEPT ![worker] = "running"]
      /\ starts' = [starts EXCEPT ![worker] = @ + 1]
      /\ UNCHANGED <<idem, queue, worker, pc, key, answer, told, late>>
  BY DEF WorkerStarts, Start, process, requests
<1>2. worker \in Clients /\ starts[worker] = 0 /\ pc[worker] = "answered"
      /\ record[worker] # "absent"
  BY <1>1 DEF Types, NotStarted, HandedOver
<1>3. Types'
  BY <1>1, <1>2 DEF Types
<1>4. StartedOnce' /\ NotStarted'
  BY <1>1, <1>2, QueuedAreClients DEF Types, StartedOnce, NotStarted
<1>5. HandedOver'
  BY <1>1, <1>2, QueuedAreClients DEF Types, HandedOver
<1>6. KeysKept' /\ CreatedInOrder'
  BY <1>1, <1>2 DEF Types, KeysKept, CreatedInOrder
<1>7. LateOnes' /\ LateDuplicatesForkNothing'
  BY <1>1, <1>2, RunsAreNotLate DEF Types, LateOnes, LateDuplicatesForkNothing
<1> QED BY <1>3, <1>4, <1>5, <1>6, <1>7

\* The end of a run in the worker, in order or by an exception.
LEMMA WorkerEndKeeps ==
  ASSUME GatewayInv, WorkerEnds \/ WorkerDies
  PROVE  GatewayInv'
<1> USE DEF GatewayInv
<1>1. /\ worker # Nobody /\ worker' = Nobody
      /\ record' = [record EXCEPT ![worker] = "settled"] \/ record' = record
      /\ UNCHANGED <<idem, queue, pc, key, answer, starts, told, late>>
  BY DEF WorkerEnds, WorkerDies, requests, history
<1>2. worker \in Clients /\ pc[worker] = "answered" /\ record[worker] # "absent"
  BY <1>1 DEF Types, HandedOver
<1>3. Types'
  BY <1>1, <1>2 DEF Types
<1>4. StartedOnce' /\ NotStarted'
  BY <1>1, <1>2, QueuedAreClients, NobodyIsNoClient DEF Types, StartedOnce, NotStarted
<1>5. HandedOver'
  BY <1>1, <1>2, QueuedAreClients DEF Types, HandedOver
<1>6. KeysKept' /\ CreatedInOrder'
  BY <1>1, <1>2 DEF Types, KeysKept, CreatedInOrder
<1>7. LateOnes' /\ LateDuplicatesForkNothing'
  BY <1>1, <1>2, RunsAreNotLate DEF Types, LateOnes, LateDuplicatesForkNothing
<1> QED BY <1>3, <1>4, <1>5, <1>6, <1>7

LEMMA RestartKeeps ==
  ASSUME GatewayInv, Restart
  PROVE  GatewayInv'
<1> USE DEF GatewayInv
<1>1. /\ idem' = [k \in Keys |-> Nobody] /\ queue' = <<>> /\ worker' = Nobody
      /\ record' = record \/ record' = [e \in Clients |-> "absent"]
      /\ pc' = [c \in Clients |->
                  IF pc[c] \in {"idle", "answered", "rejected"} THEN pc[c] ELSE "lost"]
      /\ told' = {}
      /\ UNCHANGED <<key, answer, starts, late>>
  BY DEF Restart
<1>2. Types'
  BY <1>1 DEF Types
<1>3. StartedOnce' /\ NotStarted' /\ HandedOver'
  BY <1>1 DEF Types, StartedOnce, NotStarted, HandedOver
<1>4. KeysKept' /\ CreatedInOrder'
  BY <1>1 DEF Types, KeysKept, CreatedInOrder
<1>5. LateOnes' /\ LateDuplicatesForkNothing'
  BY <1>1 DEF Types, LateOnes, LateDuplicatesForkNothing
<1> QED BY <1>2, <1>3, <1>4, <1>5

LEMMA StutterKeeps == GatewayInv /\ UNCHANGED vars => GatewayInv'
BY DEF vars, process, requests, history, GatewayInv, Types, StartedOnce, NotStarted, HandedOver,
       KeysKept, CreatedInOrder, LateOnes, LateDuplicatesForkNothing

\* The inductive invariant of the gateway: what is queued or with the worker was
\* answered and not started before, and the dictionary keeps what was told of a key.
THEOREM GatewayInvariance == Spec => []GatewayInv
<1>1. Init => GatewayInv
  BY InitEstablishes
<1>2. GatewayInv /\ [Next]_vars => GatewayInv'
  <2> SUFFICES ASSUME GatewayInv, [Next]_vars PROVE GatewayInv'
    OBVIOUS
  <2>1. ASSUME NEW c \in Clients,
               Receive(c) \/ Reject(c) \/ RequestContinues(c) \/ TaskRaises(c)
        PROVE  GatewayInv'
    BY <2>1, ReceiveKeeps, RejectKeeps, LookupKeeps, SaveKeeps, RememberKeeps, ScheduleKeeps,
       TaskStartsKeeps, TaskEndKeeps DEF RequestContinues
  <2>2. CASE WorkerNext \/ WorkerDies \/ Restart
    BY <2>2, DequeueKeeps, WorkerStartsKeeps, WorkerEndKeeps, RestartKeeps DEF WorkerNext
  <2>3. CASE Quiet \/ UNCHANGED vars
    BY <2>3, StutterKeeps DEF Quiet
  <2> QED BY <2>1, <2>2, <2>3 DEF Next
<1> QED BY <1>1, <1>2, PTL DEF Spec

\* StartedOnce for every number of requests, restarts and exceptions: the run of an
\* execution is started at most once, by a background task or by the worker.
THEOREM NothingStartsTwice == Spec => []StartedOnce
BY GatewayInvariance, PTL DEF GatewayInv

\* LateDuplicatesForkNothing likewise: after an answer for a key, create_execution
\* creates nothing more for it while the process lives.
THEOREM LateDuplicatesAreAnswered == Spec => []LateDuplicatesForkNothing
BY GatewayInvariance, PTL DEF GatewayInv
=============================================================================
