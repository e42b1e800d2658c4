-------------------------------- MODULE Stream --------------------------------
(***************************************************************************)
(* GET /v1/executions/{id}/stream: a loop that polls the repository, turns *)
(* the difference to its cursor into events and ends at a terminal status, *)
(* its time limit, a disconnect or an exception.  Each poll reads the      *)
(* record twice, then the steps, then the approvals, while the engine's    *)
(* driver, an approver and a canceller write, the record as a whole from a *)
(* copy they read before.                                                  *)
(***************************************************************************)
EXTENDS Integers, Sequences, SequencesExt, FiniteSets

CONSTANTS
  MaxDuration,     \* stream_max_duration_sec, in polls
  HeartbeatEvery,  \* stream_heartbeat_sec, in polls
  MaxCancels       \* bound on cancellations

ASSUME TimeAssumption == MaxDuration \in Nat /\ HeartbeatEvery \in Nat \ {0}
ASSUME BoundAssumption == MaxCancels \in Nat

VARIABLES
  record, step, approvals,   \* what is stored
  outcome, op, copy,         \* the driver: its last status, its place, its copy
  approver, approverCopy,
  cancelCopy, cancels,
  pc, ex, projection,        \* the stream: its two reads of the record
  cursor, batch, sent, clock, lastHeartbeat, reason,
  overwritten                \* a stale copy took rows back (history)

stored == <<record, step, approvals>>
writers == <<outcome, op, copy, approver, approverCopy, cancelCopy, cancels>>
reads == <<ex, projection>>
output == <<batch, sent>>
time == <<clock, lastHeartbeat>>
vars == <<stored, writers, pc, reads, cursor, output, time, reason, overwritten>>

Terminal == {"completed", "failed", "cancelled"}
Statuses == {"created", "executing", "awaiting_approval"} \cup Terminal
None == [status |-> "none", timeline |-> <<>>]

(***************************************************************************)
(* The writers.  What a status leads to is ExecutionEngine's matter.       *)
(***************************************************************************)
\* The driver's writes: the record's statuses, each with its row, and the step's.
Program ==
  <<[kind |-> "status", to |-> "executing"], [kind |-> "step", to |-> "running"],
    [kind |-> "step", to |-> "succeeded"], [kind |-> "status", to |-> outcome]>>

\* _append_timeline on a copy, with the status the writer gives it.
Written(held, status, row) ==
  [status |-> status, timeline |-> Append(held.timeline, row)]

Overwrites(new) == overwritten' = (overwritten \/ ~ IsPrefix(record.timeline, new.timeline))

DriverRead ==
  /\ op <= Len(Program) /\ copy = None /\ Program[op].kind = "status"
  /\ IF record.status \in Terminal
       THEN op' = Len(Program) + 1 /\ UNCHANGED copy
       ELSE copy' = record /\ UNCHANGED op
  /\ UNCHANGED <<stored, outcome, approver, approverCopy, cancelCopy, cancels, pc, reads,
                 cursor, output, time, reason, overwritten>>

DriverWrite ==
  /\ op <= Len(Program) /\ copy # None
  /\ LET new == Written(copy, Program[op].to, Program[op].to)
     IN  record' = new /\ Overwrites(new)
  /\ copy' = None /\ op' = op + 1
  /\ UNCHANGED <<step, approvals, outcome, approver, approverCopy, cancelCopy, cancels, pc,
                 reads, cursor, output, time, reason>>

DriverStep ==
  /\ op <= Len(Program) /\ Program[op].kind = "step"
  /\ step' = Program[op].to /\ op' = op + 1
  /\ UNCHANGED <<record, approvals, outcome, copy, approver, approverCopy, cancelCopy,
                 cancels, pc, reads, cursor, output, time, reason, overwritten>>

\* submit_approval: the approval is saved before the record is written.
ApproverReads ==
  /\ approver = "idle" /\ record.status = "awaiting_approval"
  /\ approverCopy' = record /\ approvals' = approvals + 1
  /\ approver' = "saved"
  /\ UNCHANGED <<record, step, outcome, op, copy, cancelCopy, cancels, pc, reads, cursor,
                 output, time, reason, overwritten>>

ApproverWrites ==
  /\ approver = "saved"
  /\ \E status \in {"completed", "failed"} :
       LET new == Written(approverCopy, status, "approval")
       IN  record' = new /\ Overwrites(new)
  /\ approver' = "done" /\ approverCopy' = None
  /\ UNCHANGED <<step, approvals, outcome, op, copy, cancelCopy, cancels, pc, reads, cursor,
                 output, time, reason>>

\* cancel_execution
CancelReads ==
  /\ cancels < MaxCancels /\ cancelCopy = None /\ record.status \notin Terminal
  /\ cancelCopy' = record
  /\ UNCHANGED <<stored, outcome, op, copy, approver, approverCopy, cancels, pc, reads,
                 cursor, output, time, reason, overwritten>>

CancelWrites ==
  /\ cancelCopy # None
  /\ LET new == Written(cancelCopy, "cancelled", "cancel")
     IN  record' = new /\ Overwrites(new)
  /\ cancelCopy' = None /\ cancels' = cancels + 1
  /\ UNCHANGED <<step, approvals, outcome, op, copy, approver, approverCopy, pc, reads,
                 cursor, output, time, reason>>

(***************************************************************************)
(* diff_stream_events.                                                     *)
(***************************************************************************)
\* The event that tells of a terminal status.
Verdict(status) ==
  CASE status = "failed"    -> "execution_failed"
    [] status = "cancelled" -> "execution_cancelled"
    [] OTHER                -> "execution_completed"

StatusEvents(status) ==
  IF status = cursor.status THEN <<>>
  ELSE <<[type |-> "execution_updated", of |-> status]>>
       \o (CASE status = "awaiting_approval" -> <<[type |-> "approval_required", of |-> status]>>
             [] status \in Terminal          -> <<[type |-> Verdict(status), of |-> status]>>
             [] OTHER                        -> <<>>)

RowEvents(row) ==
  <<[type |-> "trace_event", of |-> row]>>
    \o (IF row = "replay_created" THEN <<[type |-> "replay_created", of |-> row]>> ELSE <<>>)

\* The loop over the timeline: the events of its rows past the first "from".
EventsOfRows(timeline, from) ==
  LET upTo[n \in 0 .. Len(timeline)] ==
        IF n <= from THEN <<>> ELSE upTo[n - 1] \o RowEvents(timeline[n])
  IN  upTo[Len(timeline)]

\* Mutant of TimelineEvents: the row at the cursor is sent again.
TimelineEventsAgain(timeline) ==
  EventsOfRows(timeline, IF cursor.timeline = 0 THEN 0 ELSE cursor.timeline - 1)

\* The rows past the cursor; none when the timeline has become shorter.
TimelineEvents(timeline) == EventsOfRows(timeline, cursor.timeline)

\* The engine stores a step before it works on it.
StepEvents(status) ==
  IF status \in {"absent", cursor.step} THEN <<>>
  ELSE <<[type |-> "step_updated", of |-> status]>>

\* However many approvals are new, one event tells of the last.
ApprovalEvents(count) ==
  IF count <= cursor.approvals THEN <<>>
  ELSE <<[type |-> "execution_updated", of |-> "approval"]>>

Numbered(events) ==
  [i \in DOMAIN events |-> [type |-> events[i].type, of |-> events[i].of,
                            sequence |-> cursor.sequence + i]]

(***************************************************************************)
(* stream_execution_sse.                                                   *)
(***************************************************************************)
\* Mutant of Poll: one poll too many.
PollLate ==
  /\ pc = "poll"
  /\ IF clock > MaxDuration + 1
       THEN pc' = "closed" /\ reason' = "timeout" /\ UNCHANGED ex
       ELSE pc' = "project" /\ ex' = record /\ UNCHANGED reason
  /\ UNCHANGED <<stored, writers, projection, cursor, output, time, overwritten>>

\* The top of the loop: the time limit, then get_execution.
Poll ==
  /\ pc = "poll"
  /\ IF clock > MaxDuration
       THEN pc' = "closed" /\ reason' = "timeout" /\ UNCHANGED ex
       ELSE pc' = "project" /\ ex' = record /\ UNCHANGED reason
  /\ UNCHANGED <<stored, writers, projection, cursor, output, time, overwritten>>

\* build_trace_projection reads the record once more,
Project ==
  /\ pc = "project"
  /\ projection' = [timeline |-> record.timeline, step |-> "absent"]
  /\ pc' = "steps"
  /\ UNCHANGED <<stored, writers, ex, cursor, output, time, reason, overwritten>>

\* Mutant of ProjectSteps: the record is read after its projection.
ProjectStepsFirst ==
  /\ pc = "steps"
  /\ projection' = [projection EXCEPT !.step = step] /\ ex' = record
  /\ pc' = "approvals"
  /\ UNCHANGED <<stored, writers, cursor, output, time, reason, overwritten>>

\* then the steps,
ProjectSteps ==
  /\ pc = "steps"
  /\ projection' = [projection EXCEPT !.step = step]
  /\ pc' = "approvals"
  /\ UNCHANGED <<stored, writers, ex, cursor, output, time, reason, overwritten>>

\* then the approvals; and the difference to the cursor is computed.
Diff ==
  /\ pc = "approvals"
  /\ LET events == StatusEvents(ex.status) \o TimelineEvents(projection.timeline)
                     \o StepEvents(projection.step) \o ApprovalEvents(approvals)
     IN  /\ batch' = Numbered(events)
         /\ cursor' = [status |-> ex.status, timeline |-> Len(projection.timeline),
                       step |-> IF projection.step = "absent" THEN cursor.step
                                ELSE projection.step,
                       approvals |-> IF approvals > cursor.approvals THEN approvals
                                     ELSE cursor.approvals,
                       sequence |-> cursor.sequence + Len(events)]
  /\ pc' = "send"
  /\ UNCHANGED <<stored, writers, reads, sent, time, reason, overwritten>>

IsTerminalEvent(event) ==
  event.type \in {"execution_completed", "execution_failed", "execution_cancelled"}

TerminalSent(events) == \E i \in DOMAIN events : IsTerminalEvent(events[i])

\* Mutant of Send: the stream ends at the first poll that brings nothing new.
SendUntilQuiet ==
  /\ pc = "send"
  /\ LET ends == ex.status \in Terminal /\ batch = <<>>
     IN  /\ pc' = IF ends THEN "closed" ELSE "sleep"
         /\ reason' = IF ends THEN "terminal" ELSE reason
         /\ lastHeartbeat' = clock
  /\ sent' = sent \o batch /\ batch' = <<>>
  /\ UNCHANGED <<stored, writers, reads, cursor, clock, overwritten>>

\* The batch is sent; a terminal status ends the stream, with a terminal event of
\* its own if none was sent; otherwise a heartbeat may be due before the sleep.
Send ==
  /\ pc = "send"
  /\ LET all == sent \o batch
         ends == ex.status \in Terminal /\ (TerminalSent(all) \/ batch = <<>>)
     IN  /\ sent' = IF ends /\ ~ TerminalSent(all)
                      THEN Append(all, [type |-> Verdict(ex.status),
                                        of |-> ex.status,
                                        sequence |-> cursor.sequence + 1])
                      ELSE all
         /\ pc' = IF ends THEN "closed" ELSE "sleep"
         /\ reason' = IF ends THEN "terminal" ELSE reason
         /\ lastHeartbeat' = IF ~ ends /\ clock - lastHeartbeat >= HeartbeatEvery
                               THEN clock ELSE lastHeartbeat
  /\ batch' = <<>>
  /\ UNCHANGED <<stored, writers, reads, cursor, clock, overwritten>>

\* Mutant of Sleep: time stands still.
SleepForNoTime ==
  /\ pc = "sleep"
  /\ pc' = "poll"
  /\ UNCHANGED <<stored, writers, reads, cursor, output, time, reason, overwritten>>

Sleep ==
  /\ pc = "sleep"
  /\ clock' = clock + 1
  /\ pc' = "poll"
  /\ UNCHANGED <<stored, writers, reads, cursor, output, lastHeartbeat, reason,
                 overwritten>>

\* The client goes away: the generator is cancelled at a yield or in its sleep.
Disconnect ==
  /\ pc \in {"send", "sleep"}
  /\ \E k \in 0 .. Len(batch) : sent' = sent \o SubSeq(batch, 1, k)
  /\ batch' = <<>>
  /\ pc' = "closed" /\ reason' = "disconnected"
  /\ UNCHANGED <<stored, writers, reads, cursor, time, overwritten>>

\* A repository call raises: the in-memory one iterates dictionaries that other
\* threads insert into, the other one may lose its connection.
ReadRaises ==
  /\ pc \in {"poll", "project", "steps", "approvals"}
  /\ pc' = "closed" /\ reason' = "error"
  /\ UNCHANGED <<stored, writers, reads, cursor, output, time, overwritten>>

(***************************************************************************)
(* The specification.                                                      *)
(***************************************************************************)
\* A stream of an execution that was created, perhaps by a replay.
Init ==
  /\ \E rows \in {<<>>, <<"replay_created">>} :
       record = [status |-> "created", timeline |-> rows]
  /\ step = "absent" /\ approvals = 0
  /\ outcome \in {"completed", "failed", "awaiting_approval"}
  /\ op = 1 /\ copy = None
  /\ approver = "idle" /\ approverCopy = None
  /\ cancelCopy = None /\ cancels = 0
  /\ pc = "poll" /\ ex = None /\ projection = [timeline |-> <<>>, step |-> "absent"]
  /\ cursor = [status |-> "none", timeline |-> 0, step |-> "absent", approvals |-> 0,
               sequence |-> 0]
  /\ batch = <<>> /\ sent = <<>>
  /\ clock = 0 /\ lastHeartbeat = 0
  /\ reason = "none"
  /\ overwritten = FALSE

StreamNext == Poll \/ Project \/ ProjectSteps \/ Diff \/ Send \/ Sleep

DriverNext == DriverRead \/ DriverWrite \/ DriverStep

ApproverNext == ApproverReads \/ ApproverWrites

Closed == pc = "closed" /\ op > Len(Program) /\ UNCHANGED vars

Next ==
  \/ StreamNext \/ Disconnect \/ ReadRaises
  \/ DriverNext \/ ApproverNext \/ CancelReads \/ CancelWrites \/ Closed

Spec == Init /\ [][Next]_vars

\* The event loop runs the stream, whatever the writers do.
FairSpec == Spec /\ WF_vars(StreamNext)

(***************************************************************************)
(* Properties.                                                             *)
(***************************************************************************)
Rows == Statuses \cup {"replay_created", "approval", "cancel"}
StepStatuses == {"absent", "running", "succeeded"}
Copies == [status : Statuses, timeline : Seq(Rows)] \cup {None}
EventTypes ==
  {"execution_updated", "approval_required", "execution_completed", "execution_failed",
   "execution_cancelled", "trace_event", "replay_created", "step_updated"}
Events == [type : EventTypes, of : Rows \cup StepStatuses, sequence : Nat]

\* Type correctness.
TypeOK ==
  /\ record \in [status : Statuses, timeline : Seq(Rows)]
  /\ step \in StepStatuses /\ approvals \in Nat
  /\ {copy, approverCopy, cancelCopy, ex} \subseteq Copies
  /\ outcome \in {"completed", "failed", "awaiting_approval"}
  /\ op \in 1 .. 5 /\ approver \in {"idle", "saved", "done"}
  /\ pc \in {"poll", "project", "steps", "approvals", "send", "sleep", "closed"}
  /\ reason \in {"none", "terminal", "timeout", "disconnected", "error"}
  /\ pc = "closed" <=> reason # "none"
  /\ projection \in [timeline : Seq(Rows), step : StepStatuses]
  /\ cursor \in [status : Statuses \cup {"none"}, timeline : Nat, step : StepStatuses,
                approvals : Nat, sequence : Nat]
  /\ batch \in Seq(Events) /\ sent \in Seq(Events)
  /\ clock \in 0 .. MaxDuration + 1 /\ lastHeartbeat \in clock - HeartbeatEvery .. clock
  /\ cancels \in 0 .. MaxCancels /\ overwritten \in BOOLEAN

\* One stream says at most once that its execution is over, with the status it ends
\* for, although a stale copy may take a terminal status back and the driver set
\* another one; only a client that left may have heard it without the stream ending
\* for it.  And the numbers of its events have no gap.
Verdicts(events) == {i \in DOMAIN events : IsTerminalEvent(events[i])}

OneVerdict ==
  /\ \A i \in DOMAIN sent : sent[i].sequence = i
  /\ \A i, j \in Verdicts(sent) : i = j
  /\ reason = "terminal" => \E i \in Verdicts(sent) : sent[i].of = ex.status
  /\ Verdicts(sent) # {} => reason \in {"terminal", "disconnected"}

\* As long as no stale copy has taken rows back, the rows the client has are the
\* first rows of the timeline, in order and each once, wherever the stream ended:
\* the n-th row it was sent is the timeline's n-th.
IsRow(event) == event.type = "trace_event"
RowsAmong(events, i) == Cardinality({j \in 1 .. i : IsRow(events[j])})

FirstRows(events, timeline) ==
  \A i \in DOMAIN events : IsRow(events[i]) =>
    LET n == RowsAmong(events, i)
    IN  n <= Len(timeline) /\ events[i].of = timeline[n]

RowsInOrder == ~ overwritten => FirstRows(sent, record.timeline)

\* A stream that ended at a terminal status has told its client every row written
\* up to that status; and when nobody cancelled, everything that was stored before
\* it: the step's last status and that an approval was recorded.
AllRows(timeline, events) ==
  \A n \in DOMAIN timeline : \E i \in DOMAIN events :
    IsRow(events[i]) /\ RowsAmong(events, i) = n /\ events[i].of = timeline[n]

TerminalIsComplete ==
  reason = "terminal" =>
    /\ ~ overwritten => AllRows(ex.timeline, sent)
    /\ ex.status # "cancelled" /\ cancels = 0 =>
         /\ \E i \in DOMAIN sent : sent[i] = [type |-> "step_updated", of |-> "succeeded",
                                           sequence |-> i]
         /\ approvals > 0 => \E i \in DOMAIN sent :
              sent[i] = [type |-> "execution_updated", of |-> "approval", sequence |-> i]

\* What the writers and the stream hold at each point: a copy is held only where the
\* next write needs it, and no poll starts after the time limit.
HoldingInv ==
  /\ copy # None => op \in {1, 4}
  /\ approver = "saved" => approverCopy # None
  /\ cancelCopy # None => cancels < MaxCancels
  /\ pc \in {"project", "steps", "approvals", "send", "sleep"} => ex # None /\ clock <= MaxDuration
  /\ pc = "sleep" => clock - lastHeartbeat < HeartbeatEvery

\* Why OneVerdict holds: an open stream has told no verdict, the batch it is about to
\* send has one just when the execution it read is over, as its second event, and that
\* batch closes it.  So the event the code would add for itself is never needed.
VerdictInv ==
  /\ OneVerdict
  /\ reason = "terminal" => pc = "closed" /\ ex.status \in Terminal
  /\ pc # "send" => batch = <<>>
  /\ pc # "closed" => /\ Verdicts(sent) = {}
                     /\ cursor.sequence = Len(sent) + Len(batch)
                     /\ \A i \in DOMAIN batch : batch[i].sequence = Len(sent) + i
  /\ pc \notin {"send", "closed"} => cursor.status \notin Terminal
  /\ pc = "send" =>
       /\ cursor.status = ex.status
       /\ \A i \in Verdicts(batch) : i = 2 /\ ex.status \in Terminal /\ batch[i].of = ex.status
       /\ ex.status \in Terminal => Verdicts(batch) # {}

\* Why RowsInOrder and the first half of TerminalIsComplete hold: as long as no rows
\* were taken back, every read is a first part of the timeline, and what an open stream
\* has sent, with its batch, tells the rows up to its cursor.
TellsRows(events, timeline, from, to) ==
  /\ RowsAmong(events, Len(events)) = to - from
  /\ \A i \in DOMAIN events : IsRow(events[i]) =>
       LET n == from + RowsAmong(events, i)
       IN  n \in from + 1 .. to /\ events[i].of = timeline[n]
  /\ \A n \in from + 1 .. to : \E i \in DOMAIN events :
       IsRow(events[i]) /\ from + RowsAmong(events, i) = n

RowsInv ==
  ~ overwritten =>
    /\ FirstRows(sent, record.timeline)
    /\ IsPrefix(ex.timeline, record.timeline) /\ IsPrefix(projection.timeline, record.timeline)
    /\ cursor.timeline <= Len(record.timeline)
    /\ pc # "closed" => TellsRows(sent \o batch, record.timeline, 0, cursor.timeline)
    /\ pc \in {"steps", "approvals"} => /\ cursor.timeline <= Len(projection.timeline)
                                       /\ Len(ex.timeline) <= Len(projection.timeline)
    /\ pc = "send" => Len(ex.timeline) <= cursor.timeline
    /\ reason = "terminal" => AllRows(ex.timeline, sent)

\* Why its second half holds: until somebody cancels, the record's status says how far
\* the driver and the approver are, and nothing is stored after a final one;
StoredInv ==
  cancels = 0 =>
    /\ op \in 1 .. 4 => record.status \notin Terminal \cup {"awaiting_approval"}
                        /\ approver = "idle"
    /\ op \in {4, 5} => step = "succeeded"
    /\ approver = "idle" => approvals = 0
    /\ approver = "saved" => record.status = "awaiting_approval"

\* so what the stream reads after a final status is final too, and it has told it.
Told(events, type, of) == \E i \in DOMAIN events : events[i].type = type /\ events[i].of = of

ToldInv ==
  LET ended == cancels = 0 /\ ex.status \in {"completed", "failed"}
      tells == Told(sent, "step_updated", "succeeded")
                 /\ (approvals > 0 => Told(sent, "execution_updated", "approval"))
  IN  /\ ended => op = 5 /\ approver # "saved" /\ record.status \in {"completed", "failed"}
      /\ ended /\ pc \in {"approvals", "send"} => projection.step = "succeeded"
      /\ pc # "closed" =>
           /\ cursor.step # "absent" => Told(sent \o batch, "step_updated", cursor.step)
           /\ cursor.approvals > 0 => Told(sent \o batch, "execution_updated", "approval")
      /\ ended /\ pc = "send" => cursor.step = "succeeded" /\ approvals <= cursor.approvals
      /\ ended /\ reason = "terminal" => tells

\* A stream ends: at the latest at its time limit, whatever the writers do.
StreamEnds == <>(pc = "closed")
=============================================================================
