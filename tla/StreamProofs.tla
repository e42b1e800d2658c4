------------------------------ MODULE StreamProofs ------------------------------
(***************************************************************************)
(* Proofs about Stream: the types, and three invariants, each with what    *)
(* makes it inductive.  VerdictInv gives OneVerdict; RowsInv, by what the  *)
(* loop over the timeline computes for every length, gives RowsInOrder;    *)
(* StoredInv and ToldInv, with them, give TerminalIsComplete.              *)
(***************************************************************************)
EXTENDS Stream, InductionLemmas, SequenceTheorems, FiniteSetTheorems, TLAPS

TypeInv == TypeOK /\ HoldingInv

LEMMA ProgramShape ==
  /\ Len(Program) = 4
  /\ Program[1].kind = "status" /\ Program[1].to = "executing"
  /\ Program[2].kind = "step" /\ Program[2].to = "running"
  /\ Program[3].kind = "step" /\ Program[3].to = "succeeded"
  /\ Program[4].kind = "status" /\ Program[4].to = outcome
  BY DEF Program

LEMMA NoneIsNoRecord ==
  /\ None.status = "none" /\ None.timeline = <<>>
  /\ None \notin [status : Statuses, timeline : Seq(Rows)]
  BY DEF None, Statuses, Terminal

LEMMA InitTypes == Init => TypeInv
  <1> SUFFICES ASSUME Init PROVE TypeInv
    OBVIOUS
  <1>1. record \in [status : Statuses, timeline : Seq(Rows)]
    <2>1. <<>> \in Seq(Rows) /\ <<"replay_created">> \in Seq(Rows)
      BY DEF Rows
    <2>2. PICK rows \in {<<>>, <<"replay_created">>} : record = [status |-> "created", timeline |-> rows]
      BY DEF Init
    <2>3. rows \in Seq(Rows)
      BY <2>1, <2>2
    <2>4. "created" \in Statuses
      BY DEF Statuses
    <2>5. QED BY <2>2, <2>3, <2>4
  <1>2. <<>> \in Seq(Rows) /\ <<>> \in Seq(Events)
    OBVIOUS
  <1>3. TypeOK
    <2>1. /\ projection \in [timeline : Seq(Rows), step : StepStatuses]
          /\ cursor \in [status : Statuses \cup {"none"}, timeline : Nat, step : StepStatuses,
                        approvals : Nat, sequence : Nat]
          /\ batch \in Seq(Events) /\ sent \in Seq(Events)
      BY <1>2 DEF Init, StepStatuses
    <2>2. {copy, approverCopy, cancelCopy, ex} \subseteq Copies
      BY DEF Init, Copies
    <2>3. /\ clock \in 0 .. MaxDuration + 1 /\ lastHeartbeat \in clock - HeartbeatEvery .. clock
          /\ cancels \in 0 .. MaxCancels
      BY TimeAssumption, BoundAssumption DEF Init
    <2>4. /\ step \in StepStatuses /\ approvals \in Nat
          /\ outcome \in {"completed", "failed", "awaiting_approval"}
          /\ op \in 1 .. 5 /\ approver \in {"idle", "saved", "done"}
          /\ pc = "poll" /\ reason = "none"
      BY DEF Init, StepStatuses
    <2>5. overwritten \in BOOLEAN
      BY DEF Init
    <2>6. QED BY <1>1, <2>1, <2>2, <2>3, <2>4, <2>5 DEF TypeOK
  <1>4. HoldingInv
    BY DEF Init, HoldingInv
  <1>5. QED BY <1>3, <1>4 DEF TypeInv

LEMMA WrittenType ==
  ASSUME NEW held \in Copies, held # None, NEW status \in Statuses, NEW row \in Rows
  PROVE  Written(held, status, row) \in [status : Statuses, timeline : Seq(Rows)]
  BY DEF Written, Copies

LEMMA DriverReadTypes == TypeInv /\ DriverRead => TypeInv'
  <1> SUFFICES ASSUME TypeInv, DriverRead PROVE TypeInv'
    OBVIOUS
  <1>1. op \in {1, 4}
    BY ProgramShape DEF TypeInv, TypeOK, DriverRead
  <1>2. op' \in {op, 5} /\ copy' \in {copy, record} /\ (op' = 5 => copy' = None \/ op = 5)
    BY ProgramShape DEF DriverRead
  <1>3. QED
    BY <1>1, <1>2 DEF TypeInv, TypeOK, HoldingInv, DriverRead, Copies, stored, reads, output, time

LEMMA DriverWriteTypes == TypeInv /\ DriverWrite => TypeInv'
  <1> SUFFICES ASSUME TypeInv, DriverWrite PROVE TypeInv'
    OBVIOUS
  <1>1. op \in {1, 4} /\ copy # None /\ copy \in Copies
    BY DEF TypeInv, TypeOK, HoldingInv, DriverWrite
  <1>2. Program[op].to \in Statuses /\ Program[op].to \in Rows
    BY <1>1, ProgramShape DEF TypeInv, TypeOK, Statuses, Rows, Terminal
  <1>3. record' \in [status : Statuses, timeline : Seq(Rows)]
    BY <1>1, <1>2, WrittenType DEF DriverWrite
  <1>4. /\ copy' = None /\ op' \in {2, 5} /\ overwritten' \in BOOLEAN
        /\ UNCHANGED <<step, approvals, outcome, approver, approverCopy, cancelCopy, cancels, pc, ex,
                       projection, cursor, batch, sent, clock, lastHeartbeat, reason>>
    BY <1>1 DEF TypeInv, TypeOK, DriverWrite, Overwrites, reads, output, time
  <1>5. TypeOK'
    BY <1>3, <1>4 DEF TypeInv, TypeOK, Copies
  <1>6. HoldingInv'
    BY <1>4 DEF TypeInv, HoldingInv
  <1>7. QED BY <1>5, <1>6 DEF TypeInv

LEMMA DriverStepTypes == TypeInv /\ DriverStep => TypeInv'
  <1> SUFFICES ASSUME TypeInv, DriverStep PROVE TypeInv'
    OBVIOUS
  <1>1. op \in {2, 3} /\ step' \in StepStatuses /\ op' = op + 1
    BY ProgramShape DEF TypeInv, TypeOK, DriverStep, StepStatuses
  <1>2. QED
    BY <1>1 DEF TypeInv, TypeOK, HoldingInv, DriverStep, Copies, reads, output, time

LEMMA ApproverReadsTypes == TypeInv /\ ApproverReads => TypeInv'
  BY NoneIsNoRecord DEF TypeInv, TypeOK, HoldingInv, ApproverReads, Copies, reads, output, time

LEMMA ApproverWritesTypes == TypeInv /\ ApproverWrites => TypeInv'
  <1> SUFFICES ASSUME TypeInv, ApproverWrites PROVE TypeInv'
    OBVIOUS
  <1>1. approverCopy # None /\ approverCopy \in Copies /\ "approval" \in Rows
    BY DEF TypeInv, TypeOK, HoldingInv, ApproverWrites, Rows
  <1>2. record' \in [status : Statuses, timeline : Seq(Rows)] /\ overwritten' \in BOOLEAN
    <2>1. {"completed", "failed"} \subseteq Statuses
      BY DEF Statuses, Terminal
    <2>2. PICK status \in {"completed", "failed"} :
            record' = Written(approverCopy, status, "approval")
      BY DEF ApproverWrites
    <2>3. overwritten' \in BOOLEAN
      BY DEF ApproverWrites, Overwrites, TypeInv, TypeOK
    <2>4. QED
      BY <1>1, <2>1, <2>2, <2>3, WrittenType
  <1>3. QED
    BY <1>1, <1>2 DEF TypeInv, TypeOK, HoldingInv, ApproverWrites, Copies, reads, output, time

LEMMA CancelReadsTypes == TypeInv /\ CancelReads => TypeInv'
  BY NoneIsNoRecord DEF TypeInv, TypeOK, HoldingInv, CancelReads, Copies, stored, reads, output, time

LEMMA CancelWritesTypes == TypeInv /\ CancelWrites => TypeInv'
  <1> SUFFICES ASSUME TypeInv, CancelWrites PROVE TypeInv'
    OBVIOUS
  <1>1. cancelCopy # None /\ cancelCopy \in Copies /\ "cancel" \in Rows /\ "cancelled" \in Statuses
    BY DEF TypeInv, TypeOK, HoldingInv, CancelWrites, Rows, Statuses, Terminal
  <1>2. record' \in [status : Statuses, timeline : Seq(Rows)] /\ overwritten' \in BOOLEAN
    BY <1>1, WrittenType DEF CancelWrites, Overwrites, TypeInv, TypeOK
  <1>3. QED
    BY <1>1, <1>2, BoundAssumption DEF TypeInv, TypeOK, HoldingInv, CancelWrites, Copies, reads, output, time

LEMMA PollTypes == TypeInv /\ Poll => TypeInv'
  BY NoneIsNoRecord, TimeAssumption DEF TypeInv, TypeOK, HoldingInv, Poll, Copies, stored, writers, output, time

LEMMA ProjectTypes == TypeInv /\ (Project \/ ProjectSteps) => TypeInv'
  <1> SUFFICES ASSUME TypeInv, Project \/ ProjectSteps PROVE TypeInv'
    OBVIOUS
  <1>1. projection' \in [timeline : Seq(Rows), step : StepStatuses]
    <2>1. CASE Project
      BY <2>1 DEF TypeInv, TypeOK, Project, StepStatuses
    <2>2. CASE ProjectSteps
      BY <2>2 DEF TypeInv, TypeOK, ProjectSteps
    <2>3. QED BY <2>1, <2>2
  <1>2. /\ pc \in {"project", "steps"} /\ pc' \in {"steps", "approvals"}
        /\ UNCHANGED <<record, step, approvals, outcome, op, copy, approver, approverCopy, cancelCopy,
                       cancels, ex, cursor, batch, sent, clock, lastHeartbeat, reason, overwritten>>
    BY DEF Project, ProjectSteps, stored, writers, output, time
  <1>3. TypeOK'
    BY <1>1, <1>2 DEF TypeInv, TypeOK
  <1>4. HoldingInv'
    BY <1>2 DEF TypeInv, HoldingInv
  <1>5. QED BY <1>3, <1>4 DEF TypeInv

LEMMA SleepTypes == TypeInv /\ Sleep => TypeInv'
  <1> SUFFICES ASSUME TypeInv, Sleep PROVE TypeInv'
    OBVIOUS
  <1>1. /\ clock \in 0 .. MaxDuration /\ clock - lastHeartbeat < HeartbeatEvery
        /\ lastHeartbeat \in clock - HeartbeatEvery .. clock
        /\ clock' = clock + 1 /\ lastHeartbeat' = lastHeartbeat
    BY TimeAssumption DEF TypeInv, TypeOK, HoldingInv, Sleep
  <1>2. clock' \in 0 .. MaxDuration + 1 /\ lastHeartbeat' \in clock' - HeartbeatEvery .. clock'
    BY <1>1, TimeAssumption
  <1>3. QED
    BY <1>2 DEF TypeInv, TypeOK, HoldingInv, Sleep, Copies, stored, writers, reads, output, time

LEMMA DisconnectTypes == TypeInv /\ Disconnect => TypeInv'
  <1> SUFFICES ASSUME TypeInv, Disconnect PROVE TypeInv'
    OBVIOUS
  <1>1. batch' \in Seq(Events) /\ sent' \in Seq(Events)
    <2>1. PICK k \in 0 .. Len(batch) : sent' = sent \o SubSeq(batch, 1, k)
      BY DEF Disconnect
    <2>2. SubSeq(batch, 1, k) \in Seq(Events)
      BY SubSeqProperties, LenProperties DEF TypeInv, TypeOK
    <2>3. QED
      BY <2>1, <2>2, ConcatProperties DEF Disconnect, TypeInv, TypeOK
  <1>2. QED
    BY <1>1 DEF TypeInv, TypeOK, HoldingInv, Disconnect, Copies, stored, writers, reads, time

LEMMA ReadRaisesTypes == TypeInv /\ ReadRaises => TypeInv'
  BY DEF TypeInv, TypeOK, HoldingInv, ReadRaises, Copies, stored, writers, reads, output, time

\* What diff_stream_events emits, before it is numbered.
PlainEvents == [type : EventTypes, of : Rows \cup StepStatuses]

\* The kinds of events that tell of a status, row, step or approval.
LEMMA VerdictType ==
  \A status : Verdict(status) \in {"execution_completed", "execution_failed", "execution_cancelled"}
  BY DEF Verdict

LEMMA ShortConcat ==
  ASSUME NEW a, NEW b
  PROVE  <<a>> \o <<b>> = <<a, b>> /\ <<a>> \o <<>> = <<a>>
  <1> DEFINE S == {a, b}
  <1>1. <<a>> \in Seq(S) /\ <<b>> \in Seq(S) /\ <<a, b>> \in Seq(S) /\ <<>> \in Seq(S)
    OBVIOUS
  <1>2. Len(<<a>> \o <<b>>) = 2 /\ (<<a>> \o <<b>>)[1] = a /\ (<<a>> \o <<b>>)[2] = b
          /\ <<a>> \o <<b>> \in Seq(S)
    BY <1>1, ConcatProperties
  <1>3. <<a>> \o <<b>> = <<a, b>>
    <2> DEFINE s == <<a>> \o <<b>>
               t == <<a, b>>
    <2>1. Len(t) = 2 /\ t[1] = a /\ t[2] = b
      OBVIOUS
    <2>2. Len(s) = Len(t) /\ \A i \in 1 .. Len(s) : s[i] = t[i]
      <3> HIDE DEF t
      <3>1. QED BY <1>2, <2>1
    <2>3. s \in Seq(S) /\ t \in Seq(S)
      BY <1>1, <1>2
    <2> HIDE DEF S, s, t
    <2>4. s = t
      BY <2>2, <2>3, SeqEqual
    <2>5. QED BY <2>4 DEF s, t
  <1>4. QED BY <1>1, <1>3, ConcatEmptySeq

LEMMA StatusEventsShape ==
  ASSUME NEW status \in Statuses
  PROVE  /\ status = cursor.status => StatusEvents(status) = <<>>
         /\ status # cursor.status /\ status = "awaiting_approval" =>
              StatusEvents(status) = <<[type |-> "execution_updated", of |-> status],
                                       [type |-> "approval_required", of |-> status]>>
         /\ status # cursor.status /\ status \in Terminal =>
              StatusEvents(status) = <<[type |-> "execution_updated", of |-> status],
                                       [type |-> Verdict(status), of |-> status]>>
         /\ status # cursor.status /\ status \notin Terminal \cup {"awaiting_approval"} =>
              StatusEvents(status) = <<[type |-> "execution_updated", of |-> status]>>
  <1>1. CASE status = "awaiting_approval"
    BY <1>1, ShortConcat DEF StatusEvents, Terminal
  <1>2. CASE status \in Terminal
    BY <1>2, ShortConcat DEF StatusEvents, Terminal
  <1>3. CASE status \notin Terminal \cup {"awaiting_approval"}
    BY <1>3, ShortConcat DEF StatusEvents, Terminal
  <1>4. QED BY <1>1, <1>2, <1>3

LEMMA StatusEventsType ==
  ASSUME NEW status \in Statuses
  PROVE  StatusEvents(status) \in Seq(PlainEvents)
  <1>1. /\ [type |-> "execution_updated", of |-> status] \in PlainEvents
        /\ [type |-> "approval_required", of |-> status] \in PlainEvents
        /\ [type |-> Verdict(status), of |-> status] \in PlainEvents
    BY VerdictType DEF PlainEvents, EventTypes, Rows
  <1>2. CASE status = cursor.status
    <2>1. StatusEvents(status) = <<>>
      BY <1>2, StatusEventsShape
    <2>2. QED BY <2>1
  <1>3. CASE status # cursor.status
    <2>1. CASE status = "awaiting_approval"
      <3>1. StatusEvents(status) = <<[type |-> "execution_updated", of |-> status],
                                     [type |-> "approval_required", of |-> status]>>
        BY <1>3, <2>1, StatusEventsShape
      <3>2. QED BY <1>1, <3>1
    <2>2. CASE status \in Terminal
      <3>1. StatusEvents(status) = <<[type |-> "execution_updated", of |-> status],
                                     [type |-> Verdict(status), of |-> status]>>
        BY <1>3, <2>2, StatusEventsShape
      <3>2. QED BY <1>1, <3>1
    <2>3. CASE status \notin Terminal \cup {"awaiting_approval"}
      <3>1. StatusEvents(status) = <<[type |-> "execution_updated", of |-> status]>>
        BY <1>3, <2>3, StatusEventsShape
      <3>2. QED BY <1>1, <3>1
    <2>4. QED BY <2>1, <2>2, <2>3
  <1>4. QED BY <1>2, <1>3

\* What the loop over the timeline emits.
TraceEvents == [type : {"trace_event", "replay_created"}, of : Rows]

LEMMA RowEventsType ==
  ASSUME NEW row \in Rows
  PROVE  RowEvents(row) \in Seq(TraceEvents)
  <1>1. /\ [type |-> "trace_event", of |-> row] \in TraceEvents
        /\ [type |-> "replay_created", of |-> row] \in TraceEvents
    BY DEF TraceEvents
  <1>2. QED BY <1>1 DEF RowEvents

\* The loop over the timeline, turn by turn.
RowsLoopValues(f, timeline, from) ==
  /\ f \in [0 .. Len(timeline) -> Seq(TraceEvents)]
  /\ f[0] = <<>>
  /\ \A n \in 1 .. Len(timeline) :
       f[n] = IF n <= from THEN <<>> ELSE f[n - 1] \o RowEvents(timeline[n])

LEMMA RowsLoop ==
  ASSUME NEW timeline \in Seq(Rows), NEW from \in Nat
  PROVE  \E f : RowsLoopValues(f, timeline, from)
                  /\ EventsOfRows(timeline, from) = f[Len(timeline)]
  <1> DEFINE last == Len(timeline)
             S == Seq(TraceEvents)
             turn == [p \in S \X (1 .. last) |->
                        IF p[2] <= from THEN <<>> ELSE p[1] \o RowEvents(timeline[p[2]])]
             Loop(g) == g = [n \in 0 .. last |->
                               IF n <= from THEN <<>> ELSE g[n - 1] \o RowEvents(timeline[n])]
             h == CHOOSE g : Loop(g)
  <1>1. last \in Nat /\ \A n \in 1 .. last : timeline[n] \in Rows
    BY LenProperties
  <1>2. <<>> \in S
    OBVIOUS
  <1>3. turn \in [S \X (1 .. last) -> S]
    <2>1. ASSUME NEW p \in S \X (1 .. last)
          PROVE  p[1] \o RowEvents(timeline[p[2]]) \in S
      <3>1. p[1] \in S /\ RowEvents(timeline[p[2]]) \in S
        BY <1>1, RowEventsType
      <3>2. QED BY <3>1, ConcatProperties
    <2>2. QED BY <1>2, <2>1
  <1>4. PICK f : LoopValues(f, last, S, <<>>, turn)
    <2> HIDE DEF S, turn, last
    <2>1. QED BY <1>1, <1>2, <1>3, LoopHasValues
  <1>5. \A n \in 1 .. last : f[n] = IF n <= from THEN <<>> ELSE f[n - 1] \o RowEvents(timeline[n])
    <2>1. ASSUME NEW n \in 1 .. last
          PROVE  f[n] = IF n <= from THEN <<>> ELSE f[n - 1] \o RowEvents(timeline[n])
      <3>1. n - 1 \in 0 .. last /\ f[n - 1] \in S
        <4>1. n - 1 \in 0 .. last
          BY <1>1
        <4> HIDE DEF turn, S, last
        <4>2. f \in [0 .. last -> S]
          BY <1>4 DEF LoopValues
        <4>3. QED BY <4>1, <4>2
      <3>2. f[n] = turn[<<f[n - 1], n>>]
        <4> HIDE DEF turn, S, last
        <4>1. QED BY <1>4 DEF LoopValues
      <3>3. turn[<<f[n - 1], n>>] = IF n <= from THEN <<>> ELSE f[n - 1] \o RowEvents(timeline[n])
        BY <3>1
      <3>4. QED BY <3>2, <3>3
    <2>2. QED BY <2>1
  <1>6. Loop(f)
    <2>1. \A n \in 0 .. last : n \in 1 .. last \/ (n = 0 /\ n <= from)
      BY <1>1
    <2>2. f \in [0 .. last -> S] /\ f[0] = <<>>
      BY <1>4 DEF LoopValues
    <2>3. \A n \in 0 .. last :
            f[n] = IF n <= from THEN <<>> ELSE f[n - 1] \o RowEvents(timeline[n])
      BY <1>5, <2>1, <2>2
    <2> HIDE DEF last, S
    <2>4. QED BY <2>2, <2>3
  <1>7. Loop(h)
    BY <1>6
  <1>8. EventsOfRows(timeline, from) = h[last]
    BY DEF EventsOfRows
  <1>9. \A n \in 0 .. last : h[n] = f[n]
    <2> DEFINE T == {n \in 0 .. last : h[n] = f[n]}
    <2> HIDE DEF h
    <2>1. 0 \in T
      BY <1>1, <1>4, <1>7 DEF LoopValues
    <2>2. ASSUME NEW n \in 0 .. last - 1, n \in T PROVE n + 1 \in T
      <3>1. n + 1 \in 1 .. last /\ n + 1 \in 0 .. last /\ n + 1 - 1 = n
        BY <1>1
      <3>2. h[n + 1] = IF n + 1 <= from THEN <<>> ELSE h[n] \o RowEvents(timeline[n + 1])
        <4>1. \A m \in 0 .. last :
                h[m] = IF m <= from THEN <<>> ELSE h[m - 1] \o RowEvents(timeline[m])
          BY <1>7
        <4>2. QED BY <3>1, <4>1
      <3>3. f[n + 1] = IF n + 1 <= from THEN <<>> ELSE f[n] \o RowEvents(timeline[n + 1])
        BY <1>5, <3>1
      <3>4. QED BY <2>2, <3>1, <3>2, <3>3
    <2>3. \A n \in 0 .. last : n \in T
      <3> HIDE DEF T
      <3>1. QED BY <1>1, <2>1, <2>2, TurnsBySets
    <2>4. QED BY <2>3
  <1>10. EventsOfRows(timeline, from) = f[last]
    <2> HIDE DEF h, last
    <2>1. QED BY <1>1, <1>8, <1>9
  <1>11. QED BY <1>4, <1>5, <1>10 DEF LoopValues, RowsLoopValues

LEMMA TimelineEventsType ==
  ASSUME NEW timeline \in Seq(Rows), cursor.timeline \in Nat
  PROVE  /\ TimelineEvents(timeline) \in Seq(TraceEvents)
         /\ TimelineEvents(timeline) \in Seq(PlainEvents)
  <1>1. TimelineEvents(timeline) \in Seq(TraceEvents)
    BY RowsLoop, LenProperties DEF TimelineEvents, RowsLoopValues
  <1>2. TraceEvents \subseteq PlainEvents
    BY DEF TraceEvents, PlainEvents, EventTypes
  <1>3. QED BY <1>1, <1>2, SeqMonotonic

LEMMA StepEventsType ==
  ASSUME NEW status \in StepStatuses
  PROVE  StepEvents(status) \in Seq(PlainEvents)
  <1>1. [type |-> "step_updated", of |-> status] \in PlainEvents
    BY DEF PlainEvents, EventTypes
  <1>2. QED BY <1>1 DEF StepEvents

LEMMA ApprovalEventsType == \A count : ApprovalEvents(count) \in Seq(PlainEvents)
  <1>1. [type |-> "execution_updated", of |-> "approval"] \in PlainEvents
    BY DEF PlainEvents, EventTypes, Rows
  <1>2. QED BY <1>1 DEF ApprovalEvents

LEMMA NumberedType ==
  ASSUME NEW events \in Seq(PlainEvents), cursor.sequence \in Nat
  PROVE  /\ Numbered(events) \in Seq(Events)
         /\ Len(Numbered(events)) = Len(events)
         /\ \A i \in 1 .. Len(events) :
              Numbered(events)[i] = [type |-> events[i].type, of |-> events[i].of,
                                     sequence |-> cursor.sequence + i]
  <1>1. DOMAIN events = 1 .. Len(events) /\ Len(events) \in Nat
    BY LenProperties
  <1>2. \A i \in 1 .. Len(events) : events[i] \in PlainEvents
    BY LenProperties
  <1>3. \A i \in 1 .. Len(events) :
          [type |-> events[i].type, of |-> events[i].of, sequence |-> cursor.sequence + i] \in Events
    BY <1>1, <1>2 DEF PlainEvents, Events
  <1>4. QED BY <1>1, <1>3 DEF Numbered

\* The events a poll found, in the order they were emitted.
Emitted == StatusEvents(ex.status) \o TimelineEvents(projection.timeline)
             \o StepEvents(projection.step) \o ApprovalEvents(approvals)

LEMMA EmittedType ==
  TypeInv /\ pc = "approvals" => Emitted \in Seq(PlainEvents) /\ ex.status \in Statuses
  <1> SUFFICES ASSUME TypeInv, pc = "approvals"
               PROVE  Emitted \in Seq(PlainEvents) /\ ex.status \in Statuses
    OBVIOUS
  <1>1. ex.status \in Statuses /\ projection.timeline \in Seq(Rows)
          /\ projection.step \in StepStatuses /\ cursor.timeline \in Nat
    BY DEF TypeInv, TypeOK, HoldingInv, Copies
  <1>2. /\ StatusEvents(ex.status) \in Seq(PlainEvents)
        /\ TimelineEvents(projection.timeline) \in Seq(PlainEvents)
        /\ StepEvents(projection.step) \in Seq(PlainEvents)
        /\ ApprovalEvents(approvals) \in Seq(PlainEvents)
    BY <1>1, StatusEventsType, TimelineEventsType, StepEventsType, ApprovalEventsType
  <1>3. QED BY <1>1, <1>2, ConcatProperties DEF Emitted

LEMMA DiffTypes == TypeInv /\ Diff => TypeInv'
  <1> SUFFICES ASSUME TypeInv, Diff PROVE TypeInv'
    OBVIOUS
  <1>1. Emitted \in Seq(PlainEvents) /\ ex.status \in Statuses
    BY EmittedType DEF Diff
  <1>2. cursor.sequence \in Nat /\ Len(projection.timeline) \in Nat /\ Len(Emitted) \in Nat
    BY <1>1, LenProperties DEF TypeInv, TypeOK
  <1>3. batch' \in Seq(Events)
    BY <1>1, <1>2, NumberedType DEF Diff, Emitted
  <1>4. cursor' \in [status : Statuses \cup {"none"}, timeline : Nat, step : StepStatuses,
                    approvals : Nat, sequence : Nat]
    <2>1. /\ cursor'.status = ex.status /\ cursor'.timeline = Len(projection.timeline)
          /\ cursor'.step \in {cursor.step, projection.step}
          /\ cursor'.approvals \in {cursor.approvals, approvals}
          /\ cursor'.sequence = cursor.sequence + Len(Emitted)
          /\ cursor' = [status |-> cursor'.status, timeline |-> cursor'.timeline,
                        step |-> cursor'.step, approvals |-> cursor'.approvals,
                        sequence |-> cursor'.sequence]
      BY DEF Diff, Emitted
    <2>2. cursor.step \in StepStatuses /\ projection.step \in StepStatuses
            /\ cursor.approvals \in Nat /\ approvals \in Nat
      BY DEF TypeInv, TypeOK
    <2>3. QED BY <1>1, <1>2, <2>1, <2>2
  <1>5. QED
    BY <1>3, <1>4 DEF TypeInv, TypeOK, HoldingInv, Diff, Copies, stored, writers, reads, time

LEMMA SendTypes == TypeInv /\ Send => TypeInv'
  <1> SUFFICES ASSUME TypeInv, Send PROVE TypeInv'
    OBVIOUS
  <1>1. sent \o batch \in Seq(Events)
    BY ConcatProperties DEF TypeInv, TypeOK
  <1>2. ex.status \in Statuses
    BY DEF TypeInv, TypeOK, HoldingInv, Send, Copies
  <1>3. [type |-> Verdict(ex.status), of |-> ex.status, sequence |-> cursor.sequence + 1] \in Events
    <2>1. Verdict(ex.status) \in EventTypes
      BY VerdictType DEF EventTypes
    <2>2. ex.status \in Rows \cup StepStatuses /\ cursor.sequence + 1 \in Nat
      BY <1>2 DEF TypeInv, TypeOK, Rows
    <2>3. QED BY <2>1, <2>2 DEF Events
  <1>4. sent' \in Seq(Events)
    BY <1>1, <1>3, AppendProperties DEF Send
  <1>5. batch' \in Seq(Events) /\ batch' = <<>>
    BY DEF Send
  <1>6. QED
    BY <1>4, <1>5, TimeAssumption DEF TypeInv, TypeOK, HoldingInv, Send, Copies, stored, writers, reads

LEMMA Typing == Spec => []TypeInv
  <1>1. TypeInv /\ UNCHANGED vars => TypeInv'
    BY DEF TypeInv, TypeOK, HoldingInv, vars, stored, writers, reads, output, time
  <1>2. TypeInv /\ [Next]_vars => TypeInv'
    BY <1>1, DriverReadTypes, DriverWriteTypes, DriverStepTypes, ApproverReadsTypes,
       ApproverWritesTypes, CancelReadsTypes, CancelWritesTypes, PollTypes, ProjectTypes,
       DiffTypes, SendTypes, SleepTypes, DisconnectTypes, ReadRaisesTypes
       DEF Next, StreamNext, DriverNext, ApproverNext, Closed
  <1>3. QED
    BY <1>2, InitTypes, PTL DEF Spec

(***************************************************************************)
(* One verdict.                                                            *)
(***************************************************************************)
LEMMA OnlyStatusEventsAreVerdicts ==
  /\ \A event \in TraceEvents : ~ IsTerminalEvent(event)
  /\ \A status, i : i \in 1 .. Len(StepEvents(status)) => ~ IsTerminalEvent(StepEvents(status)[i])
  /\ \A count, i : i \in 1 .. Len(ApprovalEvents(count)) => ~ IsTerminalEvent(ApprovalEvents(count)[i])
  <1>1. \A event \in TraceEvents : ~ IsTerminalEvent(event)
    BY DEF TraceEvents, IsTerminalEvent
  <1>2. ASSUME NEW status, NEW i \in 1 .. Len(StepEvents(status))
        PROVE  ~ IsTerminalEvent(StepEvents(status)[i])
    BY DEF StepEvents, IsTerminalEvent
  <1>3. ASSUME NEW count, NEW i \in 1 .. Len(ApprovalEvents(count))
        PROVE  ~ IsTerminalEvent(ApprovalEvents(count)[i])
    BY DEF ApprovalEvents, IsTerminalEvent
  <1>4. QED BY <1>1, <1>2, <1>3

LEMMA ConcatElements ==
  ASSUME NEW S, NEW s \in Seq(S), NEW t \in Seq(S), NEW i \in 1 .. Len(s \o t)
  PROVE  \/ i \in 1 .. Len(s) /\ (s \o t)[i] = s[i]
         \/ i > Len(s) /\ \E j \in 1 .. Len(t) : j = i - Len(s) /\ (s \o t)[i] = t[j]
  <1>1. Len(s) \in Nat /\ Len(t) \in Nat
    BY LenProperties
  <1>2. QED BY <1>1, ConcatProperties

\* Where the elements of a concatenation come from.
Joins(u, s, t) ==
  \A i \in 1 .. Len(u) :
    \/ i \in 1 .. Len(s) /\ u[i] = s[i]
    \/ i > Len(s) /\ \E j \in 1 .. Len(t) : u[i] = t[j]

LEMMA ConcatParts ==
  ASSUME NEW S, NEW s \in Seq(S), NEW t \in Seq(S)
  PROVE  Joins(s \o t, s, t)
  BY ConcatElements DEF Joins

JoinsFour(all, s, t, u, v) ==
  \A i \in 1 .. Len(all) :
    \/ i \in 1 .. Len(s) /\ all[i] = s[i]
    \/ /\ i > Len(s)
       /\ \/ \E j \in 1 .. Len(t) : all[i] = t[j]
          \/ \E j \in 1 .. Len(u) : all[i] = u[j]
          \/ \E j \in 1 .. Len(v) : all[i] = v[j]

LEMMA FourParts ==
  ASSUME NEW S, NEW s \in Seq(S), NEW t \in Seq(S), NEW u \in Seq(S), NEW v \in Seq(S),
         NEW all, all = s \o t \o u \o v
  PROVE  /\ Len(s) <= Len(all)
         /\ JoinsFour(all, s, t, u, v)
  <1> DEFINE st == s \o t
             stu == st \o u
  <1>0. stu = st \o u /\ all = stu \o v
    OBVIOUS
  <1>1. st \in Seq(S) /\ Len(st) = Len(s) + Len(t)
    BY ConcatProperties
  <1>2. Joins(st, s, t)
    BY ConcatParts
  <1>3. stu \in Seq(S) /\ Len(stu) = Len(st) + Len(u)
    <2> HIDE DEF st
    <2>1. QED BY <1>1, ConcatProperties
  <1>4. all \in Seq(S) /\ Len(all) = Len(stu) + Len(v)
    <2> HIDE DEF stu
    <2>1. QED BY <1>0, <1>3, ConcatProperties
  <1> HIDE DEF st, stu
  <1>5. Joins(stu, st, u)
    BY <1>0, <1>1, ConcatParts
  <1>6. Joins(all, stu, v)
    BY <1>0, <1>3, ConcatParts
  <1>7. Len(s) \in Nat /\ Len(t) \in Nat /\ Len(u) \in Nat /\ Len(v) \in Nat
    BY LenProperties
  <1>8. /\ Len(st) \in Nat /\ Len(stu) \in Nat /\ Len(all) \in Nat
        /\ Len(s) <= Len(st) /\ Len(st) <= Len(stu) /\ Len(s) <= Len(all)
    BY <1>1, <1>3, <1>4, <1>7
  <1>9. ASSUME NEW i \in 1 .. Len(all)
        PROVE  \/ i \in 1 .. Len(s) /\ all[i] = s[i]
               \/ /\ i > Len(s)
                  /\ \/ \E j \in 1 .. Len(t) : all[i] = t[j]
                     \/ \E j \in 1 .. Len(u) : all[i] = u[j]
                     \/ \E j \in 1 .. Len(v) : all[i] = v[j]
    <2>0. i \in Nat /\ i >= 1
      BY <1>8
    <2>1. CASE i > Len(stu)
      <3>1. i > Len(s) /\ ~ (i \in 1 .. Len(stu))
        BY <1>7, <1>8, <2>0, <2>1
      <3>2. \E j \in 1 .. Len(v) : all[i] = v[j]
        BY <1>6, <3>1 DEF Joins
      <3>3. QED BY <3>1, <3>2
    <2>2. CASE i <= Len(stu) /\ i > Len(st)
      <3>1. i \in 1 .. Len(stu) /\ i > Len(s) /\ ~ (i > Len(stu)) /\ ~ (i \in 1 .. Len(st))
        BY <1>7, <1>8, <2>0, <2>2
      <3>2. all[i] = stu[i]
        BY <1>6, <3>1 DEF Joins
      <3>3. \E j \in 1 .. Len(u) : stu[i] = u[j]
        BY <1>5, <3>1 DEF Joins
      <3>4. QED BY <3>1, <3>2, <3>3
    <2>3. CASE i <= Len(st)
      <3>1. i \in 1 .. Len(st) /\ i \in 1 .. Len(stu) /\ ~ (i > Len(stu)) /\ ~ (i > Len(st))
        BY <1>7, <1>8, <2>0, <2>3
      <3>2. all[i] = stu[i] /\ stu[i] = st[i]
        BY <1>5, <1>6, <3>1 DEF Joins
      <3>3. \/ i \in 1 .. Len(s) /\ st[i] = s[i]
            \/ i > Len(s) /\ \E j \in 1 .. Len(t) : st[i] = t[j]
        BY <1>2, <3>1 DEF Joins
      <3>4. CASE i \in 1 .. Len(s) /\ st[i] = s[i]
        BY <3>2, <3>4
      <3>5. CASE i > Len(s) /\ \E j \in 1 .. Len(t) : st[i] = t[j]
        <4>1. all[i] = st[i]
          BY <3>2
        <4>2. QED BY <3>5, <4>1
      <3>6. QED BY <3>3, <3>4, <3>5
    <2>4. i > Len(stu) \/ (i <= Len(stu) /\ i > Len(st)) \/ i <= Len(st)
      BY <1>8, <2>0
    <2>5. QED BY <2>1, <2>2, <2>3, <2>4
  <1>10. QED BY <1>8, <1>9 DEF JoinsFour

LEMMA EmittedVerdicts ==
  ASSUME TypeInv, pc = "approvals"
  PROVE  /\ \A i \in 1 .. Len(Emitted) :
              IsTerminalEvent(Emitted[i]) => /\ i <= Len(StatusEvents(ex.status))
                                             /\ Emitted[i] = StatusEvents(ex.status)[i]
         /\ Len(StatusEvents(ex.status)) <= Len(Emitted)
         /\ \A i \in 1 .. Len(StatusEvents(ex.status)) : Emitted[i] = StatusEvents(ex.status)[i]
  <1> DEFINE A == StatusEvents(ex.status)
             B == TimelineEvents(projection.timeline)
             C == StepEvents(projection.step)
             D == ApprovalEvents(approvals)
  <1>1. ex.status \in Statuses /\ projection.timeline \in Seq(Rows)
          /\ projection.step \in StepStatuses /\ cursor.timeline \in Nat
    BY DEF TypeInv, TypeOK, HoldingInv, Copies
  <1>2. /\ A \in Seq(PlainEvents) /\ B \in Seq(PlainEvents)
        /\ C \in Seq(PlainEvents) /\ D \in Seq(PlainEvents)
    BY <1>1, StatusEventsType, TimelineEventsType, StepEventsType, ApprovalEventsType
  <1>3. \A j \in 1 .. Len(B) : ~ IsTerminalEvent(B[j])
    <2>1. B \in Seq(TraceEvents)
      BY <1>1, TimelineEventsType
    <2>2. \A j \in 1 .. Len(B) : B[j] \in TraceEvents
      BY <2>1, ElementOfSeq
    <2>3. QED BY <2>2, OnlyStatusEventsAreVerdicts
  <1>4. /\ \A j \in 1 .. Len(C) : ~ IsTerminalEvent(C[j])
        /\ \A j \in 1 .. Len(D) : ~ IsTerminalEvent(D[j])
    BY OnlyStatusEventsAreVerdicts
  <1>5. Emitted = A \o B \o C \o D
    BY DEF Emitted
  <1> HIDE DEF A, B, C, D
  <1>6. /\ Len(A) <= Len(Emitted)
        /\ JoinsFour(Emitted, A, B, C, D)
    BY <1>2, <1>5, FourParts
  <1>7. Len(A) \in Nat /\ Len(Emitted) \in Nat
    <2>1. Emitted \in Seq(PlainEvents)
      BY <1>1, EmittedType
    <2>2. QED BY <1>2, <2>1, LenProperties
  <1>8. \A i \in 1 .. Len(Emitted) :
           IsTerminalEvent(Emitted[i]) => i \in 1 .. Len(A) /\ Emitted[i] = A[i]
    BY <1>3, <1>4, <1>6 DEF JoinsFour
  <1>9. \A i \in 1 .. Len(A) : Emitted[i] = A[i]
    <2> TAKE i \in 1 .. Len(A)
    <2>1. i \in 1 .. Len(Emitted) /\ ~ (i > Len(A))
      BY <1>6, <1>7
    <2>2. QED BY <1>6, <2>1 DEF JoinsFour
  <1>10. \A i \in 1 .. Len(Emitted) : i \in 1 .. Len(A) => i <= Len(A)
    BY <1>7
  <1>11. QED BY <1>6, <1>8, <1>9, <1>10 DEF A

LEMMA StatusVerdicts ==
  ASSUME NEW status \in Statuses, cursor.status \notin Terminal
  PROVE  /\ \A i \in 1 .. Len(StatusEvents(status)) :
              IsTerminalEvent(StatusEvents(status)[i]) =>
                i = 2 /\ status \in Terminal /\ StatusEvents(status)[i].of = status
         /\ status \in Terminal => /\ Len(StatusEvents(status)) = 2
                                   /\ IsTerminalEvent(StatusEvents(status)[2])
  <1>1. CASE status = cursor.status
    <2>1. StatusEvents(status) = <<>> /\ status \notin Terminal
      BY <1>1, StatusEventsShape
    <2>2. QED BY <2>1
  <1>2. CASE status # cursor.status
    <2>1. CASE status = "awaiting_approval"
      <3>1. StatusEvents(status) = <<[type |-> "execution_updated", of |-> status],
                                     [type |-> "approval_required", of |-> status]>>
        BY <1>2, <2>1, StatusEventsShape
      <3>2. status \notin Terminal
        BY <2>1 DEF Terminal
      <3>3. QED BY <3>1, <3>2 DEF IsTerminalEvent
    <2>2. CASE status \in Terminal
      <3>1. StatusEvents(status) = <<[type |-> "execution_updated", of |-> status],
                                     [type |-> Verdict(status), of |-> status]>>
        BY <1>2, <2>2, StatusEventsShape
      <3>2. Verdict(status) \in {"execution_completed", "execution_failed", "execution_cancelled"}
        BY VerdictType
      <3>3. QED BY <2>2, <3>1, <3>2 DEF IsTerminalEvent
    <2>3. CASE status \notin Terminal \cup {"awaiting_approval"}
      <3>1. StatusEvents(status) = <<[type |-> "execution_updated", of |-> status]>>
        BY <1>2, <2>3, StatusEventsShape
      <3>2. QED BY <2>3, <3>1 DEF IsTerminalEvent
    <2>4. QED BY <2>1, <2>2, <2>3
  <1>3. QED BY <1>1, <1>2

LEMMA InitVerdicts == Init => VerdictInv
  <1> SUFFICES ASSUME Init PROVE VerdictInv
    OBVIOUS
  <1>1. sent = <<>> /\ batch = <<>> /\ pc = "poll" /\ reason = "none"
          /\ cursor.status = "none" /\ cursor.sequence = 0
    BY DEF Init
  <1>2. DOMAIN sent = {} /\ DOMAIN batch = {} /\ Len(sent) = 0 /\ Len(batch) = 0
    BY <1>1
  <1>3. QED
    BY <1>1, <1>2 DEF VerdictInv, OneVerdict, Verdicts, Terminal

\* The steps that leave what the stream has told as it is.
LEMMA VerdictsUntouched ==
  ASSUME VerdictInv, UNCHANGED <<sent, batch, cursor, ex, reason>>,
         pc' = pc \/ ({pc, pc'} \cap {"send", "closed"} = {})
  PROVE  VerdictInv'
  BY DEF VerdictInv, OneVerdict, Verdicts

LEMMA WritersKeepVerdicts ==
  VerdictInv /\ (DriverNext \/ ApproverNext \/ CancelReads \/ CancelWrites) => VerdictInv'
  <1> SUFFICES ASSUME VerdictInv, DriverNext \/ ApproverNext \/ CancelReads \/ CancelWrites
               PROVE  VerdictInv'
    OBVIOUS
  <1>1. UNCHANGED <<sent, batch, cursor, ex, reason, pc>>
    BY DEF DriverNext, DriverRead, DriverWrite, DriverStep, ApproverNext, ApproverReads,
           ApproverWrites, CancelReads, CancelWrites, reads, output
  <1>2. QED BY <1>1, VerdictsUntouched

LEMMA PollKeepsVerdicts == VerdictInv /\ Poll => VerdictInv'
  <1> SUFFICES ASSUME VerdictInv, Poll PROVE VerdictInv'
    OBVIOUS
  <1>1. /\ pc = "poll" /\ pc' \in {"closed", "project"} /\ UNCHANGED <<sent, batch, cursor>>
        /\ pc' = "closed" => reason' = "timeout"
        /\ pc' = "project" => reason' = reason
    BY DEF Poll, output
  <1>2. QED BY <1>1 DEF VerdictInv, OneVerdict, Verdicts

LEMMA StepsKeepVerdicts == VerdictInv /\ (Project \/ ProjectSteps \/ Sleep) => VerdictInv'
  <1> SUFFICES ASSUME VerdictInv, Project \/ ProjectSteps \/ Sleep PROVE VerdictInv'
    OBVIOUS
  <1>1. UNCHANGED <<sent, batch, cursor, ex, reason>> /\ {pc, pc'} \cap {"send", "closed"} = {}
    BY DEF Project, ProjectSteps, Sleep, output, reads
  <1>2. QED BY <1>1, VerdictsUntouched

LEMMA ReadRaisesKeepsVerdicts == VerdictInv /\ ReadRaises => VerdictInv'
  BY DEF VerdictInv, OneVerdict, Verdicts, ReadRaises, output, reads

LEMMA DiffKeepsVerdicts == TypeInv /\ VerdictInv /\ Diff => VerdictInv'
  <1> SUFFICES ASSUME TypeInv, VerdictInv, Diff PROVE VerdictInv'
    OBVIOUS
  <1>1. /\ pc = "approvals" /\ pc' = "send" /\ UNCHANGED <<sent, ex, reason>>
        /\ batch' = Numbered(Emitted) /\ cursor'.status = ex.status
        /\ cursor'.sequence = cursor.sequence + Len(Emitted)
    BY DEF Diff, Emitted, reads
  <1>2. Emitted \in Seq(PlainEvents) /\ ex.status \in Statuses /\ cursor.sequence \in Nat
    BY <1>1, EmittedType DEF TypeInv, TypeOK
  <1>3. /\ Len(batch') = Len(Emitted) /\ DOMAIN batch' = 1 .. Len(Emitted) /\ Len(Emitted) \in Nat
        /\ \A i \in 1 .. Len(Emitted) :
             batch'[i] = [type |-> Emitted[i].type, of |-> Emitted[i].of,
                          sequence |-> cursor.sequence + i]
    BY <1>1, <1>2, NumberedType, LenProperties
  <1>4. cursor.status \notin Terminal /\ cursor.sequence = Len(sent) /\ Verdicts(sent) = {}
    <2>1. Len(batch) = 0 /\ Len(sent) \in Nat
      BY <1>1, LenProperties DEF VerdictInv, TypeInv, TypeOK
    <2>2. QED BY <1>1, <2>1 DEF VerdictInv
  <1>5. \A i \in 1 .. Len(Emitted) : IsTerminalEvent(batch'[i]) <=> IsTerminalEvent(Emitted[i])
    BY <1>3 DEF IsTerminalEvent
  <1>6. \A i \in Verdicts(batch') : i = 2 /\ ex.status \in Terminal /\ batch'[i].of = ex.status
    <2>1. ASSUME NEW i \in 1 .. Len(Emitted), IsTerminalEvent(Emitted[i])
          PROVE  i = 2 /\ ex.status \in Terminal /\ Emitted[i].of = ex.status
      <3>1. i <= Len(StatusEvents(ex.status)) /\ Emitted[i] = StatusEvents(ex.status)[i]
        BY <1>1, <2>1, EmittedVerdicts
      <3>2. Len(StatusEvents(ex.status)) \in Nat
        BY <1>2, StatusEventsType, LenProperties
      <3>3. i \in 1 .. Len(StatusEvents(ex.status))
        BY <3>1, <3>2
      <3>4. QED BY <1>2, <1>4, <2>1, <3>1, <3>3, StatusVerdicts
    <2>2. QED BY <1>3, <1>5, <2>1 DEF Verdicts
  <1>7. ex.status \in Terminal => Verdicts(batch') # {}
    <2>1. SUFFICES ASSUME ex.status \in Terminal PROVE 2 \in Verdicts(batch')
      OBVIOUS
    <2>2. Len(StatusEvents(ex.status)) = 2 /\ IsTerminalEvent(StatusEvents(ex.status)[2])
      BY <1>2, <1>4, <2>1, StatusVerdicts
    <2>3. 2 <= Len(Emitted) /\ Emitted[2] = StatusEvents(ex.status)[2]
      BY <1>1, <2>2, EmittedVerdicts
    <2>4. QED BY <1>3, <1>5, <2>2, <2>3 DEF Verdicts
  <1>8. OneVerdict'
    BY <1>1 DEF VerdictInv, OneVerdict, Verdicts
  <1>9. /\ cursor'.sequence = Len(sent') + Len(batch') /\ Verdicts(sent') = {}
        /\ \A i \in DOMAIN batch' : batch'[i].sequence = Len(sent') + i
    BY <1>1, <1>3, <1>4
  <1>10. QED
    BY <1>1, <1>6, <1>7, <1>8, <1>9 DEF VerdictInv, Verdicts

\* What the client has is a first part of what was sent and what is about to be.
LEMMA SentWithBatch ==
  ASSUME TypeInv, VerdictInv, pc \in {"send", "sleep"},
         NEW k \in 0 .. Len(batch), NEW told, told = sent \o SubSeq(batch, 1, k)
  PROVE  /\ \A i \in DOMAIN told : told[i].sequence = i
         /\ \A i, j \in Verdicts(told) : i = j
         /\ pc = "sleep" => Verdicts(told) = {}
         /\ \A i \in Verdicts(told) : ex.status \in Terminal /\ told[i].of = ex.status
         /\ pc = "send" /\ k = Len(batch) /\ ex.status \in Terminal => Verdicts(told) # {}
  <1> DEFINE some == SubSeq(batch, 1, k)
  <1>1. sent \in Seq(Events) /\ batch \in Seq(Events) /\ Len(sent) \in Nat /\ Len(batch) \in Nat
          /\ DOMAIN sent = 1 .. Len(sent) /\ DOMAIN batch = 1 .. Len(batch)
    BY LenProperties DEF TypeInv, TypeOK
  <1>2. /\ some \in Seq(Events) /\ Len(some) = k /\ \A i \in 1 .. k : some[i] = batch[i]
    <2>1. \A i \in 1 .. k : batch[i] \in Events
      BY <1>1, ElementOfSeq
    <2>2. /\ some \in Seq(Events) /\ Len(some) = IF 1 <= k THEN k - 1 + 1 ELSE 0
          /\ \A i \in 1 .. k - 1 + 1 : some[i] = batch[1 + i - 1]
      BY <1>1, <2>1, SubSeqProperties
    <2> HIDE DEF some
    <2>3. QED BY <1>1, <2>2
  <1>3. /\ told \in Seq(Events) /\ Len(told) = Len(sent) + k /\ DOMAIN told = 1 .. Len(sent) + k
        /\ \A i \in 1 .. Len(sent) + k :
             told[i] = IF i <= Len(sent) THEN sent[i] ELSE some[i - Len(sent)]
    <2> HIDE DEF some
    <2>1. told \in Seq(Events) /\ Len(told) = Len(sent) + k
            /\ \A i \in 1 .. Len(sent) + k :
                 told[i] = IF i <= Len(sent) THEN sent[i] ELSE some[i - Len(sent)]
      BY <1>1, <1>2, ConcatProperties DEF some
    <2>2. QED BY <2>1, LenProperties
  <1>4. \A i \in 1 .. Len(sent) + k :
          \/ i \in 1 .. Len(sent) /\ told[i] = sent[i]
          \/ i - Len(sent) \in 1 .. k /\ told[i] = batch[i - Len(sent)]
    <2> HIDE DEF some
    <2>1. QED BY <1>1, <1>2, <1>3
  <1>5. /\ Verdicts(sent) = {} /\ \A i \in 1 .. Len(batch) : batch[i].sequence = Len(sent) + i
        /\ \A i \in 1 .. Len(sent) : sent[i].sequence = i
    BY <1>1 DEF VerdictInv, OneVerdict
  <1>6. \A i \in DOMAIN told : told[i].sequence = i
    BY <1>1, <1>3, <1>4, <1>5
  <1>7. \A i \in Verdicts(told) : i - Len(sent) \in Verdicts(batch) /\ told[i] = batch[i - Len(sent)]
    BY <1>1, <1>3, <1>4, <1>5 DEF Verdicts
  <1>8. pc = "sleep" => Verdicts(told) = {}
    <2>1. pc = "sleep" => Verdicts(batch) = {}
      BY DEF VerdictInv, Verdicts
    <2>2. QED BY <1>7, <2>1
  <1>9. \A i \in Verdicts(told) : i = Len(sent) + 2 /\ ex.status \in Terminal /\ told[i].of = ex.status
    <2>1. ASSUME NEW i \in Verdicts(told)
          PROVE  i = Len(sent) + 2 /\ ex.status \in Terminal /\ told[i].of = ex.status
      <3>1. pc = "send" /\ i \in 1 .. Len(sent) + k
        BY <1>3, <1>8, <2>1 DEF Verdicts
      <3>2. i - Len(sent) = 2 /\ ex.status \in Terminal /\ told[i].of = ex.status
        BY <1>7, <2>1, <3>1 DEF VerdictInv
      <3>3. QED BY <1>1, <3>1, <3>2
    <2>2. QED BY <2>1
  <1>10. pc = "send" /\ k = Len(batch) /\ ex.status \in Terminal => Verdicts(told) # {}
    <2>1. SUFFICES ASSUME pc = "send", k = Len(batch), ex.status \in Terminal
                   PROVE  Verdicts(told) # {}
      OBVIOUS
    <2>2. PICK i \in Verdicts(batch) : TRUE
      BY <2>1 DEF VerdictInv
    <2>3. i \in 1 .. Len(batch) /\ IsTerminalEvent(batch[i])
      BY <1>1, <2>2 DEF Verdicts
    <2>4. Len(sent) + i \in 1 .. Len(sent) + k /\ told[Len(sent) + i] = batch[i]
      BY <1>1, <1>2, <1>3, <2>1, <2>3
    <2>5. Len(sent) + i \in Verdicts(told)
      BY <1>3, <2>3, <2>4 DEF Verdicts
    <2>6. QED BY <2>5
  <1>11. QED BY <1>6, <1>8, <1>9, <1>10

LEMMA SendKeepsVerdicts == TypeInv /\ VerdictInv /\ Send => VerdictInv'
  <1> SUFFICES ASSUME TypeInv, VerdictInv, Send PROVE VerdictInv'
    OBVIOUS
  <1> DEFINE all == sent \o batch
             ends == ex.status \in Terminal
  <1>1. /\ batch \in Seq(Events) /\ sent \in Seq(Events) /\ all \in Seq(Events)
        /\ Len(sent) \in Nat /\ Len(batch) \in Nat /\ Len(all) = Len(sent) + Len(batch)
        /\ SubSeq(batch, 1, Len(batch)) = batch
    BY SubSeqFull, LenProperties, ConcatProperties DEF TypeInv, TypeOK
  <1>2. /\ pc = "send" /\ reason = "none"
        /\ cursor.sequence = Len(all) /\ cursor.status = ex.status
    BY <1>1 DEF Send, VerdictInv, TypeInv, TypeOK
  <1>3. /\ \A i \in DOMAIN all : all[i].sequence = i
        /\ \A i, j \in Verdicts(all) : i = j
        /\ \A i \in Verdicts(all) : ex.status \in Terminal /\ all[i].of = ex.status
        /\ ends => Verdicts(all) # {}
    <2>1. all = sent \o SubSeq(batch, 1, Len(batch)) /\ Len(batch) \in 0 .. Len(batch)
      BY <1>1
    <2> HIDE DEF all
    <2>2. QED BY <1>2, <2>1, SentWithBatch
  <1>4. TerminalSent(all) <=> Verdicts(all) # {}
    BY DEF TerminalSent, Verdicts
  <1>5. /\ sent' = all /\ batch' = <<>> /\ UNCHANGED <<cursor, ex>>
        /\ pc' = IF ends THEN "closed" ELSE "sleep"
        /\ reason' = IF ends THEN "terminal" ELSE reason
    <2> HIDE DEF all
    <2>1. QED BY <1>2, <1>3, <1>4 DEF Send, reads, all
  <1> HIDE DEF all
  <1>6. OneVerdict'
    <2>1. ends => \E i \in Verdicts(all) : all[i].of = ex.status
      BY <1>3
    <2>2. Verdicts(all) # {} => ends
      BY <1>3
    <2>3. QED BY <1>2, <1>3, <1>5, <2>1, <2>2 DEF OneVerdict, Verdicts
  <1>7. ~ ends => Verdicts(sent') = {}
    BY <1>3, <1>5
  <1>8. ~ ends => cursor'.sequence = Len(sent') + Len(batch')
    <2>1. Len(batch') = 0 /\ Len(all) \in Nat
      BY <1>1, <1>5
    <2>2. QED BY <1>2, <1>5, <2>1
  <1>9. QED
    BY <1>2, <1>5, <1>6, <1>7, <1>8 DEF VerdictInv

LEMMA DisconnectKeepsVerdicts == TypeInv /\ VerdictInv /\ Disconnect => VerdictInv'
  <1> SUFFICES ASSUME TypeInv, VerdictInv, Disconnect PROVE VerdictInv'
    OBVIOUS
  <1>1. PICK k \in 0 .. Len(batch) : sent' = sent \o SubSeq(batch, 1, k)
    BY DEF Disconnect
  <1>2. /\ \A i \in DOMAIN sent' : sent'[i].sequence = i
        /\ \A i, j \in Verdicts(sent') : i = j
    BY <1>1, SentWithBatch DEF Disconnect
  <1>3. batch' = <<>> /\ pc' = "closed" /\ reason' = "disconnected"
    BY DEF Disconnect
  <1>4. QED
    BY <1>2, <1>3 DEF VerdictInv, OneVerdict, Verdicts

LEMMA VerdictInvariance == Spec => []VerdictInv
  <1>1. VerdictInv /\ UNCHANGED vars => VerdictInv'
    BY VerdictsUntouched DEF vars, output, reads
  <1>2. TypeInv /\ VerdictInv /\ [Next]_vars => VerdictInv'
    BY <1>1, WritersKeepVerdicts, PollKeepsVerdicts, StepsKeepVerdicts, DiffKeepsVerdicts,
       SendKeepsVerdicts, DisconnectKeepsVerdicts, ReadRaisesKeepsVerdicts
       DEF Next, StreamNext, Closed
  <1>3. QED BY <1>2, InitVerdicts, Typing, PTL DEF Spec

(***************************************************************************)
(* Counting the rows among events.                                         *)
(***************************************************************************)
LEMMA RowsAmongSteps ==
  ASSUME NEW events, NEW i \in Nat
  PROVE  /\ RowsAmong(events, 0) = 0
         /\ RowsAmong(events, i) \in Nat
         /\ RowsAmong(events, i + 1) =
              RowsAmong(events, i) + (IF IsRow(events[i + 1]) THEN 1 ELSE 0)
  <1> DEFINE R(n) == {j \in 1 .. n : IsRow(events[j])}
  <1>1. \A n \in Nat : IsFiniteSet(R(n)) /\ Cardinality(R(n)) \in Nat
    <2>1. ASSUME NEW n \in Nat PROVE IsFiniteSet(R(n))
      <3>1. IsFiniteSet(1 .. n)
        BY FS_Interval
      <3>2. R(n) \in SUBSET (1 .. n)
        OBVIOUS
      <3> HIDE DEF R
      <3>3. QED BY <3>1, <3>2, FS_Subset
    <2> HIDE DEF R
    <2>2. QED BY <2>1, FS_CardinalityType
  <1>2. R(0) = {} /\ Cardinality(R(0)) = 0
    BY FS_EmptySet
  <1>3. Cardinality(R(i + 1)) = Cardinality(R(i)) + (IF IsRow(events[i + 1]) THEN 1 ELSE 0)
    <2>1. CASE IsRow(events[i + 1])
      <3>1. R(i + 1) = R(i) \cup {i + 1} /\ i + 1 \notin R(i)
        BY <2>1
      <3> HIDE DEF R
      <3>2. Cardinality(R(i + 1)) = Cardinality(R(i)) + 1
        BY <1>1, <3>1, FS_AddElement
      <3>3. QED BY <2>1, <3>2
    <2>2. CASE ~ IsRow(events[i + 1])
      <3>1. R(i + 1) = R(i)
        BY <2>2
      <3>2. Cardinality(R(i)) \in Nat
        BY <1>1
      <3> HIDE DEF R
      <3>3. QED BY <2>2, <3>1, <3>2
    <2>3. QED BY <2>1, <2>2
  <1>4. \A n : RowsAmong(events, n) = Cardinality(R(n))
    BY DEF RowsAmong
  <1> HIDE DEF R
  <1>5. QED BY <1>1, <1>2, <1>3, <1>4

LEMMA RowsAmongAgree ==
  ASSUME NEW a, NEW b, NEW n \in Nat, \A j \in 1 .. n : IsRow(a[j]) <=> IsRow(b[j])
  PROVE  \A i \in 0 .. n : RowsAmong(a, i) = RowsAmong(b, i)
  <1>1. ASSUME NEW i \in 0 .. n PROVE RowsAmong(a, i) = RowsAmong(b, i)
    <2>1. {j \in 1 .. i : IsRow(a[j])} = {j \in 1 .. i : IsRow(b[j])}
      OBVIOUS
    <2>2. QED BY <2>1 DEF RowsAmong
  <1>2. QED BY <1>1

LEMMA RowsAmongConcat ==
  ASSUME NEW S, NEW s \in Seq(S), NEW t \in Seq(S)
  PROVE  /\ \A i \in 0 .. Len(s) : RowsAmong(s \o t, i) = RowsAmong(s, i)
         /\ \A i \in 0 .. Len(t) :
              RowsAmong(s \o t, Len(s) + i) = RowsAmong(s, Len(s)) + RowsAmong(t, i)
  <1>1. /\ Len(s) \in Nat /\ Len(t) \in Nat
        /\ \A i \in 1 .. Len(s) : (s \o t)[i] = s[i]
        /\ \A i \in 1 .. Len(t) : (s \o t)[Len(s) + i] = t[i]
    <2>1. Len(s) \in Nat /\ Len(t) \in Nat
      BY LenProperties
    <2>2. \A i \in 1 .. Len(s) + Len(t) : (s \o t)[i] = IF i <= Len(s) THEN s[i] ELSE t[i - Len(s)]
      BY ConcatProperties
    <2>3. \A i \in 1 .. Len(t) : Len(s) + i - Len(s) = i /\ ~ Len(s) + i <= Len(s)
            /\ Len(s) + i \in 1 .. Len(s) + Len(t)
      BY <2>1
    <2>4. QED BY <2>1, <2>2, <2>3
  <1>2. \A i \in 0 .. Len(s) : RowsAmong(s \o t, i) = RowsAmong(s, i)
    <2> DEFINE u == s \o t
    <2>1. \A j \in 1 .. Len(s) : IsRow(u[j]) <=> IsRow(s[j])
      BY <1>1
    <2> HIDE DEF u
    <2>2. \A i \in 0 .. Len(s) : RowsAmong(u, i) = RowsAmong(s, i)
      BY <1>1, <2>1, RowsAmongAgree
    <2>3. QED BY <2>2 DEF u
  <1>3. \A i \in 0 .. Len(t) :
          RowsAmong(s \o t, Len(s) + i) = RowsAmong(s, Len(s)) + RowsAmong(t, i)
    <2> DEFINE u == s \o t
               L == Len(s)
               T == {i \in 0 .. Len(t) : RowsAmong(u, L + i) = RowsAmong(s, L) + RowsAmong(t, i)}
    <2>1. 0 \in T
      <3>1. RowsAmong(t, 0) = 0 /\ RowsAmong(s, L) \in Nat
        BY <1>1, RowsAmongSteps
      <3>2. RowsAmong(u, L) = RowsAmong(s, L)
        BY <1>1, <1>2
      <3> HIDE DEF u, L
      <3>3. RowsAmong(u, L + 0) = RowsAmong(s, L) + RowsAmong(t, 0)
        BY <1>1, <3>1, <3>2 DEF L
      <3>4. QED BY <1>1, <3>3
    <2>2. ASSUME NEW i \in 0 .. Len(t) - 1, i \in T PROVE i + 1 \in T
      <3>1. RowsAmong(u, L + i) = RowsAmong(s, L) + RowsAmong(t, i)
        BY <2>2
      <3>2. u[L + i + 1] = t[i + 1] /\ i \in Nat /\ L + i \in Nat /\ i + 1 \in 0 .. Len(t)
              /\ L \in Nat /\ L + (i + 1) = L + i + 1
        <4>1. i + 1 \in 1 .. Len(t) /\ L \in Nat /\ i \in Nat
          BY <1>1
        <4>2. u[L + (i + 1)] = t[i + 1]
          BY <1>1, <4>1
        <4> HIDE DEF u, L
        <4>3. L + (i + 1) = L + i + 1
          BY <4>1
        <4>4. QED BY <4>1, <4>2, <4>3
      <3> HIDE DEF u, L
      <3>3. /\ RowsAmong(u, L + i + 1) = RowsAmong(u, L + i) + (IF IsRow(u[L + i + 1]) THEN 1 ELSE 0)
            /\ RowsAmong(t, i + 1) = RowsAmong(t, i) + (IF IsRow(t[i + 1]) THEN 1 ELSE 0)
            /\ RowsAmong(s, L) \in Nat /\ RowsAmong(t, i) \in Nat
        BY <3>2, RowsAmongSteps
      <3>4. RowsAmong(u, L + i + 1) = RowsAmong(s, L) + RowsAmong(t, i + 1)
        BY <3>1, <3>2, <3>3
      <3>5. RowsAmong(u, L + (i + 1)) = RowsAmong(s, L) + RowsAmong(t, i + 1)
        BY <3>2, <3>4
      <3>6. QED BY <3>2, <3>5
    <2>3. \A i \in 0 .. Len(t) : i \in T
      <3> HIDE DEF T
      <3>1. QED BY <1>1, <2>1, <2>2, TurnsBySets
    <2>4. QED BY <2>3
  <1>4. QED BY <1>2, <1>3

(***************************************************************************)
(* What events tell of a timeline, put together.                           *)
(***************************************************************************)
LEMMA TellsConcat ==
  ASSUME NEW S, NEW s \in Seq(S), NEW t \in Seq(S), NEW timeline,
         NEW from \in Nat, NEW mid \in Nat, NEW to \in Nat, from <= mid, mid <= to,
         TellsRows(s, timeline, from, mid), TellsRows(t, timeline, mid, to)
  PROVE  TellsRows(s \o t, timeline, from, to)
  <1> DEFINE u == s \o t
  <1>1. /\ Len(s) \in Nat /\ Len(t) \in Nat /\ Len(u) = Len(s) + Len(t)
        /\ DOMAIN s = 1 .. Len(s) /\ DOMAIN t = 1 .. Len(t) /\ DOMAIN u = 1 .. Len(s) + Len(t)
    BY LenProperties, ConcatProperties
  <1>2. \A i \in 1 .. Len(u) : \/ i \in 1 .. Len(s) /\ u[i] = s[i]
                               \/ i - Len(s) \in 1 .. Len(t) /\ u[i] = t[i - Len(s)]
    BY <1>1, ConcatProperties
  <1>3. /\ \A i \in 1 .. Len(s) : u[i] = s[i] /\ i \in 1 .. Len(u)
        /\ \A i \in 1 .. Len(t) : u[Len(s) + i] = t[i] /\ Len(s) + i \in 1 .. Len(u)
    <2>1. \A i \in 1 .. Len(t) : Len(s) + i - Len(s) = i /\ Len(s) + i \in 1 .. Len(s) + Len(t)
            /\ Len(s) + i > Len(s)
      BY <1>1
    <2>2. QED BY <1>1, <2>1, ConcatProperties
  <1>4. /\ \A i \in 1 .. Len(s) : RowsAmong(u, i) = RowsAmong(s, i)
        /\ \A i \in 0 .. Len(t) : RowsAmong(u, Len(s) + i) = mid - from + RowsAmong(t, i)
    <2>1. RowsAmong(s, Len(s)) = mid - from
      BY DEF TellsRows
    <2>2. QED BY <1>1, <2>1, RowsAmongConcat
  <1>5. \A i \in Nat : RowsAmong(s, i) \in Nat /\ RowsAmong(t, i) \in Nat
    BY RowsAmongSteps
  <1> HIDE DEF u
  <1>6. RowsAmong(u, Len(u)) = to - from
    <2>1. RowsAmong(t, Len(t)) = to - mid
      BY DEF TellsRows
    <2>2. RowsAmong(u, Len(s) + Len(t)) = mid - from + RowsAmong(t, Len(t))
      BY <1>1, <1>4
    <2>3. QED BY <1>1, <2>1, <2>2
  <1>7. ASSUME NEW i \in 1 .. Len(u), IsRow(u[i])
        PROVE  /\ from + RowsAmong(u, i) \in from + 1 .. to
               /\ u[i].of = timeline[from + RowsAmong(u, i)]
    <2>1. CASE i \in 1 .. Len(s) /\ u[i] = s[i]
      <3>1. from + RowsAmong(s, i) \in from + 1 .. mid /\ s[i].of = timeline[from + RowsAmong(s, i)]
        BY <1>1, <1>7, <2>1 DEF TellsRows
      <3>2. QED BY <1>4, <2>1, <3>1
    <2>2. CASE i - Len(s) \in 1 .. Len(t) /\ u[i] = t[i - Len(s)]
      <3> DEFINE j == i - Len(s)
      <3>1. j \in 1 .. Len(t) /\ j \in Nat /\ Len(s) + j = i /\ u[i] = t[j]
        BY <1>1, <2>2
      <3> HIDE DEF j
      <3>2. mid + RowsAmong(t, j) \in mid + 1 .. to /\ t[j].of = timeline[mid + RowsAmong(t, j)]
        BY <1>1, <1>7, <3>1 DEF TellsRows
      <3>3. RowsAmong(u, i) = mid - from + RowsAmong(t, j) /\ RowsAmong(t, j) \in Nat
        BY <1>1, <1>4, <1>5, <3>1
      <3>4. from + RowsAmong(u, i) = mid + RowsAmong(t, j)
        BY <3>3
      <3>5. QED BY <3>1, <3>2, <3>4
    <2>3. QED BY <1>2, <2>1, <2>2
  <1>8. ASSUME NEW n \in from + 1 .. to
        PROVE  \E i \in 1 .. Len(u) : IsRow(u[i]) /\ from + RowsAmong(u, i) = n
    <2>1. CASE n \in from + 1 .. mid
      <3>1. PICK i \in 1 .. Len(s) : IsRow(s[i]) /\ from + RowsAmong(s, i) = n
        BY <1>1, <2>1 DEF TellsRows
      <3>2. QED BY <1>3, <1>4, <3>1
    <2>2. CASE n \in mid + 1 .. to
      <3>1. PICK i \in 1 .. Len(t) : IsRow(t[i]) /\ mid + RowsAmong(t, i) = n
        BY <1>1, <2>2 DEF TellsRows
      <3>2. /\ RowsAmong(u, Len(s) + i) = mid - from + RowsAmong(t, i) /\ RowsAmong(t, i) \in Nat
            /\ u[Len(s) + i] = t[i] /\ Len(s) + i \in 1 .. Len(u)
        BY <1>1, <1>3, <1>4, <1>5, <3>1
      <3>3. from + RowsAmong(u, Len(s) + i) = n
        BY <3>1, <3>2
      <3>4. QED BY <3>1, <3>2, <3>3
    <2>3. QED BY <2>1, <2>2
  <1>9. TellsRows(u, timeline, from, to)
    BY <1>1, <1>6, <1>7, <1>8 DEF TellsRows
  <1>10. QED BY <1>9 DEF u

LEMMA TellsNothing ==
  ASSUME NEW S, NEW s \in Seq(S), NEW timeline, NEW n \in Nat,
         \A i \in 1 .. Len(s) : ~ IsRow(s[i])
  PROVE  TellsRows(s, timeline, n, n)
  <1>1. Len(s) \in Nat /\ DOMAIN s = 1 .. Len(s)
    BY LenProperties
  <1>2. RowsAmong(s, Len(s)) = 0
    <2>1. {j \in 1 .. Len(s) : IsRow(s[j])} = {}
      OBVIOUS
    <2>2. QED BY <2>1, FS_EmptySet DEF RowsAmong
  <1>3. n + 1 .. n = {}
    OBVIOUS
  <1>4. QED BY <1>1, <1>2, <1>3 DEF TellsRows

LEMMA RowEventsTell ==
  ASSUME NEW timeline \in Seq(Rows), NEW n \in 1 .. Len(timeline)
  PROVE  TellsRows(RowEvents(timeline[n]), timeline, n - 1, n)
  <1> DEFINE first == [type |-> "trace_event", of |-> timeline[n]]
             extra == [type |-> "replay_created", of |-> timeline[n]]
             S == TraceEvents
  <1>1. n \in Nat /\ n - 1 \in Nat /\ timeline[n] \in Rows
    BY LenProperties
  <1>2. first \in S /\ extra \in S /\ IsRow(first) /\ ~ IsRow(extra)
    BY <1>1 DEF TraceEvents, IsRow
  <1>3. TellsRows(<<first>>, timeline, n - 1, n)
    <2> DEFINE e == <<first>>
    <2>1. Len(e) = 1 /\ DOMAIN e = {1} /\ e[1] = first
      OBVIOUS
    <2>2. first.of = timeline[n]
      OBVIOUS
    <2> HIDE DEF first, e
    <2>3. RowsAmong(e, 0) = 0 /\ RowsAmong(e, 0 + 1) = 0 + 1
      BY <1>2, <2>1, RowsAmongSteps
    <2>4. RowsAmong(e, 1) = 1 /\ n - 1 + 1 = n /\ n - (n - 1) = 1
      BY <1>1, <2>3
    <2>5. QED BY <1>1, <1>2, <2>1, <2>2, <2>4 DEF TellsRows, e
  <1>4. TellsRows(<<extra>>, timeline, n, n) /\ TellsRows(<<>>, timeline, n, n)
    <2>1. <<extra>> \in Seq(S) /\ <<>> \in Seq(S)
      BY <1>2
    <2>2. Len(<<extra>>) = 1 /\ <<extra>>[1] = extra /\ Len(<<>>) = 0
      OBVIOUS
    <2> HIDE DEF extra
    <2>3. /\ \A i \in 1 .. Len(<<extra>>) : ~ IsRow(<<extra>>[i])
          /\ \A i \in 1 .. Len(<<>>) : ~ IsRow(<<>>[i])
      BY <1>2, <2>2
    <2>4. QED BY <1>1, <2>1, <2>3, TellsNothing
  <1>5. <<first>> \in Seq(S) /\ <<extra>> \in Seq(S) /\ <<>> \in Seq(S)
    BY <1>2
  <1>6. RowEvents(timeline[n]) \in {<<first>> \o <<extra>>, <<first>> \o <<>>}
    BY DEF RowEvents
  <1> HIDE DEF first, extra, S
  <1>7. /\ TellsRows(<<first>> \o <<extra>>, timeline, n - 1, n)
        /\ TellsRows(<<first>> \o <<>>, timeline, n - 1, n)
    <2> DEFINE m == n - 1
               a == <<first>>
               b == <<extra>>
               c == <<>>
    <2>1. m \in Nat /\ n \in Nat /\ m <= n /\ n <= n
      BY <1>1
    <2>2. a \in Seq(S) /\ b \in Seq(S) /\ c \in Seq(S)
      BY <1>5
    <2>3. /\ TellsRows(a, timeline, m, n)
          /\ TellsRows(b, timeline, n, n) /\ TellsRows(c, timeline, n, n)
      BY <1>3, <1>4
    <2> HIDE DEF m, a, b, c
    <2>4. TellsRows(a \o b, timeline, m, n)
      BY <2>1, <2>2, <2>3, TellsConcat
    <2>5. TellsRows(a \o c, timeline, m, n)
      BY <2>1, <2>2, <2>3, TellsConcat
    <2>6. QED BY <2>4, <2>5 DEF m, a, b, c
  <1>8. QED BY <1>6, <1>7

\* The loop over the timeline tells the rows past its start, each once and in order.
LEMMA EventsOfRowsTell ==
  ASSUME NEW timeline \in Seq(Rows), NEW from \in 0 .. Len(timeline)
  PROVE  TellsRows(EventsOfRows(timeline, from), timeline, from, Len(timeline))
  <1> DEFINE last == Len(timeline)
             upTo(n) == IF n <= from THEN from ELSE n
  <1>1. last \in Nat /\ from \in Nat
    BY LenProperties
  <1>2. PICK f : RowsLoopValues(f, timeline, from) /\ EventsOfRows(timeline, from) = f[last]
    BY <1>1, RowsLoop
  <1>3. \A n \in 0 .. last : f[n] \in Seq(TraceEvents)
    BY <1>1, <1>2 DEF RowsLoopValues
  <1>4. TellsRows(<<>>, timeline, from, from)
    <2>1. <<>> \in Seq(TraceEvents) /\ \A i \in 1 .. Len(<<>>) : ~ IsRow(<<>>[i])
      OBVIOUS
    <2>2. QED BY <1>1, <2>1, TellsNothing
  <1> DEFINE T == {n \in 0 .. last : TellsRows(f[n], timeline, from, upTo(n))}
  <1>5. 0 \in T
    <2>1. f[0] = <<>> /\ upTo(0) = from
      BY <1>1, <1>2 DEF RowsLoopValues
    <2> HIDE DEF upTo
    <2>2. QED BY <1>1, <1>4, <2>1
  <1>6. ASSUME NEW n \in 0 .. last - 1, n \in T PROVE n + 1 \in T
    <2>1. n + 1 \in 1 .. last /\ n + 1 - 1 = n /\ n \in 0 .. last /\ n + 1 \in 0 .. last /\ n \in Nat
      BY <1>1
    <2>2. f[n + 1] = IF n + 1 <= from THEN <<>> ELSE f[n] \o RowEvents(timeline[n + 1])
      BY <1>2, <2>1 DEF RowsLoopValues
    <2>3. CASE n + 1 <= from
      <3>1. f[n + 1] = <<>> /\ upTo(n + 1) = from
        BY <2>2, <2>3
      <3> HIDE DEF upTo
      <3>2. QED BY <1>4, <2>1, <3>1
    <2>4. CASE ~ n + 1 <= from
      <3>1. upTo(n) = n /\ upTo(n + 1) = n + 1 /\ from <= n
        BY <1>1, <2>1, <2>4
      <3>2. TellsRows(f[n], timeline, from, n)
        BY <1>6, <3>1
      <3>3. TellsRows(RowEvents(timeline[n + 1]), timeline, n, n + 1)
        BY <2>1, RowEventsTell
      <3>4. f[n] \in Seq(TraceEvents) /\ RowEvents(timeline[n + 1]) \in Seq(TraceEvents)
        BY <1>3, <2>1, RowEventsType, LenProperties
      <3>5. TellsRows(f[n] \o RowEvents(timeline[n + 1]), timeline, from, n + 1)
        BY <1>1, <2>1, <3>1, <3>2, <3>3, <3>4, TellsConcat
      <3>6. TellsRows(f[n + 1], timeline, from, upTo(n + 1))
        BY <2>2, <2>4, <3>1, <3>5
      <3> HIDE DEF upTo
      <3>7. QED BY <2>1, <3>6
    <2>5. QED BY <2>3, <2>4
  <1>7. last \in T
    <2> HIDE DEF T, last
    <2>1. \A n \in 0 .. last : n \in T
      BY <1>1, <1>5, <1>6, TurnsBySets
    <2>2. QED BY <1>1, <2>1
  <1>8. upTo(last) = last
    BY <1>1
  <1>9. QED BY <1>2, <1>7, <1>8

(***************************************************************************)
(* Rows in order.                                                          *)
(***************************************************************************)
LEMMA PrefixMeans ==
  ASSUME NEW S, NEW s \in Seq(S), NEW t \in Seq(S)
  PROVE  IsPrefix(s, t) <=> Len(s) <= Len(t) /\ \A i \in 1 .. Len(s) : s[i] = t[i]
  <1>1. Len(s) \in Nat /\ Len(t) \in Nat
    BY LenProperties
  <1>2. SubSeq(s, 1, Len(s)) = s
    BY SubSeqFull
  <1>3. ASSUME Len(s) <= Len(t)
        PROVE  SubSeq(s, 1, Len(s)) = SubSeq(t, 1, Len(s)) <=> \A i \in 1 .. Len(s) : s[i] = t[i]
    <2> DEFINE n == Len(s)
               u == SubSeq(t, 1, n)
    <2>1. \A i \in 1 .. n : t[i] \in S
      BY <1>1, <1>3, ElementOfSeq
    <2>2. u \in Seq(S) /\ Len(u) = (IF 1 <= n THEN n - 1 + 1 ELSE 0)
            /\ \A i \in 1 .. n - 1 + 1 : u[i] = t[1 + i - 1]
      BY <1>1, <2>1, SubSeqProperties
    <2>3. n \in Nat
      BY <1>1
    <2> HIDE DEF u
    <2>4. Len(u) = n /\ \A i \in 1 .. n : u[i] = t[i]
      BY <2>2, <2>3
    <2>5. s = u <=> \A i \in 1 .. n : s[i] = u[i]
      BY <2>2, <2>4, SeqEqual
    <2>6. s = u <=> \A i \in 1 .. n : s[i] = t[i]
      BY <2>4, <2>5
    <2>7. QED BY <1>2, <2>6 DEF u
  <1>4. QED BY <1>3 DEF IsPrefix

LEMMA PrefixFacts ==
  ASSUME NEW S, NEW s \in Seq(S), NEW t \in Seq(S), NEW u \in Seq(S)
  PROVE  /\ IsPrefix(s, s) /\ IsPrefix(<<>>, s)
         /\ IsPrefix(s, t) /\ IsPrefix(t, u) => IsPrefix(s, u)
  <1>1. Len(s) \in Nat /\ Len(t) \in Nat /\ Len(u) \in Nat /\ <<>> \in Seq(S) /\ Len(<<>>) = 0
    BY LenProperties
  <1>2. IsPrefix(s, s)
    BY <1>1, PrefixMeans
  <1>3. IsPrefix(<<>>, s)
    <2> DEFINE e == <<>>
    <2>1. e \in Seq(S) /\ Len(e) = 0
      BY <1>1
    <2> HIDE DEF e
    <2>2. Len(e) <= Len(s) /\ \A i \in 1 .. Len(e) : e[i] = s[i]
      BY <1>1, <2>1
    <2>3. IsPrefix(e, s)
      BY <2>1, <2>2, PrefixMeans
    <2>4. QED BY <2>3 DEF e
  <1>4. ASSUME IsPrefix(s, t), IsPrefix(t, u) PROVE IsPrefix(s, u)
    <2>1. Len(s) <= Len(t) /\ \A i \in 1 .. Len(s) : s[i] = t[i]
      BY <1>4, PrefixMeans
    <2>2. Len(t) <= Len(u) /\ \A i \in 1 .. Len(t) : t[i] = u[i]
      BY <1>4, PrefixMeans
    <2>3. Len(s) <= Len(u) /\ \A i \in 1 .. Len(s) : s[i] = u[i]
      BY <1>1, <2>1, <2>2
    <2>4. QED BY <2>3, PrefixMeans
  <1>5. QED BY <1>2, <1>3, <1>4

\* Events tell the same of two timelines that have these rows in common.
LEMMA TellsOther ==
  ASSUME NEW events, NEW one, NEW other, NEW from, NEW to,
         \A n \in from + 1 .. to : one[n] = other[n], TellsRows(events, one, from, to)
  PROVE  TellsRows(events, other, from, to)
  BY DEF TellsRows

LEMMA NumberedTells ==
  ASSUME NEW events \in Seq(PlainEvents), cursor.sequence \in Nat, NEW timeline,
         NEW from, NEW to, TellsRows(events, timeline, from, to)
  PROVE  TellsRows(Numbered(events), timeline, from, to)
  <1> DEFINE e == Numbered(events)
  <1>1. /\ Len(e) = Len(events) /\ Len(events) \in Nat
        /\ DOMAIN e = 1 .. Len(events) /\ DOMAIN events = 1 .. Len(events)
        /\ \A i \in 1 .. Len(events) : e[i].type = events[i].type /\ e[i].of = events[i].of
    <2>1. /\ e \in Seq(Events) /\ Len(e) = Len(events)
          /\ \A i \in 1 .. Len(events) :
               e[i] = [type |-> events[i].type, of |-> events[i].of, sequence |-> cursor.sequence + i]
      BY NumberedType
    <2> HIDE DEF e
    <2>2. Len(events) \in Nat /\ DOMAIN e = 1 .. Len(e) /\ DOMAIN events = 1 .. Len(events)
      BY <2>1, LenProperties
    <2>3. QED BY <2>1, <2>2
  <1> HIDE DEF e
  <1>2. \A i \in 1 .. Len(events) : IsRow(events[i]) <=> IsRow(e[i])
    BY <1>1 DEF IsRow
  <1>3. \A i \in 0 .. Len(events) : RowsAmong(events, i) = RowsAmong(e, i)
    BY <1>1, <1>2, RowsAmongAgree
  <1>4. \A i \in 1 .. Len(events) : RowsAmong(events, i) = RowsAmong(e, i)
    BY <1>1, <1>3
  <1>5. RowsAmong(e, Len(e)) = to - from
    <2>1. Len(events) \in 0 .. Len(events)
      BY <1>1
    <2>2. QED BY <1>1, <1>3, <2>1 DEF TellsRows
  <1>6. TellsRows(e, timeline, from, to)
    BY <1>1, <1>2, <1>4, <1>5 DEF TellsRows
  <1>7. QED BY <1>6 DEF e

\* A first part of events that tell a timeline's rows has its first rows.
LEMMA PartHasFirstRows ==
  ASSUME NEW S, NEW part \in Seq(S), NEW rest \in Seq(S), NEW timeline, NEW n \in Nat,
         Len(timeline) \in Nat, n <= Len(timeline),
         TellsRows(part \o rest, timeline, 0, n)
  PROVE  FirstRows(part, timeline)
  <1> DEFINE all == part \o rest
  <1>1. /\ Len(part) \in Nat /\ Len(rest) \in Nat /\ DOMAIN part = 1 .. Len(part)
        /\ DOMAIN all = 1 .. Len(part) + Len(rest)
        /\ \A i \in 1 .. Len(part) : all[i] = part[i]
    BY LenProperties, ConcatProperties
  <1>2. \A i \in 1 .. Len(part) : RowsAmong(all, i) = RowsAmong(part, i) /\ RowsAmong(part, i) \in Nat
    BY <1>1, RowsAmongConcat, RowsAmongSteps
  <1> HIDE DEF all
  <1>3. ASSUME NEW i \in 1 .. Len(part), IsRow(part[i])
        PROVE  RowsAmong(part, i) <= Len(timeline) /\ part[i].of = timeline[RowsAmong(part, i)]
    <2>1. i \in DOMAIN all /\ IsRow(all[i])
      BY <1>1, <1>3
    <2>2. 0 + RowsAmong(all, i) \in 0 + 1 .. n /\ all[i].of = timeline[0 + RowsAmong(all, i)]
      BY <2>1 DEF TellsRows, all
    <2>3. 0 + RowsAmong(part, i) = RowsAmong(part, i)
      BY <1>2
    <2>4. QED BY <1>1, <1>2, <2>2, <2>3
  <1>4. QED BY <1>1, <1>3 DEF FirstRows

LEMMA TimelineTypes ==
  ASSUME TypeInv
  PROVE  /\ record.timeline \in Seq(Rows) /\ ex.timeline \in Seq(Rows)
         /\ projection.timeline \in Seq(Rows)
         /\ Len(record.timeline) \in Nat /\ Len(ex.timeline) \in Nat
         /\ Len(projection.timeline) \in Nat /\ cursor.timeline \in Nat
         /\ sent \in Seq(Events) /\ batch \in Seq(Events)
         /\ sent \o batch \in Seq(Events)
  <1>1. None.timeline \in Seq(Rows)
    <2>1. <<>> \in Seq(Rows)
      OBVIOUS
    <2>2. QED BY <2>1, NoneIsNoRecord
  <1>2. record.timeline \in Seq(Rows) /\ ex.timeline \in Seq(Rows) /\ projection.timeline \in Seq(Rows)
    BY <1>1 DEF TypeInv, TypeOK, Copies
  <1>3. sent \in Seq(Events) /\ batch \in Seq(Events) /\ cursor.timeline \in Nat
    BY DEF TypeInv, TypeOK
  <1>4. QED BY <1>2, <1>3, LenProperties, ConcatProperties

LEMMA InitRows == Init => RowsInv
  <1> SUFFICES ASSUME Init PROVE RowsInv
    OBVIOUS
  <1>1. TypeInv
    BY InitTypes
  <1>2. sent = <<>> /\ batch = <<>> /\ ex.timeline = <<>> /\ projection.timeline = <<>>
          /\ cursor.timeline = 0 /\ pc = "poll" /\ reason = "none"
    BY NoneIsNoRecord DEF Init
  <1>3. IsPrefix(<<>>, record.timeline)
    BY <1>1, TimelineTypes, PrefixFacts
  <1>4. sent \o batch = <<>> /\ <<>> \in Seq(Events)
    <2>1. <<>> \in Seq(Events)
      OBVIOUS
    <2>2. QED BY <1>2, <2>1, ConcatEmptySeq
  <1>5. TellsRows(<<>>, record.timeline, 0, 0)
    <2>1. \A i \in 1 .. Len(<<>>) : ~ IsRow(<<>>[i])
      OBVIOUS
    <2>2. QED BY <1>4, <2>1, TellsNothing
  <1>6. FirstRows(sent, record.timeline)
    BY <1>2 DEF FirstRows
  <1>7. cursor.timeline <= Len(record.timeline)
    BY <1>1, <1>2, TimelineTypes
  <1>8. QED
    BY <1>2, <1>3, <1>4, <1>5, <1>6, <1>7 DEF RowsInv

\* The writers: the timeline only grows as long as no rows are taken back.
LEMMA GrowthKeepsRows ==
  ASSUME TypeInv, TypeInv', RowsInv,
         UNCHANGED <<ex, projection, cursor, batch, sent, pc, reason>>,
         ~ overwritten' => ~ overwritten /\ IsPrefix(record.timeline, record'.timeline)
  PROVE  RowsInv'
  <1> SUFFICES ASSUME ~ overwritten'
               PROVE  RowsInv'
    BY DEF RowsInv
  <1> DEFINE old == record.timeline
             new == record'.timeline
  <1>1. ~ overwritten /\ IsPrefix(old, new)
    OBVIOUS
  <1>2. /\ old \in Seq(Rows) /\ new \in Seq(Rows) /\ ex.timeline \in Seq(Rows)
        /\ projection.timeline \in Seq(Rows) /\ Len(old) \in Nat /\ Len(new) \in Nat
        /\ cursor.timeline \in Nat
    BY TimelineTypes, LenProperties DEF TypeInv, TypeOK
  <1>3. Len(old) <= Len(new) /\ \A i \in 1 .. Len(old) : old[i] = new[i]
    BY <1>1, <1>2, PrefixMeans
  <1>4. cursor.timeline <= Len(old) /\ cursor.timeline <= Len(new)
    BY <1>1, <1>2, <1>3 DEF RowsInv
  <1>5. FirstRows(sent, new)
    <2>1. FirstRows(sent, old)
      BY <1>1 DEF RowsInv
    <2>2. ASSUME NEW i \in DOMAIN sent, IsRow(sent[i])
          PROVE  RowsAmong(sent, i) <= Len(new) /\ sent[i].of = new[RowsAmong(sent, i)]
      <3> DEFINE n == RowsAmong(sent, i)
      <3>1. n <= Len(old) /\ sent[i].of = old[n]
        BY <2>1, <2>2 DEF FirstRows
      <3>2. n \in Nat /\ n # 0
        <4>1. i \in Nat /\ i - 1 \in Nat /\ i - 1 + 1 = i
          BY LenProperties, TimelineTypes
        <4>2. RowsAmong(sent, i - 1) \in Nat
                /\ RowsAmong(sent, i - 1 + 1) = RowsAmong(sent, i - 1) + (IF IsRow(sent[i - 1 + 1]) THEN 1 ELSE 0)
          BY <4>1, RowsAmongSteps
        <4>3. QED BY <2>2, <4>1, <4>2
      <3> HIDE DEF n, old, new
      <3>3. n \in 1 .. Len(old)
        BY <1>2, <3>1, <3>2
      <3>4. n <= Len(new) /\ sent[i].of = new[n]
        BY <1>2, <1>3, <3>1, <3>3
      <3>5. QED BY <3>4 DEF n
    <2>3. QED BY <2>2 DEF FirstRows
  <1>6. IsPrefix(ex.timeline, new) /\ IsPrefix(projection.timeline, new)
    <2>1. IsPrefix(ex.timeline, old) /\ IsPrefix(projection.timeline, old)
      BY <1>1 DEF RowsInv
    <2> HIDE DEF old, new
    <2>2. QED BY <1>1, <1>2, <2>1, PrefixFacts
  <1>7. pc # "closed" => TellsRows(sent \o batch, new, 0, cursor.timeline)
    <2>1. SUFFICES ASSUME pc # "closed" PROVE TellsRows(sent \o batch, new, 0, cursor.timeline)
      OBVIOUS
    <2>2. TellsRows(sent \o batch, old, 0, cursor.timeline)
      BY <1>1, <2>1 DEF RowsInv
    <2>3. \A n \in 0 + 1 .. cursor.timeline : old[n] = new[n]
      BY <1>2, <1>3, <1>4
    <2> HIDE DEF old, new
    <2>4. QED BY <2>2, <2>3, TellsOther
  <1>8. QED
    BY <1>1, <1>4, <1>5, <1>6, <1>7 DEF RowsInv

LEMMA WritersKeepRows ==
  TypeInv /\ TypeInv' /\ RowsInv /\ (DriverNext \/ ApproverNext \/ CancelReads \/ CancelWrites) => RowsInv'
  <1> SUFFICES ASSUME TypeInv, TypeInv', RowsInv,
                      DriverNext \/ ApproverNext \/ CancelReads \/ CancelWrites
               PROVE  RowsInv'
    OBVIOUS
  <1>1. UNCHANGED <<ex, projection, cursor, batch, sent, pc, reason>>
    BY DEF DriverNext, DriverRead, DriverWrite, DriverStep, ApproverNext, ApproverReads,
           ApproverWrites, CancelReads, CancelWrites, reads, output
  <1>2. \/ record' = record /\ overwritten' = overwritten
        \/ Overwrites(record')
    BY DEF DriverNext, DriverRead, DriverWrite, DriverStep, ApproverNext, ApproverReads,
           ApproverWrites, CancelReads, CancelWrites, stored
  <1>3. IsPrefix(record.timeline, record.timeline)
    BY TimelineTypes, PrefixFacts
  <1>4. ~ overwritten' => ~ overwritten /\ IsPrefix(record.timeline, record'.timeline)
    BY <1>2, <1>3 DEF Overwrites
  <1>5. QED BY <1>1, <1>4, GrowthKeepsRows

LEMMA PollKeepsRows == TypeInv /\ RowsInv /\ Poll => RowsInv'
  <1> SUFFICES ASSUME TypeInv, RowsInv, Poll PROVE RowsInv'
    OBVIOUS
  <1>1. /\ pc = "poll" /\ pc' \in {"closed", "project"} /\ ex' \in {ex, record}
        /\ UNCHANGED <<record, sent, batch, cursor, projection, overwritten>>
        /\ reason' # "terminal"
    BY DEF Poll, output, stored, TypeInv, TypeOK
  <1>2. IsPrefix(record.timeline, record.timeline)
    BY TimelineTypes, PrefixFacts
  <1>3. QED BY <1>1, <1>2 DEF RowsInv

LEMMA ProjectKeepsRows == TypeInv /\ RowsInv /\ (Project \/ ProjectSteps) => RowsInv'
  <1> SUFFICES ASSUME TypeInv, RowsInv, Project \/ ProjectSteps PROVE RowsInv'
    OBVIOUS
  <1>1. CASE Project
    <2>1. /\ pc = "project" /\ pc' = "steps" /\ projection'.timeline = record.timeline
          /\ UNCHANGED <<record, sent, batch, cursor, ex, reason, overwritten>>
      BY <1>1 DEF Project, output, stored
    <2>2. IsPrefix(record.timeline, record.timeline)
      BY TimelineTypes, PrefixFacts
    <2>3. ~ overwritten => Len(ex.timeline) <= Len(record.timeline)
      BY TimelineTypes, PrefixMeans DEF RowsInv
    <2>4. QED BY <2>1, <2>2, <2>3 DEF RowsInv
  <1>2. CASE ProjectSteps
    <2>1. /\ pc = "steps" /\ pc' = "approvals" /\ projection'.timeline = projection.timeline
          /\ UNCHANGED <<record, sent, batch, cursor, ex, reason, overwritten>>
      BY <1>2 DEF ProjectSteps, output, stored, TypeInv, TypeOK
    <2>2. QED BY <2>1 DEF RowsInv
  <1>3. QED BY <1>1, <1>2

LEMMA SleepKeepsRows == RowsInv /\ Sleep => RowsInv'
  BY DEF RowsInv, Sleep, output, stored, reads

LEMMA ReadRaisesKeepsRows == RowsInv /\ ReadRaises => RowsInv'
  BY DEF RowsInv, ReadRaises, output, stored, reads

\* The batch tells the rows past the cursor that were projected.
LEMMA EmittedTells ==
  ASSUME TypeInv, pc = "approvals", cursor.timeline <= Len(projection.timeline)
  PROVE  TellsRows(Emitted, projection.timeline, cursor.timeline, Len(projection.timeline))
  <1> DEFINE A == StatusEvents(ex.status)
             B == TimelineEvents(projection.timeline)
             C == StepEvents(projection.step)
             D == ApprovalEvents(approvals)
             S == PlainEvents
             tl == projection.timeline
             m == cursor.timeline
             n == Len(projection.timeline)
  <1>1. ex.status \in Statuses /\ tl \in Seq(Rows) /\ projection.step \in StepStatuses
          /\ m \in Nat /\ n \in Nat /\ m <= n /\ n <= n /\ m <= m
    BY TimelineTypes DEF TypeInv, TypeOK, HoldingInv, Copies
  <1>2. A \in Seq(S) /\ B \in Seq(S) /\ C \in Seq(S) /\ D \in Seq(S)
    BY <1>1, StatusEventsType, TimelineEventsType, StepEventsType, ApprovalEventsType
  <1>3. \A i \in 1 .. Len(A) : ~ IsRow(A[i])
    <2>1. \A status : Verdict(status) # "trace_event"
      BY VerdictType
    <2>2. QED BY <1>1, <2>1, StatusEventsShape DEF IsRow
  <1>4. \A i \in 1 .. Len(C) : ~ IsRow(C[i])
    BY DEF StepEvents, IsRow
  <1>5. \A i \in 1 .. Len(D) : ~ IsRow(D[i])
    BY DEF ApprovalEvents, IsRow
  <1>6. TellsRows(B, tl, m, n)
    BY <1>1, EventsOfRowsTell DEF TimelineEvents
  <1> HIDE DEF A, B, C, D, S, tl, m, n
  <1>7. TellsRows(A, tl, m, m) /\ TellsRows(C, tl, n, n) /\ TellsRows(D, tl, n, n)
    BY <1>1, <1>2, <1>3, <1>4, <1>5, TellsNothing
  <1>8. TellsRows(A \o B, tl, m, n) /\ A \o B \in Seq(S)
    BY <1>1, <1>2, <1>6, <1>7, TellsConcat, ConcatProperties
  <1>9. TellsRows(A \o B \o C, tl, m, n) /\ A \o B \o C \in Seq(S)
    BY <1>1, <1>2, <1>7, <1>8, TellsConcat, ConcatProperties
  <1>10. TellsRows(A \o B \o C \o D, tl, m, n)
    BY <1>1, <1>2, <1>7, <1>9, TellsConcat
  <1>11. QED BY <1>10 DEF A, B, C, D, tl, m, n, Emitted

LEMMA DiffKeepsRows == TypeInv /\ VerdictInv /\ RowsInv /\ Diff => RowsInv'
  <1> SUFFICES ASSUME TypeInv, VerdictInv, RowsInv, Diff, ~ overwritten PROVE RowsInv'
    BY DEF RowsInv, Diff
  <1> DEFINE m == cursor.timeline
             n == Len(projection.timeline)
             tl == record.timeline
  <1>1. /\ pc = "approvals" /\ pc' = "send"
        /\ UNCHANGED <<record, sent, ex, projection, reason, overwritten>>
        /\ batch' = Numbered(Emitted) /\ cursor'.timeline = n
    BY DEF Diff, Emitted, stored, reads
  <1>2. /\ batch = <<>> /\ sent \o batch = sent /\ sent \in Seq(Events)
        /\ tl \in Seq(Rows) /\ projection.timeline \in Seq(Rows) /\ Len(tl) \in Nat
        /\ m \in Nat /\ n \in Nat /\ m <= n /\ Emitted \in Seq(PlainEvents)
        /\ cursor.sequence \in Nat
    <2>1. batch = <<>> /\ sent \in Seq(Events)
      BY <1>1, TimelineTypes DEF VerdictInv
    <2>2. sent \o <<>> = sent
      BY <2>1, ConcatEmptySeq
    <2>3. m <= n
      BY <1>1 DEF RowsInv
    <2>4. cursor.sequence \in Nat
      BY DEF TypeInv, TypeOK
    <2>5. QED BY <1>1, <2>1, <2>2, <2>3, <2>4, TimelineTypes, EmittedType
  <1>3. n <= Len(tl) /\ \A i \in 1 .. n : projection.timeline[i] = tl[i]
    <2>1. IsPrefix(projection.timeline, tl)
      BY DEF RowsInv
    <2>2. QED BY <1>2, <2>1, PrefixMeans
  <1>4. TellsRows(batch', tl, m, n)
    <2>1. TellsRows(Emitted, projection.timeline, m, n)
      BY <1>1, <1>2, EmittedTells
    <2>2. \A i \in m + 1 .. n : projection.timeline[i] = tl[i]
      BY <1>2, <1>3
    <2> HIDE DEF m, n, tl
    <2>3. TellsRows(Emitted, tl, m, n)
      BY <2>1, <2>2, TellsOther
    <2>4. QED BY <1>1, <1>2, <2>3, NumberedTells
  <1>5. batch' \in Seq(Events)
    BY <1>1, <1>2, NumberedType
  <1>6. TellsRows(sent, tl, 0, m)
    BY <1>1, <1>2 DEF RowsInv
  <1>7. TellsRows(sent \o batch', tl, 0, n)
    <2>1. 0 \in Nat /\ 0 <= m
      BY <1>2
    <2> HIDE DEF m, n, tl
    <2>2. QED BY <1>2, <1>4, <1>5, <1>6, <2>1, TellsConcat
  <1>8. Len(ex.timeline) <= n
    BY <1>1 DEF RowsInv
  <1>9. QED
    BY <1>1, <1>3, <1>7, <1>8 DEF RowsInv

LEMMA DisconnectKeepsRows == TypeInv /\ RowsInv /\ Disconnect => RowsInv'
  <1> SUFFICES ASSUME TypeInv, RowsInv, Disconnect, ~ overwritten PROVE RowsInv'
    BY DEF RowsInv, Disconnect
  <1>1. PICK k \in 0 .. Len(batch) : sent' = sent \o SubSeq(batch, 1, k)
    BY DEF Disconnect
  <1>2. /\ pc \in {"send", "sleep"} /\ pc' = "closed" /\ reason' = "disconnected" /\ batch' = <<>>
        /\ UNCHANGED <<record, ex, projection, cursor, overwritten>>
    BY DEF Disconnect, stored, reads
  <1> DEFINE one == SubSeq(batch, 1, k)
             two == SubSeq(batch, k + 1, Len(batch))
  <1>3. one \in Seq(Events) /\ two \in Seq(Events) /\ batch = one \o two
    <2>1. batch \in Seq(Events) /\ Len(batch) \in Nat /\ k \in Nat /\ k <= Len(batch)
      BY TimelineTypes, LenProperties
    <2>2. \A i \in 1 .. Len(batch) : batch[i] \in Events
      BY <2>1, ElementOfSeq
    <2>3. one \in Seq(Events) /\ two \in Seq(Events)
      BY <2>1, <2>2, SubSeqProperties
    <2>4. SubSeq(batch, 1, k) \o SubSeq(batch, k + 1, Len(batch)) = SubSeq(batch, 1, Len(batch))
      <3>1. 1 \in 1 .. Len(batch) + 1 /\ k \in 1 - 1 .. Len(batch) /\ Len(batch) \in k .. Len(batch)
        BY <2>1
      <3>2. QED BY <2>1, <3>1, ConcatAdjacentSubSeq
    <2>5. SubSeq(batch, 1, Len(batch)) = batch
      BY <2>1, SubSeqFull
    <2>6. QED BY <2>3, <2>4, <2>5
  <1>4. sent \o batch = sent' \o two /\ sent' \in Seq(Events) /\ sent \in Seq(Events)
    <2>1. sent \in Seq(Events)
      BY TimelineTypes
    <2> HIDE DEF one, two
    <2>2. (sent \o one) \o two = sent \o (one \o two)
      BY <1>3, <2>1, ConcatAssociative
    <2>3. sent \o one \in Seq(Events)
      BY <1>3, <2>1, ConcatProperties
    <2>4. QED BY <1>1, <1>3, <2>1, <2>2, <2>3 DEF one
  <1>5. TellsRows(sent' \o two, record.timeline, 0, cursor.timeline)
    BY <1>2, <1>4 DEF RowsInv
  <1>6. FirstRows(sent', record.timeline)
    <2>1. cursor.timeline <= Len(record.timeline)
      BY DEF RowsInv
    <2> HIDE DEF two
    <2>2. QED BY <1>3, <1>4, <1>5, <2>1, TimelineTypes, PartHasFirstRows
  <1>7. QED
    BY <1>2, <1>6 DEF RowsInv

LEMMA SendKeepsRows == TypeInv /\ VerdictInv /\ RowsInv /\ Send => RowsInv'
  <1> SUFFICES ASSUME TypeInv, VerdictInv, RowsInv, Send, ~ overwritten PROVE RowsInv'
    BY DEF RowsInv, Send
  <1> DEFINE all == sent \o batch
             tl == record.timeline
  <1>1. /\ pc = "send" /\ reason = "none" /\ batch' = <<>>
        /\ UNCHANGED <<record, ex, projection, cursor, overwritten>>
    BY DEF Send, stored, reads, TypeInv, TypeOK
  <1>2. sent' = all
    <2>1. /\ Len(batch) \in 0 .. Len(batch) /\ all = sent \o SubSeq(batch, 1, Len(batch))
      <3>1. batch \in Seq(Events)
        BY TimelineTypes
      <3>2. Len(batch) \in Nat /\ SubSeq(batch, 1, Len(batch)) = batch
        BY <3>1, LenProperties, SubSeqFull
      <3>3. QED BY <3>2
    <2> HIDE DEF all
    <2>2. ex.status \in Terminal => Verdicts(all) # {}
      BY <1>1, <2>1, SentWithBatch
    <2>3. Verdicts(all) # {} => TerminalSent(all)
      BY DEF Verdicts, TerminalSent
    <2>4. QED BY <2>2, <2>3 DEF Send, all
  <1>3. all \in Seq(Events) /\ all \o <<>> = all
    BY TimelineTypes, ConcatEmptySeq
  <1>4. TellsRows(all, tl, 0, cursor.timeline)
    BY <1>1 DEF RowsInv
  <1>5. cursor.timeline <= Len(tl) /\ cursor.timeline \in Nat /\ Len(tl) \in Nat
    BY TimelineTypes DEF RowsInv
  <1>6. FirstRows(all, tl)
    <2>1. <<>> \in Seq(Events)
      OBVIOUS
    <2> HIDE DEF all, tl
    <2>2. TellsRows(all \o <<>>, tl, 0, cursor.timeline)
      BY <1>3, <1>4
    <2>3. QED BY <1>3, <1>5, <2>1, <2>2, PartHasFirstRows
  <1>7. AllRows(ex.timeline, all)
    <2>1. /\ Len(ex.timeline) <= cursor.timeline /\ IsPrefix(ex.timeline, tl)
          /\ Len(ex.timeline) \in Nat /\ DOMAIN ex.timeline = 1 .. Len(ex.timeline)
          /\ DOMAIN all = 1 .. Len(all) /\ Len(all) \in Nat
      BY <1>1, <1>3, TimelineTypes, LenProperties DEF RowsInv
    <2>2. \A n \in 1 .. Len(ex.timeline) : ex.timeline[n] = tl[n]
      BY <2>1, TimelineTypes, PrefixMeans
    <2> HIDE DEF all, tl
    <2>3. ASSUME NEW n \in 1 .. Len(ex.timeline)
          PROVE  \E i \in DOMAIN all :
                   IsRow(all[i]) /\ RowsAmong(all, i) = n /\ all[i].of = ex.timeline[n]
      <3>1. n \in 0 + 1 .. cursor.timeline
        BY <1>5, <2>1
      <3>2. PICK i \in DOMAIN all : IsRow(all[i]) /\ 0 + RowsAmong(all, i) = n
        BY <1>4, <3>1 DEF TellsRows
      <3>3. all[i].of = tl[0 + RowsAmong(all, i)] /\ RowsAmong(all, i) \in Nat
        <4>1. all[i].of = tl[0 + RowsAmong(all, i)]
          BY <1>4, <3>2 DEF TellsRows
        <4>2. i \in Nat
          BY <2>1
        <4>3. QED BY <4>1, <4>2, RowsAmongSteps
      <3>4. RowsAmong(all, i) = n
        BY <3>2, <3>3
      <3>5. QED BY <2>2, <3>2, <3>3, <3>4
    <2>4. QED BY <2>1, <2>3 DEF AllRows
  <1> HIDE DEF all
  <1>8. sent' \o batch' = sent' /\ pc' # "send"
    BY <1>1, <1>2, <1>3 DEF Send
  <1>9. QED
    BY <1>1, <1>2, <1>4, <1>5, <1>6, <1>7, <1>8 DEF RowsInv, Send

LEMMA RowsInvariance == Spec => []RowsInv
  <1>1. RowsInv /\ UNCHANGED vars => RowsInv'
    BY DEF RowsInv, vars, stored, output, reads
  <1>2. TypeInv /\ TypeInv' /\ VerdictInv /\ RowsInv /\ [Next]_vars => RowsInv'
    BY <1>1, WritersKeepRows, PollKeepsRows, ProjectKeepsRows, DiffKeepsRows, SendKeepsRows,
       SleepKeepsRows, DisconnectKeepsRows, ReadRaisesKeepsRows
       DEF Next, StreamNext, Closed
  <1>3. QED BY <1>2, InitRows, Typing, VerdictInvariance, PTL DEF Spec

(***************************************************************************)
(* Terminal is complete.                                                   *)
(***************************************************************************)
LEMMA StoredSteps == TypeInv /\ StoredInv /\ [Next]_vars => StoredInv'
  <1> SUFFICES ASSUME TypeInv, StoredInv, [Next]_vars, cancels' = 0 PROVE StoredInv'
    BY DEF StoredInv
  <1>1. op \in 1 .. 5 /\ cancels \in Nat /\ outcome \in {"completed", "failed", "awaiting_approval"}
    BY BoundAssumption DEF TypeInv, TypeOK
  <1>2. CASE DriverRead
    <2>1. /\ op \in {1, 4} /\ op' \in {op, 5} /\ UNCHANGED <<record, step, approvals, approver, cancels>>
          /\ op' = 5 => op = 5 \/ record.status \in Terminal
      BY <1>1, <1>2, ProgramShape DEF DriverRead, stored
    <2>2. op' = op
      BY <2>1 DEF StoredInv
    <2>3. QED BY <2>1, <2>2 DEF StoredInv
  <1>3. CASE DriverWrite
    <2>1. /\ op \in {1, 4} /\ op' = op + 1 /\ UNCHANGED <<step, approvals, approver, cancels>>
          /\ record'.status = Program[op].to
      BY <1>3 DEF DriverWrite, Written, TypeInv, HoldingInv
    <2>2. CASE op = 1
      <3>1. record'.status = "executing" /\ op' = 2
        BY <2>1, <2>2, ProgramShape
      <3>2. QED BY <2>1, <2>2, <3>1 DEF StoredInv, Terminal
    <2>3. CASE op = 4
      <3>1. op' = 5 /\ approver = "idle"
        BY <2>1, <2>3 DEF StoredInv
      <3>2. QED BY <2>1, <2>3, <3>1 DEF StoredInv
    <2>4. QED BY <2>1, <2>2, <2>3
  <1>4. CASE DriverStep
    <2>1. /\ op \in {2, 3} /\ op' = op + 1 /\ step' = Program[op].to
          /\ UNCHANGED <<record, approvals, approver, cancels>>
      BY <1>1, <1>4, ProgramShape DEF DriverStep
    <2>2. op = 3 => step' = "succeeded"
      BY <2>1, ProgramShape
    <2>3. QED BY <2>1, <2>2 DEF StoredInv
  <1>5. CASE ApproverReads
    BY <1>1, <1>5 DEF ApproverReads, StoredInv
  <1>6. CASE ApproverWrites
    <2>1. /\ approver = "saved" /\ approver' = "done" /\ record'.status \in {"completed", "failed"}
          /\ UNCHANGED <<step, approvals, op, cancels>>
      BY <1>6 DEF ApproverWrites, Written
    <2>2. op = 5
      BY <1>1, <2>1 DEF StoredInv
    <2>3. QED BY <2>1, <2>2 DEF StoredInv
  <1>7. CASE CancelReads
    BY <1>7 DEF CancelReads, StoredInv, stored
  <1>8. CASE CancelWrites
    BY <1>1, <1>8 DEF CancelWrites
  <1>9. CASE StreamNext \/ Disconnect \/ ReadRaises \/ Closed \/ UNCHANGED vars
    <2>1. UNCHANGED <<stored, writers>>
      BY <1>9 DEF StreamNext, Poll, Project, ProjectSteps, Diff, Send, Sleep, Disconnect, ReadRaises,
                  Closed, vars
    <2>2. QED BY <2>1 DEF StoredInv, stored, writers
  <1>10. QED
    BY <1>2, <1>3, <1>4, <1>5, <1>6, <1>7, <1>8, <1>9 DEF Next, DriverNext, ApproverNext

LEMMA StoredInvariance == Spec => []StoredInv
  <1>1. Init => StoredInv
    BY DEF Init, StoredInv, Terminal
  <1>2. QED BY <1>1, StoredSteps, Typing, PTL DEF Spec

LEMMA ToldInConcat ==
  ASSUME NEW S, NEW s \in Seq(S), NEW t \in Seq(S), NEW type, NEW of
  PROVE  /\ Told(s, type, of) => Told(s \o t, type, of)
         /\ Told(t, type, of) => Told(s \o t, type, of)
  <1>1. /\ Len(s) \in Nat /\ Len(t) \in Nat /\ DOMAIN s = 1 .. Len(s) /\ DOMAIN t = 1 .. Len(t)
        /\ DOMAIN (s \o t) = 1 .. Len(s) + Len(t)
    BY LenProperties, ConcatProperties
  <1>2. ASSUME NEW i \in 1 .. Len(s) PROVE (s \o t)[i] = s[i] /\ i \in 1 .. Len(s) + Len(t)
    BY <1>1, ConcatProperties
  <1>3. ASSUME NEW i \in 1 .. Len(t)
        PROVE  (s \o t)[Len(s) + i] = t[i] /\ Len(s) + i \in 1 .. Len(s) + Len(t)
    <2>1. Len(s) + i \in 1 .. Len(s) + Len(t) /\ Len(s) + i > Len(s) /\ Len(s) + i - Len(s) = i
      BY <1>1
    <2>2. QED BY <1>1, <2>1, ConcatProperties
  <1>4. Told(s, type, of) => Told(s \o t, type, of)
    BY <1>1, <1>2 DEF Told
  <1>5. Told(t, type, of) => Told(s \o t, type, of)
    BY <1>1, <1>3 DEF Told
  <1>6. QED BY <1>4, <1>5

\* A new status of the step and new approvals are in the batch.
LEMMA EmittedTold ==
  ASSUME TypeInv, pc = "approvals", NEW events, events = Numbered(Emitted)
  PROVE  /\ projection.step \notin {"absent", cursor.step} =>
              Told(events, "step_updated", projection.step)
         /\ approvals > cursor.approvals => Told(events, "execution_updated", "approval")
  <1> DEFINE A == StatusEvents(ex.status)
             B == TimelineEvents(projection.timeline)
             C == StepEvents(projection.step)
             D == ApprovalEvents(approvals)
             S == PlainEvents
  <1>1. ex.status \in Statuses /\ projection.step \in StepStatuses /\ cursor.sequence \in Nat
          /\ cursor.approvals \in Nat /\ approvals \in Nat /\ Emitted \in Seq(S)
    BY EmittedType DEF TypeInv, TypeOK
  <1>2. A \in Seq(S) /\ B \in Seq(S) /\ C \in Seq(S) /\ D \in Seq(S)
    BY <1>1, TimelineTypes, StatusEventsType, TimelineEventsType, StepEventsType, ApprovalEventsType
  <1>3. \A type, of : Told(Emitted, type, of) => Told(events, type, of)
    <2>1. /\ events \in Seq(Events) /\ Len(events) = Len(Emitted)
          /\ \A i \in 1 .. Len(Emitted) :
               events[i] = [type |-> Emitted[i].type, of |-> Emitted[i].of,
                            sequence |-> cursor.sequence + i]
      BY <1>1, NumberedType
    <2>2. DOMAIN events = 1 .. Len(Emitted) /\ DOMAIN Emitted = 1 .. Len(Emitted)
      BY <1>1, <2>1, LenProperties
    <2>3. \A i \in 1 .. Len(Emitted) :
             events[i].type = Emitted[i].type /\ events[i].of = Emitted[i].of
      <3> TAKE i \in 1 .. Len(Emitted)
      <3> DEFINE n == cursor.sequence + i
      <3>1. events[i] = [type |-> Emitted[i].type, of |-> Emitted[i].of, sequence |-> n]
        BY <2>1
      <3> HIDE DEF n
      <3>2. QED BY <3>1
    <2>4. QED BY <2>2, <2>3 DEF Told
  <1>4. projection.step \notin {"absent", cursor.step} => Told(C, "step_updated", projection.step)
    <2>1. SUFFICES ASSUME projection.step \notin {"absent", cursor.step}
                   PROVE  Told(C, "step_updated", projection.step)
      OBVIOUS
    <2>2. C = <<[type |-> "step_updated", of |-> projection.step]>>
      BY <2>1 DEF StepEvents
    <2>3. 1 \in DOMAIN C /\ C[1].type = "step_updated" /\ C[1].of = projection.step
      BY <2>2
    <2>4. QED BY <2>3 DEF Told
  <1>5. approvals > cursor.approvals => Told(D, "execution_updated", "approval")
    <2>1. SUFFICES ASSUME approvals > cursor.approvals PROVE Told(D, "execution_updated", "approval")
      OBVIOUS
    <2>2. D = <<[type |-> "execution_updated", of |-> "approval"]>>
      BY <1>1, <2>1 DEF ApprovalEvents
    <2>3. 1 \in DOMAIN D /\ D[1].type = "execution_updated" /\ D[1].of = "approval"
      BY <2>2
    <2>4. QED BY <2>3 DEF Told
  <1>6. \A type, of : Told(C, type, of) \/ Told(D, type, of) => Told(Emitted, type, of)
    <2> HIDE DEF A, B, C, D, S
    <2>1. A \o B \in Seq(S) /\ A \o B \o C \in Seq(S)
      BY <1>2, ConcatProperties
    <2>2. \A type, of : Told(C, type, of) => Told(A \o B \o C, type, of)
      BY <1>2, <2>1, ToldInConcat
    <2>3. \A type, of : Told(A \o B \o C, type, of) \/ Told(D, type, of)
                          => Told(A \o B \o C \o D, type, of)
      BY <1>2, <2>1, ToldInConcat
    <2>4. QED BY <2>2, <2>3 DEF A, B, C, D, Emitted
  <1>7. QED BY <1>3, <1>4, <1>5, <1>6

\* What was final when the stream read it stays as it is.
LEMMA EndedStays ==
  ASSUME TypeInv, [Next]_vars, cancels' = 0,
         op = 5, approver # "saved", record.status \in {"completed", "failed"}
  PROVE  cancels = 0 /\ UNCHANGED <<op, approver, record, step, approvals>>
  <1>1. cancels \in Nat
    BY BoundAssumption DEF TypeInv, TypeOK
  <1>2. ~ DriverNext
    BY ProgramShape DEF DriverNext, DriverRead, DriverWrite, DriverStep
  <1>3. ~ ApproverNext
    BY DEF ApproverNext, ApproverReads, ApproverWrites
  <1>4. ~ CancelWrites
    BY <1>1 DEF CancelWrites
  <1>5. ~ CancelReads
    BY DEF CancelReads, Terminal
  <1>6. UNCHANGED <<stored, writers>>
    BY <1>2, <1>3, <1>4, <1>5
       DEF Next, StreamNext, Poll, Project, ProjectSteps, Diff, Send, Sleep, Disconnect, ReadRaises,
           Closed, vars
  <1>7. QED BY <1>6 DEF stored, writers

LEMMA ToldSteps == TypeInv /\ VerdictInv /\ StoredInv /\ ToldInv /\ [Next]_vars => ToldInv'
  <1> SUFFICES ASSUME TypeInv, VerdictInv, StoredInv, ToldInv, [Next]_vars PROVE ToldInv'
    OBVIOUS
  <1> DEFINE ended == cancels = 0 /\ ex.status \in {"completed", "failed"}
             final == op = 5 /\ approver # "saved" /\ record.status \in {"completed", "failed"}
             tells == Told(sent, "step_updated", "succeeded")
                        /\ (approvals > 0 => Told(sent, "execution_updated", "approval"))
             open == /\ cursor.step # "absent" => Told(sent \o batch, "step_updated", cursor.step)
                     /\ cursor.approvals > 0 => Told(sent \o batch, "execution_updated", "approval")
  <1>1. op \in 1 .. 5 /\ cancels \in Nat /\ approvals \in Nat /\ cursor.approvals \in Nat
          /\ cursor.step \in StepStatuses
    BY BoundAssumption DEF TypeInv, TypeOK
  <1>2. ToldInv <=> /\ ended => final
                    /\ ended /\ pc \in {"approvals", "send"} => projection.step = "succeeded"
                    /\ pc # "closed" => open
                    /\ ended /\ pc = "send" => cursor.step = "succeeded" /\ approvals <= cursor.approvals
                    /\ ended /\ reason = "terminal" => tells
    BY DEF ToldInv
  <1>3. ToldInv' <=> /\ ended' => final'
                     /\ ended' /\ pc' \in {"approvals", "send"} => projection'.step = "succeeded"
                     /\ pc' # "closed" => open'
                     /\ ended' /\ pc' = "send" =>
                          cursor'.step = "succeeded" /\ approvals' <= cursor'.approvals
                     /\ ended' /\ reason' = "terminal" => tells'
    BY DEF ToldInv
  <1>4. final /\ cancels = 0 => step = "succeeded"
    BY DEF StoredInv
  <1>5. final /\ cancels' = 0 => final' /\ cancels = 0 /\ UNCHANGED <<step, approvals>>
    BY EndedStays
  <1>6. ASSUME UNCHANGED <<ex, projection, cursor, batch, sent, pc, reason>> PROVE ToldInv'
    <2>1. ended' => ended /\ final
      BY <1>1, <1>2, <1>6, BoundAssumption DEF Next, vars, writers, DriverNext, DriverRead, DriverWrite, DriverStep,
         ApproverNext, ApproverReads, ApproverWrites, CancelReads, CancelWrites, StreamNext, Poll,
         Project, ProjectSteps, Diff, Send, Sleep, Disconnect, ReadRaises, Closed
    <2>2. ended' => final' /\ UNCHANGED <<step, approvals>>
      BY <1>5, <2>1
    <2> HIDE DEF final
    <2>3. QED BY <1>2, <1>3, <1>6, <2>1, <2>2
  <1>7. CASE DriverNext \/ ApproverNext \/ CancelReads \/ CancelWrites \/ Closed \/ UNCHANGED vars
    <2>1. UNCHANGED <<ex, projection, cursor, batch, sent, pc, reason>>
      BY <1>7 DEF DriverNext, DriverRead, DriverWrite, DriverStep, ApproverNext, ApproverReads,
           ApproverWrites, CancelReads, CancelWrites, Closed, vars, reads, output
    <2>2. QED BY <1>6, <2>1
  <1>8. CASE StreamNext \/ Disconnect \/ ReadRaises
    <2>1. UNCHANGED <<stored, writers>>
      BY <1>8 DEF StreamNext, Poll, Project, ProjectSteps, Diff, Send, Sleep, Disconnect, ReadRaises
    <2>2. UNCHANGED <<record, step, approvals, op, approver, cancels>>
      BY <2>1 DEF stored, writers
    <2>3. CASE Poll
      <3>1. /\ pc = "poll" /\ pc' \in {"closed", "project"} /\ UNCHANGED <<sent, batch, cursor>>
            /\ IF pc' = "project" THEN ex' = record ELSE ex' = ex
            /\ reason' # "terminal"
        BY <2>3 DEF Poll, output, TypeInv, TypeOK
      <3>2. ended' => final
        <4>1. CASE ex' = ex
          BY <1>2, <2>2, <4>1
        <4>2. CASE ex' = record
          BY <1>1, <2>2, <4>2 DEF StoredInv, Terminal
        <4>3. QED BY <3>1, <4>1, <4>2
      <3>3. final => final'
        BY <2>2
      <3>4. pc # "closed" /\ (open => open')
        BY <3>1
      <3> HIDE DEF ended, final, tells, open
      <3>5. QED BY <1>2, <1>3, <3>1, <3>2, <3>3, <3>4
    <2>4. CASE Project
      <3>1. pc = "project" /\ pc' = "steps" /\ UNCHANGED <<sent, batch, cursor, ex, reason>>
        BY <2>4 DEF Project, output
      <3>2. QED BY <1>2, <1>3, <2>2, <3>1
    <2>5. CASE ProjectSteps
      <3>1. pc = "steps" /\ pc' = "approvals" /\ UNCHANGED <<sent, batch, cursor, ex, reason>>
              /\ projection'.step = step
        BY <2>5 DEF ProjectSteps, output, TypeInv, TypeOK
      <3>2. ended => projection'.step = "succeeded"
        BY <1>2, <1>4, <3>1
      <3>3. QED BY <1>2, <1>3, <2>2, <3>1, <3>2
    <2>6. CASE Diff
      <3>1. /\ pc = "approvals" /\ pc' = "send" /\ UNCHANGED <<sent, ex, projection, reason>>
            /\ batch' = Numbered(Emitted)
            /\ cursor'.step = IF projection.step = "absent" THEN cursor.step ELSE projection.step
            /\ cursor'.approvals = IF approvals > cursor.approvals THEN approvals ELSE cursor.approvals
        BY <2>6 DEF Diff, Emitted, reads
      <3>2. /\ batch = <<>> /\ sent \o batch = sent /\ sent \in Seq(Events) /\ batch' \in Seq(Events)
        <4>1. batch = <<>> /\ sent \in Seq(Events)
          BY <3>1, TimelineTypes DEF VerdictInv
        <4>2. batch' \in Seq(Events)
          BY <3>1, EmittedType, NumberedType DEF TypeInv, TypeOK
        <4>3. QED BY <4>1, <4>2, ConcatEmptySeq
      <3>3. \A type, of : Told(sent, type, of) \/ Told(batch', type, of) => Told(sent \o batch', type, of)
        BY <3>2, ToldInConcat
      <3>4. /\ projection.step \notin {"absent", cursor.step} =>
                 Told(batch', "step_updated", projection.step)
            /\ approvals > cursor.approvals => Told(batch', "execution_updated", "approval")
        BY <3>1, EmittedTold
      <3>5. /\ cursor.step # "absent" => Told(sent, "step_updated", cursor.step)
            /\ cursor.approvals > 0 => Told(sent, "execution_updated", "approval")
        BY <1>2, <3>1, <3>2
      <3>6. cursor'.step # "absent" => Told(sent \o batch', "step_updated", cursor'.step)
        BY <3>1, <3>3, <3>4, <3>5
      <3>7. cursor'.approvals > 0 => Told(sent \o batch', "execution_updated", "approval")
        BY <1>1, <3>1, <3>3, <3>4, <3>5
      <3>8. ended => cursor'.step = "succeeded"
        BY <1>2, <3>1
      <3>9. approvals <= cursor'.approvals
        BY <1>1, <3>1
      <3>10. reason' # "terminal"
        BY <3>1 DEF TypeInv, TypeOK
      <3>11. QED BY <1>2, <1>3, <2>2, <3>1, <3>6, <3>7, <3>8, <3>9, <3>10
    <2>7. CASE Send
      <3> DEFINE all == sent \o batch
      <3>1. /\ pc = "send" /\ batch' = <<>> /\ UNCHANGED <<ex, projection, cursor>>
            /\ pc' \in {"closed", "sleep"}
        BY <2>7 DEF Send, reads
      <3>2. sent' = all
        <4>1. /\ Len(batch) \in 0 .. Len(batch) /\ all = sent \o SubSeq(batch, 1, Len(batch))
          <5>1. batch \in Seq(Events)
            BY TimelineTypes
          <5>2. Len(batch) \in Nat /\ SubSeq(batch, 1, Len(batch)) = batch
            BY <5>1, LenProperties, SubSeqFull
          <5>3. QED BY <5>2
        <4> HIDE DEF all
        <4>2. ex.status \in Terminal => Verdicts(all) # {}
          BY <3>1, <4>1, SentWithBatch
        <4>3. Verdicts(all) # {} => TerminalSent(all)
          BY DEF Verdicts, TerminalSent
        <4>4. QED BY <2>7, <4>2, <4>3 DEF Send, all
      <3>3. sent' \o batch' = sent'
        BY <3>1, <3>2, TimelineTypes, ConcatEmptySeq
      <3>4. open'
        BY <1>2, <3>1, <3>2, <3>3
      <3>5. ended => tells'
        BY <1>1, <1>2, <2>2, <3>1, <3>2
      <3>6. ended' => ended /\ final'
        BY <1>2, <2>2, <3>1
      <3> HIDE DEF ended, tells, open, final
      <3>7. QED BY <1>3, <3>1, <3>4, <3>5, <3>6
    <2>8. CASE Sleep
      <3>1. pc = "sleep" /\ pc' = "poll" /\ UNCHANGED <<sent, batch, cursor, ex, reason>>
        BY <2>8 DEF Sleep, output, reads
      <3>2. QED BY <1>2, <1>3, <2>2, <3>1
    <2>9. CASE Disconnect
      <3>1. pc' = "closed" /\ reason' = "disconnected" /\ ex' = ex
        BY <2>9 DEF Disconnect, reads
      <3>2. QED BY <1>2, <1>3, <2>2, <3>1
    <2>10. CASE ReadRaises
      <3>1. pc' = "closed" /\ reason' = "error" /\ ex' = ex
        BY <2>10 DEF ReadRaises, reads
      <3>2. QED BY <1>2, <1>3, <2>2, <3>1
    <2>11. QED BY <1>8, <2>3, <2>4, <2>5, <2>6, <2>7, <2>8, <2>9, <2>10 DEF StreamNext
  <1>9. QED BY <1>7, <1>8 DEF Next

LEMMA InitTold == Init => ToldInv
  <1> SUFFICES ASSUME Init PROVE ToldInv
    OBVIOUS
  <1>1. ex.status = "none" /\ cursor.step = "absent" /\ cursor.approvals = 0
    BY NoneIsNoRecord DEF Init
  <1>2. QED BY <1>1 DEF ToldInv

LEMMA ToldInvariance == Spec => []ToldInv
  BY InitTold, ToldSteps, Typing, VerdictInvariance, StoredInvariance, PTL DEF Spec

(***************************************************************************)
(* The theorems.                                                           *)
(***************************************************************************)
\* Every state of every behaviour has its type: in particular no poll starts after the
\* time limit, whatever limit and heartbeat are configured (stream_execution_sse).
THEOREM StreamTypeCorrect == Spec => []TypeOK
  BY Typing, PTL DEF TypeInv

\* However many cancellations race with the driver and the approver, a stream tells of
\* one end, the one it stops for, and numbers its events without a gap.
THEOREM OneVerdictOnly == Spec => []OneVerdict
  BY VerdictInvariance, PTL DEF VerdictInv

\* The rows the client was sent are the first rows of the timeline, each once and in
\* order, for timelines and batches of any length.
THEOREM RowsArriveInOrder == Spec => []RowsInOrder
  <1>1. RowsInv => RowsInOrder
    BY DEF RowsInv, RowsInOrder
  <1>2. QED BY <1>1, RowsInvariance, PTL

\* A stream that ended at a terminal status has told what was stored before it.
THEOREM TerminalStreamsAreComplete == Spec => []TerminalIsComplete
  <1>1. TypeInv /\ VerdictInv /\ RowsInv /\ StoredInv /\ ToldInv => TerminalIsComplete
    <2> SUFFICES ASSUME TypeInv, VerdictInv, RowsInv, StoredInv, ToldInv, reason = "terminal"
                 PROVE  /\ ~ overwritten => AllRows(ex.timeline, sent)
                        /\ ex.status # "cancelled" /\ cancels = 0 =>
                             /\ \E i \in DOMAIN sent :
                                  sent[i] = [type |-> "step_updated", of |-> "succeeded", sequence |-> i]
                             /\ approvals > 0 => \E i \in DOMAIN sent :
                                  sent[i] = [type |-> "execution_updated", of |-> "approval", sequence |-> i]
      BY DEF TerminalIsComplete
    <2>1. ~ overwritten => AllRows(ex.timeline, sent)
      BY DEF RowsInv
    <2>2. ASSUME NEW type, NEW of, Told(sent, type, of)
          PROVE  \E i \in DOMAIN sent : sent[i] = [type |-> type, of |-> of, sequence |-> i]
      <3>1. PICK i \in DOMAIN sent : sent[i].type = type /\ sent[i].of = of
        BY <2>2 DEF Told
      <3>2. sent[i] \in Events /\ sent[i].sequence = i
        BY <3>1, TimelineTypes, LenProperties, ElementOfSeq DEF VerdictInv, OneVerdict
      <3>3. sent[i] = [type |-> type, of |-> of, sequence |-> i]
        BY <3>1, <3>2 DEF Events
      <3>4. QED BY <3>1, <3>3
    <2>3. ex.status \in Terminal
      BY DEF VerdictInv
    <2>4. ASSUME ex.status # "cancelled", cancels = 0
          PROVE  /\ Told(sent, "step_updated", "succeeded")
                 /\ approvals > 0 => Told(sent, "execution_updated", "approval")
      BY <2>3, <2>4 DEF ToldInv, Terminal
    <2>5. QED BY <2>1, <2>2, <2>4
  <1>2. QED BY <1>1, Typing, VerdictInvariance, RowsInvariance, StoredInvariance, ToldInvariance, PTL
===============================================================================
