----------------------------- MODULE InsightsProofs -----------------------------
(***************************************************************************)
(* Whatever drivers, operators and the pipeline do in between, PostgreSQL  *)
(* turns no row away, an answer speaks only of executions of the caller's  *)
(* tenant, what the pipeline stores of an execution is true and stays so,  *)
(* insights count the stored rows, and an anomaly report shows what the    *)
(* tables do: for all executions, fates, headers and earlier rows.         *)
(***************************************************************************)
EXTENDS Insights, InductionLemmas, FiniteSetTheorems

(***************************************************************************)
(* The writes of a driver refer to rows written earlier.                   *)
(***************************************************************************)
Id(w) == <<w.table, w.key>>
Ids(s) == {Id(s[i]) : i \in 1 .. Len(s)}

\* A write that is accepted when the known rows are stored, and is x's own.
Fits(w, x, tenant, known) ==
  /\ w.table \in DOMAIN ForeignKeys \ {"operator_feedback", "execution_feedback"} /\ Checked(w.table, w.row)
  /\ \A fk \in ForeignKeys[w.table] : fk[1] \in DOMAIN w.row => <<fk[2], w.row[fk[1]]>> \in known
  /\ w.table = "contexts" => w.key = Context(x) /\ w.row.tenant_id = tenant
  /\ w.table = "executions" => /\ w.key = x /\ w.row.execution_id = x
                               /\ {"execution_id", "execution_context_id", "workflow_type", "status",
                                   "created_at"} \subseteq DOMAIN w.row
                               /\ w.row.execution_context_id = Context(x)
                               /\ w.row.workflow_type = Workflows[x] /\ w.row.created_at = Born[x]
  /\ w.table = "plans" => w.key = PlanId(x) /\ w.row.execution_id = x
  /\ w.table = "steps" => w.row.execution_id = x /\ \E n : w.key = StepId(x, n)
  /\ w.table = "tool_calls" => /\ w.row.execution_id = x /\ {"step_id", "tool_name", "status"} \subseteq DOMAIN w.row
                               /\ \E n : w.row.step_id = StepId(x, n)

Closed(s, x, tenant, known) ==
  /\ IsSeq(s)
  /\ \A i \in 1 .. Len(s) : Fits(s[i], x, tenant, known \cup {Id(s[j]) : j \in 1 .. i - 1})

LEMMA FitsMore ==
  ASSUME NEW w, NEW x, NEW tenant, NEW known, NEW more, Fits(w, x, tenant, known), known \subseteq more
  PROVE  Fits(w, x, tenant, more)
  BY DEF Fits

\* Writes that all fit may come in any order.
LEMMA AllClosed ==
  ASSUME NEW s, NEW x, NEW tenant, NEW known, IsSeq(s), \A w \in ToSet(s) : Fits(w, x, tenant, known)
  PROVE  Closed(s, x, tenant, known)
  <1>1. ASSUME NEW i \in 1 .. Len(s)
        PROVE  Fits(s[i], x, tenant, known \cup {Id(s[j]) : j \in 1 .. i - 1})
    <2>1. Fits(s[i], x, tenant, known)
      BY SeqDomain
    <2>2. PICK more : more = known \cup {Id(s[j]) : j \in 1 .. i - 1}
      OBVIOUS
    <2>3. known \subseteq more
      BY <2>2
    <2>4. QED BY <2>1, <2>2, <2>3, FitsMore
  <1>2. QED BY <1>1 DEF Closed

LEMMA ConcatClosed ==
  ASSUME NEW a, NEW b, NEW x, NEW tenant, NEW known,
         Closed(a, x, tenant, known), Closed(b, x, tenant, known \cup Ids(a))
  PROVE  /\ Closed(a \o b, x, tenant, known)
         /\ Ids(a \o b) = Ids(a) \cup Ids(b)
  <1>1. IsSeq(a) /\ IsSeq(b)
    BY DEF Closed
  <1>2. PICK c : c = a \o b
    OBVIOUS
  <1>3. /\ IsSeq(c) /\ Len(c) = Len(a) + Len(b) /\ Len(a) \in Nat /\ Len(b) \in Nat
        /\ \A i \in 1 .. Len(a) : c[i] = a[i]
        /\ \A i \in 1 .. Len(b) : c[Len(a) + i] = b[i]
    BY <1>1, <1>2, Concatenation, SeqDomain
  <1>4. \A i \in 1 .. Len(c) : i \in 1 .. Len(a) \/ (i - Len(a) \in 1 .. Len(b) /\ i = Len(a) + (i - Len(a)))
    BY <1>3
  <1>5. \A i \in 1 .. Len(a) : i \in 1 .. Len(c)
    BY <1>3
  <1>6. \A i \in 1 .. Len(b) : Len(a) + i \in 1 .. Len(c)
    BY <1>3
  <1>7. Ids(c) = Ids(a) \cup Ids(b)
    <2>1. Ids(a) \subseteq Ids(c)
      BY <1>3, <1>5 DEF Ids
    <2>2. Ids(b) \subseteq Ids(c)
      BY <1>3, <1>6 DEF Ids
    <2>3. ASSUME NEW i \in 1 .. Len(c) PROVE Id(c[i]) \in Ids(a) \cup Ids(b)
      <3>1. CASE i \in 1 .. Len(a)
        BY <1>3, <3>1 DEF Ids
      <3>2. CASE i \notin 1 .. Len(a)
        <4>1. PICK k \in 1 .. Len(b) : i = Len(a) + k
          BY <1>4, <3>2
        <4>2. QED BY <1>3, <4>1 DEF Ids
      <3>3. QED BY <3>1, <3>2
    <2>4. Ids(c) \subseteq Ids(a) \cup Ids(b)
      BY <2>3 DEF Ids
    <2>5. QED BY <2>1, <2>2, <2>4
  <1>8. ASSUME NEW i \in 1 .. Len(c)
        PROVE  Fits(c[i], x, tenant, known \cup {Id(c[j]) : j \in 1 .. i - 1})
    <2>1. PICK before : before = {Id(c[j]) : j \in 1 .. i - 1}
      OBVIOUS
    <2>2. CASE i \in 1 .. Len(a)
      <3>1. PICK more : more = {Id(a[j]) : j \in 1 .. i - 1}
        OBVIOUS
      <3>2. \A j \in 1 .. i - 1 : c[j] = a[j]
        BY <1>3, <2>2
      <3>3. before = more
        BY <2>1, <3>1, <3>2
      <3>4. Fits(a[i], x, tenant, known \cup more)
        BY <2>2, <3>1 DEF Closed
      <3>5. QED BY <1>3, <2>1, <2>2, <3>3, <3>4
    <2>3. CASE i \notin 1 .. Len(a)
      <3>1. PICK k \in 1 .. Len(b) : i = Len(a) + k
        BY <1>4, <2>3
      <3>2. PICK more : more = (known \cup Ids(a)) \cup {Id(b[j]) : j \in 1 .. k - 1}
        OBVIOUS
      <3>3. Fits(b[k], x, tenant, more)
        BY <3>2 DEF Closed
      <3>4. \A j \in 1 .. Len(a) : j \in 1 .. i - 1
        BY <1>3, <3>1
      <3>5. \A j \in 1 .. k - 1 : Len(a) + j \in 1 .. i - 1 /\ j \in 1 .. Len(b)
        BY <1>3, <3>1
      <3>6. Ids(a) \subseteq before
        BY <1>3, <2>1, <3>4 DEF Ids
      <3>7. {Id(b[j]) : j \in 1 .. k - 1} \subseteq before
        BY <1>3, <2>1, <3>5
      <3>8. more \subseteq known \cup before
        BY <3>2, <3>6, <3>7
      <3>9. Fits(b[k], x, tenant, known \cup before)
        <4>1. PICK all : all = known \cup before
          OBVIOUS
        <4>2. QED BY <3>3, <3>8, <4>1, FitsMore
      <3>10. QED BY <1>3, <2>1, <3>1, <3>9
    <2>4. QED BY <2>2, <2>3
  <1>9. Closed(c, x, tenant, known)
    BY <1>3, <1>8 DEF Closed
  <1>10. QED BY <1>2, <1>7, <1>9
LEMMA PlansAreSeqs ==
  ASSUME NEW x \in Executions
  PROVE  IsSeq(StepsOfPlan(x)) /\ Len(StepsOfPlan(x)) \in Nat \ {0}
  <1>1. Workflows[x] \in {"incident_triage", "cost_attribution", "default"}
    BY ExecutionsAssumption DEF Workflow
  <1>2. PICK plan : plan = StepsOfPlan(x)
    OBVIOUS
  <1>3. /\ IsSeq(Plan.incident_triage) /\ Len(Plan.incident_triage) = 3
        /\ IsSeq(Plan.cost_attribution) /\ Len(Plan.cost_attribution) = 4
        /\ IsSeq(Plan.default) /\ Len(Plan.default) = 2
    <2>1. ASSUME NEW a, NEW b PROVE IsSeq(<<a, b>>) /\ Len(<<a, b>>) = 2
      BY DEF IsSeq, ToSet
    <2>2. ASSUME NEW a, NEW b, NEW c PROVE IsSeq(<<a, b, c>>) /\ Len(<<a, b, c>>) = 3
      BY DEF IsSeq, ToSet
    <2>3. ASSUME NEW a, NEW b, NEW c, NEW d PROVE IsSeq(<<a, b, c, d>>) /\ Len(<<a, b, c, d>>) = 4
      BY DEF IsSeq, ToSet
    <2>4. QED BY <2>1, <2>2, <2>3 DEF Plan
  <1>4. plan \in {Plan.incident_triage, Plan.cost_attribution, Plan.default}
    BY <1>1, <1>2 DEF StepsOfPlan
  <1>5. IsSeq(plan) /\ Len(plan) \in {2, 3, 4}
    BY <1>3, <1>4, Zenon
  <1>6. QED BY <1>2, <1>5

\* The rows that PlanWrites leaves behind: all that later ones refer to, but for the
\* proposal and its evaluation.
Base(x) ==
  {<<"contexts", Context(x)>>, <<"executions", x>>, <<"plans", PlanId(x)>>}
  \cup {<<"steps", StepId(x, n)>> : n \in 1 .. Len(StepsOfPlan(x))}

LEMMA ContextFits ==
  ASSUME NEW x, NEW tenant, NEW known
  PROVE  Fits(Write("contexts", Context(x), [tenant_id |-> tenant]), x, tenant, known)
  BY DEF Fits, Write, ForeignKeys, Checked

LEMMA RecordFits ==
  ASSUME NEW x, NEW tenant, NEW status, NEW timeline, NEW known, <<"contexts", Context(x)>> \in known
  PROVE  Fits(Write("executions", x, Record(x, status, timeline)), x, tenant, known)
  <1>1. PICK row : row = Record(x, status, timeline)
    OBVIOUS
  <1>2. /\ DOMAIN row = {"execution_id", "workflow_type", "status", "trace_timeline", "created_at",
                         "execution_context_id"}
        /\ row.execution_id = x /\ row.execution_context_id = Context(x)
        /\ row.workflow_type = Workflows[x] /\ row.created_at = Born[x]
    BY <1>1 DEF Record
  <1>3. QED BY <1>1, <1>2 DEF Fits, Write, ForeignKeys, Checked

LEMMA PlannedFits ==
  ASSUME NEW x, NEW tenant, NEW status, NEW timeline, NEW known,
         {<<"contexts", Context(x)>>, <<"plans", PlanId(x)>>} \subseteq known
  PROVE  Fits(Planned(x, status, timeline), x, tenant, known)
  <1>1. PICK row : row = Record(x, status, timeline)
    OBVIOUS
  <1>2. /\ DOMAIN row = {"execution_id", "workflow_type", "status", "trace_timeline", "created_at",
                         "execution_context_id"}
        /\ row.execution_id = x /\ row.execution_context_id = Context(x)
        /\ row.workflow_type = Workflows[x] /\ row.created_at = Born[x]
    BY <1>1 DEF Record
  <1>3. PICK next : next = With(row, "current_plan_id", PlanId(x))
    OBVIOUS
  <1>4. /\ DOMAIN next = DOMAIN row \cup {"current_plan_id"} /\ next.current_plan_id = PlanId(x)
        /\ next.execution_id = x /\ next.execution_context_id = Context(x)
        /\ next.workflow_type = Workflows[x] /\ next.created_at = Born[x]
    BY <1>2, <1>3 DEF With, Merged
  <1>5. Planned(x, status, timeline) = Write("executions", x, next)
    BY <1>1, <1>3 DEF Planned
  <1>6. QED BY <1>2, <1>4, <1>5 DEF Fits, Write, ForeignKeys, Checked

LEMMA PlanFits ==
  ASSUME NEW x, NEW tenant, NEW known, <<"executions", x>> \in known
  PROVE  Fits(Write("plans", PlanId(x), [execution_id |-> x, plan_version |-> 1]), x, tenant, known)
  BY DEF Fits, Write, ForeignKeys, Checked

LEMMA StepRowFits ==
  ASSUME NEW x, NEW tenant, NEW n, NEW status, NEW known,
         {<<"executions", x>>, <<"plans", PlanId(x)>>} \subseteq known
  PROVE  Fits(StepRow(x, n, status), x, tenant, known)
  <1>1. PICK type : type = StepType(StepsOfPlan(x)[n])
    OBVIOUS
  <1>2. PICK row : row = [execution_id |-> x, plan_id |-> PlanId(x), type |-> type, status |-> status]
    OBVIOUS
  <1>3. StepRow(x, n, status) = Write("steps", StepId(x, n), row)
    BY <1>1, <1>2 DEF StepRow
  <1>4. DOMAIN row = {"execution_id", "plan_id", "type", "status"} /\ row.execution_id = x /\ row.plan_id = PlanId(x)
    BY <1>2
  <1>5. QED BY <1>3, <1>4 DEF Fits, Write, ForeignKeys, Checked

LEMMA ProposalFits ==
  ASSUME NEW x \in Executions, NEW tenant, NEW status, NEW known, Base(x) \subseteq known
  PROVE  Fits(ProposalRow(x, status), x, tenant, known)
  <1>1. PICK n \in 1 .. Len(StepsOfPlan(x)) : n = Len(StepsOfPlan(x))
    BY PlansAreSeqs
  <1>2. <<"steps", StepId(x, n)>> \in known /\ <<"executions", x>> \in known
    BY DEF Base
  <1>3. ProposalRow(x, status) =
          Write("proposals", Proposal(x), [execution_id |-> x, step_id |-> StepId(x, n), status |-> status])
    BY <1>1 DEF ProposalRow
  <1>4. QED BY <1>2, <1>3 DEF Fits, Write, ForeignKeys, Checked

LEMMA CombinedIsSeq ==
  ASSUME NEW n \in Nat, NEW s, s = [i \in 1 .. n |-> s[i]], NEW x, NEW tenant, NEW known,
         \A i \in 1 .. n : Fits(s[i], x, tenant, known)
  PROVE  /\ IsSeq(s) /\ \A w \in ToSet(s) : Fits(w, x, tenant, known)
         /\ Closed(s, x, tenant, known) /\ Ids(s) = {Id(s[i]) : i \in 1 .. n}
  <1>1. IsSeq(s) /\ Len(s) = n /\ ToSet(s) = {s[i] : i \in 1 .. n}
    BY SeqByPlaces
  <1>2. \A w \in ToSet(s) : Fits(w, x, tenant, known)
    BY <1>1
  <1>3. Closed(s, x, tenant, known)
    BY <1>1, <1>2, AllClosed
  <1>4. QED BY <1>1, <1>2, <1>3 DEF Ids

LEMMA OneClosed ==
  ASSUME NEW w, NEW x, NEW tenant, NEW known, Fits(w, x, tenant, known)
  PROVE  /\ Closed(<<w>>, x, tenant, known) /\ Ids(<<w>>) = {Id(w)}
         /\ IsSeq(<<w>>) /\ \A v \in ToSet(<<w>>) : Fits(v, x, tenant, known)
  <1>1. PICK s : s = <<w>>
    OBVIOUS
  <1>2. IsSeq(s) /\ ToSet(s) = {w} /\ Len(s) = 1
    BY <1>1, OneElement
  <1>3. Closed(s, x, tenant, known)
    BY <1>2, AllClosed
  <1>4. Ids(s) = {Id(w)}
    BY <1>1, <1>2 DEF Ids
  <1>5. QED BY <1>1, <1>2, <1>3, <1>4

LEMMA TwoClosed ==
  ASSUME NEW a, NEW b, NEW x, NEW tenant, NEW known,
         Fits(a, x, tenant, known), Fits(b, x, tenant, known)
  PROVE  /\ Closed(<<a, b>>, x, tenant, known) /\ Ids(<<a, b>>) = {Id(a), Id(b)}
         /\ IsSeq(<<a, b>>) /\ \A v \in ToSet(<<a, b>>) : Fits(v, x, tenant, known)
  <1>1. PICK s : s = <<a, b>>
    OBVIOUS
  <1>2. IsSeq(s) /\ ToSet(s) = {a, b} /\ Len(s) = 2
    BY <1>1 DEF IsSeq, ToSet
  <1>3. \A v \in ToSet(s) : Fits(v, x, tenant, known)
    BY <1>2
  <1>4. Closed(s, x, tenant, known)
    BY <1>2, <1>3, AllClosed
  <1>5. Ids(s) = {Id(a), Id(b)}
    BY <1>1, <1>2 DEF Ids
  <1>6. QED BY <1>1, <1>2, <1>3, <1>4, <1>5

\* Two sequences of writes that fit.
LEMMA BothFit ==
  ASSUME NEW a, NEW b, NEW x, NEW tenant, NEW known, IsSeq(a), IsSeq(b),
         \A w \in ToSet(a) \cup ToSet(b) : Fits(w, x, tenant, known)
  PROVE  IsSeq(a \o b) /\ \A w \in ToSet(a \o b) : Fits(w, x, tenant, known)
  BY Concatenation

LEMMA OpeningClosed ==
  ASSUME NEW x, NEW tenant
  PROVE  /\ Closed(Opening(x, tenant), x, tenant, {})
         /\ Ids(Opening(x, tenant)) = {<<"contexts", Context(x)>>, <<"executions", x>>}
  <1>1. PICK c : c = Write("contexts", Context(x), [tenant_id |-> tenant])
    OBVIOUS
  <1>2. PICK e : e = Write("executions", x, Record(x, "created", <<>>))
    OBVIOUS
  <1>3. Id(c) = <<"contexts", Context(x)>> /\ Id(e) = <<"executions", x>>
    BY <1>1, <1>2 DEF Id, Write
  <1>4. PICK s : s = <<c, e>>
    OBVIOUS
  <1>5. IsSeq(s) /\ Len(s) = 2 /\ s[1] = c /\ s[2] = e
    <2>1. s \in Seq({c, e})
      BY <1>4
    <2>2. QED BY <1>4, <2>1, SequencesAreSeq
  <1>6. Fits(s[1], x, tenant, {} \cup {Id(s[j]) : j \in 1 .. 1 - 1})
    <2>1. PICK known : known = {} \cup {Id(s[j]) : j \in 1 .. 1 - 1}
      OBVIOUS
    <2>2. Fits(c, x, tenant, known)
      BY <1>1, ContextFits
    <2>3. QED BY <1>5, <2>1, <2>2
  <1>7. Fits(s[2], x, tenant, {} \cup {Id(s[j]) : j \in 1 .. 2 - 1})
    <2>1. PICK known : known = {} \cup {Id(s[j]) : j \in 1 .. 2 - 1}
      OBVIOUS
    <2>2. <<"contexts", Context(x)>> \in known
      BY <1>3, <1>5, <2>1
    <2>3. Fits(e, x, tenant, known)
      BY <1>2, <2>2, RecordFits
    <2>4. QED BY <1>5, <2>1, <2>3
  <1>8. \A i \in 1 .. Len(s) : i = 1 \/ i = 2
    BY <1>5
  <1>9. Closed(s, x, tenant, {})
    BY <1>5, <1>6, <1>7, <1>8 DEF Closed
  <1>10. Ids(s) = {Id(c), Id(e)}
    BY <1>5, <1>8 DEF Ids
  <1>11. Opening(x, tenant) = s
    BY <1>1, <1>2, <1>4 DEF Opening
  <1>12. QED BY <1>3, <1>9, <1>10, <1>11

LEMMA PlanWritesClosed ==
  ASSUME NEW x \in Executions, NEW tenant,
         NEW known, known = {<<"contexts", Context(x)>>, <<"executions", x>>}
  PROVE  /\ Closed(PlanWrites(x), x, tenant, known)
         /\ Base(x) \subseteq known \cup Ids(PlanWrites(x))
  <1>1. PICK e : e = Write("executions", x, Record(x, "planning", <<>>))
    OBVIOUS
  <1>2. PICK p : p = Write("plans", PlanId(x), [execution_id |-> x, plan_version |-> 1])
    OBVIOUS
  <1>3. PICK n \in Nat : n = Len(StepsOfPlan(x)) /\ DOMAIN StepsOfPlan(x) = 1 .. n
    BY PlansAreSeqs, SeqDomain
  <1>4. PICK steps : steps = [i \in 1 .. n |-> StepRow(x, i, "pending")]
    OBVIOUS
  <1>5. PICK last : last = Planned(x, "executing", <<>>)
    OBVIOUS
  <1>6. PICK a : a = <<e, p>>
    OBVIOUS
  <1>7. PlanWrites(x) = (a \o steps) \o <<last>>
    BY <1>1, <1>2, <1>3, <1>4, <1>5, <1>6 DEF PlanWrites
  <1>8. Closed(a, x, tenant, known) /\ Ids(a) = {Id(e), Id(p)}
    <2>1. Fits(e, x, tenant, known) /\ Fits(p, x, tenant, known)
      BY <1>1, <1>2, RecordFits, PlanFits
    <2>2. QED BY <1>6, <2>1, TwoClosed
  <1>9. Id(p) = <<"plans", PlanId(x)>>
    BY <1>2 DEF Id, Write
  <1>10. PICK more : more = known \cup Ids(a)
    OBVIOUS
  <1>11. {<<"contexts", Context(x)>>, <<"executions", x>>, <<"plans", PlanId(x)>>} \subseteq more
    BY <1>8, <1>9, <1>10
  <1>12. Closed(steps, x, tenant, more) /\ Ids(steps) = {Id(steps[i]) : i \in 1 .. n}
    <2>1. \A i \in 1 .. n : Fits(steps[i], x, tenant, more)
      BY <1>4, <1>11, StepRowFits
    <2>2. steps = [i \in 1 .. n |-> steps[i]]
      BY <1>4
    <2>3. QED BY <2>1, <2>2, CombinedIsSeq
  <1>13. \A i \in 1 .. n : Id(steps[i]) = <<"steps", StepId(x, i)>>
    BY <1>4 DEF Id, StepRow, Write
  <1>14. PICK most : most = a \o steps
    OBVIOUS
  <1>15. Closed(most, x, tenant, known) /\ Ids(most) = Ids(a) \cup Ids(steps)
    BY <1>8, <1>10, <1>12, <1>14, ConcatClosed
  <1>16. PICK all : all = known \cup Ids(most)
    OBVIOUS
  <1>17. more \subseteq all
    BY <1>10, <1>15, <1>16
  <1>18. Closed(<<last>>, x, tenant, all)
    <2>1. Fits(last, x, tenant, all)
      BY <1>5, <1>11, <1>17, PlannedFits
    <2>2. QED BY <2>1, OneClosed
  <1>19. PICK one : one = <<last>>
    OBVIOUS
  <1>20. PICK whole : whole = most \o one
    OBVIOUS
  <1>21. Closed(whole, x, tenant, known) /\ Ids(whole) = Ids(most) \cup Ids(one)
    BY <1>15, <1>16, <1>18, <1>19, <1>20, ConcatClosed
  <1>22. {<<"steps", StepId(x, i)>> : i \in 1 .. n} \subseteq Ids(steps)
    BY <1>12, <1>13
  <1>23. Base(x) \subseteq known \cup Ids(whole)
    BY <1>3, <1>10, <1>11, <1>15, <1>21, <1>22 DEF Base
  <1>24. PlanWrites(x) = whole
    BY <1>7, <1>14, <1>19, <1>20
  <1>25. QED BY <1>21, <1>23, <1>24

\* _run_step writes rows of x that refer to what PlanWrites has written.
LEMMA StepWritesFit ==
  ASSUME NEW x \in Executions, NEW f, NEW n \in 1 .. Len(StepsOfPlan(x)), NEW tenant,
         NEW known, Base(x) \subseteq known
  PROVE  IsSeq(StepWrites(x, f, n)) /\ \A w \in ToSet(StepWrites(x, f, n)) : Fits(w, x, tenant, known)
  <1> DEFINE Good(s) == IsSeq(s) /\ \A w \in ToSet(s) : Fits(w, x, tenant, known)
  <1>1. PICK name : name = StepsOfPlan(x)[n]
    OBVIOUS
  <1>2. /\ {<<"contexts", Context(x)>>, <<"executions", x>>, <<"plans", PlanId(x)>>} \subseteq known
        /\ <<"steps", StepId(x, n)>> \in known
    BY DEF Base
  <1>3. ASSUME NEW status, NEW timeline PROVE Good(<<Planned(x, status, timeline)>>) /\ Good(<<>>)
    <2>1. Fits(Planned(x, status, timeline), x, tenant, known)
      BY <1>2, PlannedFits
    <2>2. PICK w : w = Planned(x, status, timeline)
      OBVIOUS
    <2>3. Good(<<w>>)
      BY <2>1, <2>2, OneClosed
    <2>4. QED BY <2>2, <2>3, Nothing
  <1>4. ASSUME NEW status PROVE Good(<<StepRow(x, n, status)>>)
    <2>1. PICK w : w = StepRow(x, n, status)
      OBVIOUS
    <2>2. Fits(w, x, tenant, known)
      BY <1>2, <2>1, StepRowFits
    <2>3. QED BY <2>1, <2>2, OneClosed
  <1> DEFINE Call(tool) == Write("tool_calls", <<x, n, tool>>,
                             [execution_id |-> x, step_id |-> StepId(x, n), tool_name |-> tool,
                              execution_context_id |-> Context(x), status |-> f.tool])
             Result(v) == Write("results", StepId(x, n), [step_id |-> StepId(x, n), validation |-> v])
  <1>5. \A tool : Fits(Call(tool), x, tenant, known)
    BY <1>2 DEF Fits, Write, ForeignKeys, Checked
  <1>6. \A v : Fits(Result(v), x, tenant, known)
    BY <1>2 DEF Fits, Write, ForeignKeys, Checked
  <1>7. PICK calls : calls = [i \in DOMAIN ToolsOf(name) |-> Call(ToolsOf(name)[i])]
    OBVIOUS
  <1>8. Good(calls)
    <2>1. PICK k \in Nat : DOMAIN ToolsOf(name) = 1 .. k
      <3>1. \/ ToolsOf(name) = <<>>
            \/ ToolsOf(name) = <<"incident_metadata_tool", "signal_lookup_tool">>
            \/ ToolsOf(name) = <<"cloud_cost_tool", "metrics_lookup_tool">>
        BY DEF ToolsOf
      <3>2. DOMAIN ToolsOf(name) = 1 .. 0 \/ DOMAIN ToolsOf(name) = 1 .. 2
        BY <3>1
      <3>3. QED BY <3>2
    <2>2. calls = [i \in 1 .. k |-> calls[i]]
      BY <1>7, <2>1
    <2>3. \A i \in 1 .. k : Fits(calls[i], x, tenant, known)
      BY <1>5, <1>7, <2>1
    <2>4. QED BY <2>2, <2>3, CombinedIsSeq
  <1>9. ASSUME NEW v, NEW status PROVE Good(<<Result(v), StepRow(x, n, status)>>)
    <2>1. PICK a : a = Result(v)
      OBVIOUS
    <2>2. PICK b : b = StepRow(x, n, status)
      OBVIOUS
    <2>3. Fits(a, x, tenant, known) /\ Fits(b, x, tenant, known)
      BY <1>2, <1>6, <2>1, <2>2, StepRowFits
    <2>4. Good(<<a, b>>)
      BY <2>3, TwoClosed
    <2>5. QED BY <2>1, <2>2, <2>4
  <1>10. ASSUME NEW a, NEW b, Good(a), Good(b) PROVE Good(a \o b)
    BY <1>10, BothFit
  <1>11. PICK status : status = IF name \in ValidationSteps THEN "validating" ELSE "executing"
    OBVIOUS
  <1>12. PICK v : v = IF name \in ValidationSteps THEN f.validation ELSE "none"
    OBVIOUS
  <1>13. PICK before : before = IF name \in ValidationSteps
                                  THEN <<Planned(x, status, Reasoning(x, f, n - 1))>> ELSE <<>>
    OBVIOUS
  <1>14. PICK after : after = IF name \in ModelSteps
                                THEN <<Planned(x, status, Reasoning(x, f, n))>> ELSE <<>>
    OBVIOUS
  <1>15. PICK running : running = <<StepRow(x, n, "running")>>
    OBVIOUS
  <1>16. PICK last : last = <<Result(v), StepRow(x, n, "succeeded")>>
    OBVIOUS
  <1>17. StepWrites(x, f, n) = (((before \o running) \o calls) \o after) \o last
    BY <1>1, <1>7, <1>11, <1>12, <1>13, <1>14, <1>15, <1>16 DEF StepWrites
  <1> HIDE DEF Good, Call, Result
  <1>18. Good(before) /\ Good(after) /\ Good(running) /\ Good(last)
    BY <1>3, <1>4, <1>9, <1>13, <1>14, <1>15, <1>16
  <1>19. PICK s1 : s1 = before \o running
    OBVIOUS
  <1>20. PICK s2 : s2 = s1 \o calls
    OBVIOUS
  <1>21. PICK s3 : s3 = s2 \o after
    OBVIOUS
  <1>22. PICK s4 : s4 = s3 \o last
    OBVIOUS
  <1>23. Good(s1)
    BY <1>10, <1>18, <1>19
  <1>24. Good(s2)
    BY <1>8, <1>10, <1>20, <1>23
  <1>25. Good(s3)
    BY <1>10, <1>18, <1>21, <1>24
  <1>26. Good(s4)
    BY <1>10, <1>18, <1>22, <1>25
  <1>27. QED BY <1>17, <1>19, <1>20, <1>21, <1>22, <1>26 DEF Good

LEMMA SettledFits ==
  ASSUME NEW x, NEW f, NEW status, NEW path, NEW tenant, NEW known, Base(x) \subseteq known
  PROVE  Fits(Settled(x, f, status, path), x, tenant, known)
  <1>1. PICK timeline :
          timeline = Reasoning(x, f, Len(StepsOfPlan(x)))
                     \o (IF path = "none" THEN <<>> ELSE <<Event("governed_outcome", path, NoStep)>>)
    OBVIOUS
  <1>2. Fits(Planned(x, status, timeline), x, tenant, known)
    BY PlannedFits DEF Base
  <1>3. QED BY <1>1, <1>2 DEF Settled

\* The proposal and its evaluation come before what the decision leads to.
LEMMA GovernanceWritesClosed ==
  ASSUME NEW x \in Executions, NEW f \in Fates, NEW tenant, NEW known, Base(x) \subseteq known
  PROVE  Closed(GovernanceWrites(x, f), x, tenant, known)
  <1>1. PICK p : p = ProposalRow(x, "proposed")
    OBVIOUS
  <1>2. PICK e : e = Write("evaluations", Verdict(x),
          [execution_id |-> x, execution_context_id |-> Context(x), decision |-> f.decision])
    OBVIOUS
  <1>3. Fits(p, x, tenant, known)
    BY <1>1, ProposalFits
  <1>4. Fits(e, x, tenant, known)
    <2>1. {<<"contexts", Context(x)>>, <<"executions", x>>} \subseteq known
      BY DEF Base
    <2>2. QED BY <1>2, <2>1 DEF Fits, Write, ForeignKeys, Checked
  <1>5. PICK first : first = <<p, e>>
    OBVIOUS
  <1>6. Closed(first, x, tenant, known) /\ Ids(first) = {Id(p), Id(e)}
    BY <1>3, <1>4, <1>5, TwoClosed
  <1>7. Id(p) = <<"proposals", Proposal(x)>> /\ Id(e) = <<"evaluations", Verdict(x)>>
    BY <1>1, <1>2 DEF Id, ProposalRow, Write
  <1>8. PICK more : more = known \cup Ids(first)
    OBVIOUS
  <1>9. /\ Base(x) \subseteq more
        /\ {<<"proposals", Proposal(x)>>, <<"evaluations", Verdict(x)>>} \subseteq more
    BY <1>6, <1>7, <1>8
  <1> DEFINE Good(s) == IsSeq(s) /\ \A w \in ToSet(s) : Fits(w, x, tenant, more)
  <1>10. ASSUME NEW a, NEW b, NEW c PROVE Good(<<ProposalRow(x, a), Settled(x, f, b, c)>>)
    <2>1. PICK v : v = ProposalRow(x, a)
      OBVIOUS
    <2>2. PICK w : w = Settled(x, f, b, c)
      OBVIOUS
    <2>3. Fits(v, x, tenant, more)
      BY <1>9, <2>1, ProposalFits
    <2>4. Fits(w, x, tenant, more)
      BY <1>9, <2>2, SettledFits
    <2>5. Good(<<v, w>>)
      BY <2>3, <2>4, TwoClosed
    <2>6. QED BY <2>1, <2>2, <2>5
  <1>11. Good(ApprovalWrites(x, f))
    <2>1. PICK a : a = Write("approvals", <<x, "approval">>,
            [execution_id |-> x, policy_evaluation_id |-> Verdict(x), action_proposal_id |-> Proposal(x),
             decision |-> f.approval])
      OBVIOUS
    <2>2. PICK b : b = ProposalRow(x, IF f.approval = "approve" THEN "approved" ELSE "rejected")
      OBVIOUS
    <2>3. PICK status, path : /\ status = IF f.approval = "approve" THEN "completed" ELSE "failed"
                              /\ path = IF f.approval = "approve" THEN "approval_granted"
                                                                  ELSE "approval_rejected"
      OBVIOUS
    <2>4. PICK c : c = Settled(x, f, status, path)
      OBVIOUS
    <2>5. ApprovalWrites(x, f) = <<a, b, c>>
      BY <2>1, <2>2, <2>3, <2>4 DEF ApprovalWrites
    <2>6. Fits(a, x, tenant, more)
      <3>1. <<"executions", x>> \in more
        BY <1>9 DEF Base
      <3>2. QED BY <1>9, <2>1, <3>1 DEF Fits, Write, ForeignKeys, Checked
    <2>7. Fits(b, x, tenant, more)
      BY <1>9, <2>2, ProposalFits
    <2>8. Fits(c, x, tenant, more)
      BY <1>9, <2>4, SettledFits
    <2>9. PICK s : s = <<a, b, c>>
      OBVIOUS
    <2>10. IsSeq(s) /\ ToSet(s) = {a, b, c}
      BY <2>9 DEF IsSeq, ToSet
    <2>11. Good(s)
      BY <2>6, <2>7, <2>8, <2>10
    <2>12. QED BY <2>5, <2>9, <2>11
  <1>12. ASSUME NEW a, NEW b, Good(a), Good(b) PROVE Good(a \o b)
    BY <1>12, BothFit
  <1>13. PICK rest : rest = CASE f.decision = "deny" ->
                           <<ProposalRow(x, "policy_denied"), Settled(x, f, "failed", "policy_denied")>>
                      [] f.decision = "allow" ->
                           <<ProposalRow(x, "approved"), Settled(x, f, "completed", "policy_allow")>>
                      [] f.decision = "conditional" ->
                           <<ProposalRow(x, "awaiting_approval"), Settled(x, f, "awaiting_approval", "none")>>
                           \o ApprovalWrites(x, f)
    OBVIOUS
  <1>14. GovernanceWrites(x, f) = first \o rest
    BY <1>1, <1>2, <1>5, <1>13 DEF GovernanceWrites
  <1>15. f.decision \in {"deny", "allow", "conditional"}
    BY FatesAssumption
  <1>16. Good(rest)
    <2> HIDE DEF Good
    <2>1. CASE f.decision = "deny"
      BY <1>10, <1>13, <2>1
    <2>2. CASE f.decision = "allow"
      BY <1>10, <1>13, <2>2
    <2>3. CASE f.decision = "conditional"
      <3>1. PICK s : s = <<ProposalRow(x, "awaiting_approval"), Settled(x, f, "awaiting_approval", "none")>>
        OBVIOUS
      <3>2. PICK t : t = ApprovalWrites(x, f)
        OBVIOUS
      <3>3. Good(s) /\ Good(t)
        BY <1>10, <1>11, <3>1, <3>2
      <3>4. Good(s \o t)
        BY <1>12, <3>3
      <3>5. rest = s \o t
        BY <1>13, <2>3, <3>1, <3>2
      <3>6. QED BY <3>4, <3>5
    <2>4. QED BY <1>15, <2>1, <2>2, <2>3
  <1>17. Closed(rest, x, tenant, more)
    BY <1>16, AllClosed
  <1> HIDE DEF Good
  <1>18. Closed(first \o rest, x, tenant, known)
    BY <1>6, <1>8, <1>17, ConcatClosed
  <1>19. QED BY <1>14, <1>18

\* Whatever tenant and fate, a driver's writes refer to its earlier ones.
LEMMA ProgramClosed ==
  ASSUME NEW x \in Executions, NEW r, r.fate \in Fates
  PROVE  Closed(Program(x, r), x, r.tenant, {})
  <1>1. PICK f \in Fates : f = r.fate
    OBVIOUS
  <1>2. PICK tenant : tenant = r.tenant
    OBVIOUS
  <1>3. PICK n \in Nat : n = Len(StepsOfPlan(x))
    BY PlansAreSeqs
  <1>4. PICK ran : ran = IF f.steps >= n THEN n ELSE f.steps
    OBVIOUS
  <1>5. ran \in 0 .. n
    BY <1>1, <1>4, FatesAssumption
  <1>6. PICK opening : opening = Opening(x, tenant)
    OBVIOUS
  <1>7. PICK plan : plan = PlanWrites(x)
    OBVIOUS
  <1>8. PICK steps : steps = [i \in 1 .. ran |-> StepWrites(x, f, i)]
    OBVIOUS
  <1>9. PICK work : work = FlattenSeq(steps)
    OBVIOUS
  <1>10. PICK end : end = IF ~ (f.steps >= n) THEN <<Planned(x, "cancelled", Reasoning(x, f, ran))>>
                          ELSE IF Workflows[x] = "incident_triage" THEN GovernanceWrites(x, f)
                          ELSE <<Settled(x, f, "completed", "none")>>
    OBVIOUS
  <1>11. Program(x, r) = ((opening \o plan) \o work) \o end
    BY <1>1, <1>2, <1>3, <1>4, <1>6, <1>7, <1>8, <1>9, <1>10 DEF Program
  <1>12. PICK known : known = Ids(opening)
    OBVIOUS
  <1>13. /\ Closed(opening, x, tenant, {})
         /\ known = {<<"contexts", Context(x)>>, <<"executions", x>>}
    BY <1>6, <1>12, OpeningClosed
  <1>14. Closed(plan, x, tenant, known) /\ Base(x) \subseteq known \cup Ids(plan)
    BY <1>7, <1>13, PlanWritesClosed
  <1>15. PICK s1 : s1 = opening \o plan
    OBVIOUS
  <1>16. Closed(s1, x, tenant, {}) /\ Ids(s1) = known \cup Ids(plan)
    <2>1. Closed(plan, x, tenant, {} \cup Ids(opening))
      <3>1. {} \cup Ids(opening) = known
        BY <1>12
      <3>2. QED BY <1>14, <3>1
    <2>2. QED BY <1>12, <1>13, <1>15, <2>1, ConcatClosed
  <1>17. PICK after : after = {} \cup Ids(s1)
    OBVIOUS
  <1>18. Base(x) \subseteq after
    BY <1>14, <1>16, <1>17
  <1>19. Closed(work, x, tenant, after)
    <2>1. \A i \in 1 .. ran : i \in 1 .. Len(StepsOfPlan(x))
      BY <1>3, <1>5
    <2>2. \A i \in 1 .. ran : /\ IsSeq(steps[i])
                              /\ \A w \in ToSet(steps[i]) : Fits(w, x, tenant, after)
      BY <1>8, <1>18, <2>1, StepWritesFit
    <2>3. ran \in Nat /\ steps = [i \in 1 .. ran |-> steps[i]]
      BY <1>5, <1>8
    <2>4. IsSeq(work) /\ ToSet(work) = UNION {ToSet(steps[i]) : i \in 1 .. ran}
      BY <1>9, <2>2, <2>3, Flattening
    <2>5. \A w \in ToSet(work) : Fits(w, x, tenant, after)
      BY <2>2, <2>4
    <2>6. QED BY <2>4, <2>5, AllClosed
  <1>20. PICK s2 : s2 = s1 \o work
    OBVIOUS
  <1>21. Closed(s2, x, tenant, {}) /\ Ids(s2) = Ids(s1) \cup Ids(work)
    BY <1>16, <1>17, <1>19, <1>20, ConcatClosed
  <1>22. PICK late : late = {} \cup Ids(s2)
    OBVIOUS
  <1>23. Base(x) \subseteq late
    BY <1>17, <1>18, <1>21, <1>22
  <1>24. Closed(end, x, tenant, late)
    <2>1. Fits(Planned(x, "cancelled", Reasoning(x, f, ran)), x, tenant, late)
      <3>1. PICK timeline : timeline = Reasoning(x, f, ran)
        OBVIOUS
      <3>2. Fits(Planned(x, "cancelled", timeline), x, tenant, late)
        BY <1>23, PlannedFits DEF Base
      <3>3. QED BY <3>1, <3>2
    <2>2. Fits(Settled(x, f, "completed", "none"), x, tenant, late)
      BY <1>23, SettledFits
    <2>3. Closed(<<Planned(x, "cancelled", Reasoning(x, f, ran))>>, x, tenant, late)
      <3>1. PICK w : w = Planned(x, "cancelled", Reasoning(x, f, ran))
        OBVIOUS
      <3>2. Closed(<<w>>, x, tenant, late)
        BY <2>1, <3>1, OneClosed
      <3>3. QED BY <3>1, <3>2
    <2>4. Closed(<<Settled(x, f, "completed", "none")>>, x, tenant, late)
      <3>1. PICK w : w = Settled(x, f, "completed", "none")
        OBVIOUS
      <3>2. Closed(<<w>>, x, tenant, late)
        BY <2>2, <3>1, OneClosed
      <3>3. QED BY <3>1, <3>2
    <2>5. Closed(GovernanceWrites(x, f), x, tenant, late)
      BY <1>23, GovernanceWritesClosed
    <2>6. QED BY <1>10, <2>3, <2>4, <2>5
  <1>25. PICK s3 : s3 = s2 \o end
    OBVIOUS
  <1>26. Closed(s3, x, tenant, {})
    BY <1>21, <1>22, <1>24, <1>25, ConcatClosed
  <1>27. QED BY <1>2, <1>11, <1>15, <1>20, <1>25, <1>26

\* The program depends on the tenant and the fate only.
LEMMA ProgramOf ==
  ASSUME NEW x, NEW r, NEW q, r.tenant = q.tenant, r.fate = q.fate
  PROVE  Program(x, r) = Program(x, q)
  BY DEF Program

(***************************************************************************)
(* What is stored and what the runs have written agree.                    *)
(***************************************************************************)
LEMMA StoredRows ==
  ASSUME NEW tables, tables = [t \in DOMAIN ForeignKeys |-> tables[t]],
         NEW w, w.table \in DOMAIN ForeignKeys, NEW next, next = Stored(tables, w)
  PROVE  /\ next = [t \in DOMAIN ForeignKeys |-> next[t]]
         /\ DOMAIN next[w.table] = DOMAIN tables[w.table] \cup {w.key}
         /\ next[w.table][w.key] = w.row
         /\ \A k \in DOMAIN tables[w.table] : k # w.key => next[w.table][k] = tables[w.table][k]
         /\ \A t \in DOMAIN ForeignKeys : t # w.table => next[t] = tables[t]
  <1>1. PICK names : names = DOMAIN ForeignKeys
    OBVIOUS
  <1>2. PICK here : here = w.table
    OBVIOUS
  <1>3. PICK rows : rows = [k \in DOMAIN tables[here] \cup {w.key} |-> IF k = w.key THEN w.row ELSE tables[here][k]]
    OBVIOUS
  <1>4. next = [t \in names |-> IF t = here THEN rows ELSE tables[t]]
    BY <1>1, <1>2, <1>3 DEF Stored, Save
  <1>5. here \in names
    BY <1>1, <1>2
  <1>6. next[here] = rows /\ \A t \in names : t # here => next[t] = tables[t]
    BY <1>4, <1>5
  <1>7. /\ DOMAIN rows = DOMAIN tables[here] \cup {w.key} /\ rows[w.key] = w.row
        /\ \A k \in DOMAIN tables[here] : k # w.key => rows[k] = tables[here][k]
    BY <1>3
  <1>8. next = [t \in names |-> next[t]]
    BY <1>4
  <1>9. QED BY <1>1, <1>2, <1>6, <1>7, <1>8

Tables == {"contexts", "executions", "plans", "execution_feedback"}

LEMMA TablesAreTables ==
  Tables \cup {"operator_feedback"} \subseteq DOMAIN ForeignKeys
  BY DEF Tables, ForeignKeys

\* The keys stored, as pairs.
Has(tables, id) == id[2] \in DOMAIN tables[id[1]]

\* What each run has written is there.
LEMMA DriverFits ==
  ASSUME NEW tables, NEW runs, Agree(tables, runs), NEW x \in Executions,
         NEW w, runs[x].at \in 1 .. Len(Program(x, runs[x])), w = Program(x, runs[x])[runs[x].at]
  PROVE  \E known : Fits(w, x, runs[x].tenant, known) /\ \A id \in known : Has(tables, id)
  <1>1. PICK program : program = Program(x, runs[x])
    OBVIOUS
  <1>2. PICK r : r = runs[x]
    OBVIOUS
  <1>3. r.fate \in Fates /\ r.at \in Nat
        /\ \A i \in DOMAIN program : i < r.at => program[i].key \in DOMAIN tables[program[i].table]
    BY <1>1, <1>2 DEF Agree
  <1>4. Closed(program, x, r.tenant, {})
    BY <1>1, <1>2, <1>3, ProgramClosed
  <1>5. PICK known : known = {} \cup {Id(program[j]) : j \in 1 .. r.at - 1}
    OBVIOUS
  <1>6. Fits(w, x, r.tenant, known)
    BY <1>1, <1>2, <1>4, <1>5 DEF Closed
  <1>7. IsSeq(program) /\ DOMAIN program = 1 .. Len(program)
    BY <1>4, SeqDomain DEF Closed
  <1>8. \A j \in 1 .. r.at - 1 : j \in DOMAIN program /\ j < r.at
    BY <1>1, <1>2, <1>3, <1>7
  <1>9. \A j \in 1 .. r.at - 1 : Has(tables, Id(program[j]))
    BY <1>3, <1>8 DEF Has, Id
  <1>10. \A id \in known : Has(tables, id)
    BY <1>5, <1>9
  <1>11. QED BY <1>2, <1>6, <1>10

LEMMA DriverAccepted ==
  ASSUME NEW tables, NEW runs, Agree(tables, runs), NEW x \in Executions,
         NEW tenant, NEW known, NEW w, Fits(w, x, tenant, known), \A id \in known : Has(tables, id)
  PROVE  Accepts(tables, w.table, w.key, w.row)
  <1>1. ASSUME NEW fk \in ForeignKeys[w.table], fk[1] \in DOMAIN w.row
        PROVE  w.row[fk[1]] \in DOMAIN tables[fk[2]]
    <2>1. <<fk[2], w.row[fk[1]]>> \in known
      BY <1>1 DEF Fits
    <2>2. QED BY <2>1 DEF Has
  <1>2. References(tables, w.table, w.row)
    BY <1>1 DEF References
  <1>3. Unique(tables, w.table, w.key, w.row)
    <2>1. CASE w.table = "executions"
      <3>1. w.key = x /\ w.row.execution_context_id = Context(x)
        BY <2>1 DEF Fits
      <3>2. ASSUME NEW k \in DOMAIN tables.executions \ {x}
            PROVE  tables.executions[k].execution_context_id # w.row.execution_context_id
        <4>1. tables.executions[k].execution_context_id = Context(k)
          BY DEF Agree
        <4>2. QED BY <3>1, <4>1 DEF Context
      <3>3. UniqueKeys(w.table) = {{"execution_context_id"}}
        BY <2>1 DEF UniqueKeys
      <3>4. QED BY <2>1, <3>1, <3>2, <3>3 DEF Unique
    <2>2. CASE w.table = "plans"
      <3>1. w.key = PlanId(x) /\ w.row.execution_id = x
        BY <2>2 DEF Fits
      <3>2. ASSUME NEW k \in DOMAIN tables.plans \ {PlanId(x)}
            PROVE  tables.plans[k].execution_id # w.row.execution_id
        <4>1. PICK y \in Executions : k = PlanId(y) /\ tables.plans[k].execution_id = y
          BY DEF Agree
        <4>2. y # x
          BY <4>1
        <4>3. QED BY <3>1, <4>1, <4>2
      <3>3. UniqueKeys(w.table) = {{"execution_id", "plan_version"}}
        BY <2>2 DEF UniqueKeys
      <3>4. QED BY <2>2, <3>1, <3>2, <3>3 DEF Unique
    <2>3. CASE w.table \notin {"executions", "plans"}
      <3>1. UniqueKeys(w.table) = {}
        BY <2>3 DEF UniqueKeys
      <3>2. QED BY <3>1 DEF Unique
    <2>4. QED BY <2>1, <2>2, <2>3
  <1>4. Checked(w.table, w.row)
    BY DEF Fits
  <1>5. QED BY <1>2, <1>3, <1>4 DEF Accepts

\* The part of Agree that is about the tables.
TablesAgree(tables) ==
  /\ tables = [t \in DOMAIN ForeignKeys |-> tables[t]]
  /\ \A x \in DOMAIN tables.executions :
       /\ x \in Executions /\ Context(x) \in DOMAIN tables.contexts
       /\ {"execution_id", "workflow_type", "status"} \subseteq DOMAIN tables.executions[x]
       /\ tables.executions[x].execution_id = x
       /\ tables.executions[x].execution_context_id = Context(x)
  /\ \A k \in DOMAIN tables.plans :
       \E x \in Executions : k = PlanId(x) /\ tables.plans[k].execution_id = x
  /\ IsFiniteSet(DOMAIN tables.execution_feedback)

\* The part of it that is about one run.
RunAgrees(tables, x, r) ==
  /\ r = [tenant |-> r.tenant, fate |-> r.fate, at |-> r.at]
  /\ r.at \in Nat /\ r.fate \in Fates
  /\ \A i \in DOMAIN Program(x, r) :
       i < r.at => Program(x, r)[i].key \in DOMAIN tables[Program(x, r)[i].table]
  /\ Context(x) \in DOMAIN tables.contexts => r.at > 0 /\ tables.contexts[Context(x)].tenant_id = r.tenant

LEMMA AgreeParts ==
  ASSUME NEW tables, NEW runs
  PROVE  Agree(tables, runs) <=>
           /\ TablesAgree(tables) /\ runs = [x \in Executions |-> runs[x]]
           /\ \A x \in Executions : RunAgrees(tables, x, runs[x])
  <1>1. ASSUME Agree(tables, runs)
        PROVE  /\ TablesAgree(tables) /\ runs = [x \in Executions |-> runs[x]]
               /\ \A x \in Executions : RunAgrees(tables, x, runs[x])
    <2>1. TablesAgree(tables)
      BY <1>1 DEF Agree, TablesAgree
    <2>2. runs = [x \in Executions |-> [tenant |-> runs[x].tenant, fate |-> runs[x].fate, at |-> runs[x].at]]
      BY <1>1 DEF Agree
    <2>3. runs = [x \in Executions |-> runs[x]]
      BY <2>2
    <2>4. ASSUME NEW x \in Executions PROVE RunAgrees(tables, x, runs[x])
      <3>1. runs[x] = [tenant |-> runs[x].tenant, fate |-> runs[x].fate, at |-> runs[x].at]
        BY <2>2
      <3>2. QED BY <1>1, <3>1 DEF Agree, RunAgrees
    <2>5. QED BY <2>1, <2>3, <2>4
  <1>2. ASSUME TablesAgree(tables), runs = [x \in Executions |-> runs[x]],
               \A x \in Executions : RunAgrees(tables, x, runs[x])
        PROVE  Agree(tables, runs)
    <2>1. \A x \in Executions : runs[x] = [tenant |-> runs[x].tenant, fate |-> runs[x].fate, at |-> runs[x].at]
      BY <1>2 DEF RunAgrees
    <2>2. [x \in Executions |-> runs[x]]
            = [x \in Executions |-> [tenant |-> runs[x].tenant, fate |-> runs[x].fate, at |-> runs[x].at]]
      BY <2>1
    <2>3. QED BY <1>2, <2>2 DEF Agree, TablesAgree, RunAgrees
  <1>3. QED BY <1>1, <1>2

\* A row that fits leaves the tables in order.
LEMMA TablesStayInOrder ==
  ASSUME NEW tables, TablesAgree(tables), NEW x \in Executions, NEW tenant, NEW known,
         NEW w, Fits(w, x, tenant, known), \A id \in known : Has(tables, id),
         NEW next, next = Stored(tables, w)
  PROVE  /\ TablesAgree(next)
         /\ \A t \in DOMAIN ForeignKeys : DOMAIN tables[t] \subseteq DOMAIN next[t]
         /\ \A y \in Executions \ {x} :
              Context(y) \in DOMAIN next.contexts =>
                /\ Context(y) \in DOMAIN tables.contexts
                /\ next.contexts[Context(y)] = tables.contexts[Context(y)]
         /\ Context(x) \in DOMAIN next.contexts =>
              \/ next.contexts[Context(x)].tenant_id = tenant
              \/ /\ Context(x) \in DOMAIN tables.contexts
                 /\ next.contexts[Context(x)] = tables.contexts[Context(x)]
  <1>1. w.table \in DOMAIN ForeignKeys /\ w.table # "execution_feedback"
    BY DEF Fits
  <1>2. tables = [t \in DOMAIN ForeignKeys |-> tables[t]]
    BY DEF TablesAgree
  <1>3. /\ next = [t \in DOMAIN ForeignKeys |-> next[t]]
        /\ DOMAIN next[w.table] = DOMAIN tables[w.table] \cup {w.key}
        /\ next[w.table][w.key] = w.row
        /\ \A k \in DOMAIN tables[w.table] : k # w.key => next[w.table][k] = tables[w.table][k]
        /\ \A t \in DOMAIN ForeignKeys : t # w.table => next[t] = tables[t]
    BY <1>1, <1>2, StoredRows
  <1>4. \A t \in DOMAIN ForeignKeys : DOMAIN tables[t] \subseteq DOMAIN next[t]
    BY <1>3
  <1>5. Tables \subseteq DOMAIN ForeignKeys
    BY TablesAreTables
  <1>6. next.execution_feedback = tables.execution_feedback
    BY <1>1, <1>3, <1>5 DEF Tables
  <1>7. ASSUME NEW y \in DOMAIN next.executions
        PROVE  /\ y \in Executions /\ Context(y) \in DOMAIN next.contexts
               /\ {"execution_id", "workflow_type", "status"} \subseteq DOMAIN next.executions[y]
               /\ next.executions[y].execution_id = y
               /\ next.executions[y].execution_context_id = Context(y)
    <2>1. DOMAIN tables.contexts \subseteq DOMAIN next.contexts
      BY <1>4, <1>5 DEF Tables
    <2>2. CASE w.table = "executions" /\ y = w.key
      <3>1. /\ w.key = x /\ w.row.execution_id = x /\ w.row.execution_context_id = Context(x)
            /\ {"execution_id", "workflow_type", "status"} \subseteq DOMAIN w.row /\ <<"contexts", w.row.execution_context_id>> \in known
        <4>1. <<"execution_context_id", "contexts">> \in ForeignKeys[w.table]
          BY <2>2 DEF ForeignKeys
        <4>2. QED BY <2>2, <4>1 DEF Fits
      <3>2. Context(x) \in DOMAIN tables.contexts
        BY <3>1 DEF Has
      <3>3. QED BY <1>3, <2>1, <2>2, <3>1, <3>2
    <2>3. CASE ~ (w.table = "executions" /\ y = w.key)
      <3>1. y \in DOMAIN tables.executions /\ next.executions[y] = tables.executions[y]
        BY <1>3, <1>5, <2>3 DEF Tables
      <3>2. QED BY <2>1, <3>1 DEF TablesAgree
    <2>4. QED BY <2>2, <2>3
  <1>8. ASSUME NEW k \in DOMAIN next.plans
        PROVE  \E y \in Executions : k = PlanId(y) /\ next.plans[k].execution_id = y
    <2>1. CASE w.table = "plans" /\ k = w.key
      <3>1. w.key = PlanId(x) /\ w.row.execution_id = x
        BY <2>1 DEF Fits
      <3>2. QED BY <1>3, <2>1, <3>1
    <2>2. CASE ~ (w.table = "plans" /\ k = w.key)
      <3>1. k \in DOMAIN tables.plans /\ next.plans[k] = tables.plans[k]
        BY <1>3, <1>5, <2>2 DEF Tables
      <3>2. PICK y \in Executions : k = PlanId(y) /\ tables.plans[k].execution_id = y
        BY <3>1 DEF TablesAgree
      <3>3. QED BY <3>1, <3>2
    <2>3. QED BY <2>1, <2>2
  <1>9. TablesAgree(next)
    BY <1>3, <1>6, <1>7, <1>8 DEF TablesAgree
  <1>10. CASE w.table # "contexts"
    <2>1. next.contexts = tables.contexts
      BY <1>3, <1>5, <1>10 DEF Tables
    <2>2. QED BY <1>4, <1>9, <2>1
  <1>11. CASE w.table = "contexts"
    <2>1. w.key = Context(x) /\ w.row.tenant_id = tenant
      BY <1>11 DEF Fits
    <2>2. \A y \in Executions \ {x} : Context(y) # Context(x)
      BY DEF Context
    <2>3. QED BY <1>3, <1>4, <1>9, <1>11, <2>1, <2>2
  <1>12. QED BY <1>10, <1>11

\* Other runs go on agreeing when x writes.
LEMMA OthersAgree ==
  ASSUME NEW tables, NEW next, NEW y \in Executions, NEW r, RunAgrees(tables, y, r),
         \A t \in DOMAIN ForeignKeys : DOMAIN tables[t] \subseteq DOMAIN next[t],
         Context(y) \in DOMAIN next.contexts =>
           Context(y) \in DOMAIN tables.contexts /\ next.contexts[Context(y)] = tables.contexts[Context(y)]
  PROVE  RunAgrees(next, y, r)
  <1>1. PICK program : program = Program(y, r)
    OBVIOUS
  <1>2. r.fate \in Fates
    BY DEF RunAgrees
  <1>3. Closed(program, y, r.tenant, {})
    BY <1>1, <1>2, ProgramClosed
  <1>4. \A i \in DOMAIN program : program[i].table \in DOMAIN ForeignKeys
    BY <1>3, SeqDomain DEF Closed, Fits
  <1>5. \A i \in DOMAIN program : i < r.at => program[i].key \in DOMAIN next[program[i].table]
    BY <1>1, <1>4 DEF RunAgrees
  <1>6. QED BY <1>1, <1>5 DEF RunAgrees

LEMMA DriverAgrees ==
  ASSUME NEW tables, NEW runs, Agree(tables, runs), NEW x \in Executions,
         NEW w, runs[x].at \in 1 .. Len(Program(x, runs[x])), w = Program(x, runs[x])[runs[x].at],
         NEW next, next = Stored(tables, w),
         NEW after, after = [y \in Executions |-> after[y]], \A y \in Executions : y # x => after[y] = runs[y],
         after[x] = [tenant |-> runs[x].tenant, fate |-> runs[x].fate, at |-> runs[x].at + 1]
  PROVE  /\ Agree(next, after)
         /\ \A t \in DOMAIN ForeignKeys : DOMAIN tables[t] \subseteq DOMAIN next[t]
         /\ \A y \in Executions : after[y].tenant = runs[y].tenant
  <1>1. /\ TablesAgree(tables) /\ runs = [y \in Executions |-> runs[y]]
        /\ \A y \in Executions : RunAgrees(tables, y, runs[y])
    BY AgreeParts
  <1>2. PICK known : Fits(w, x, runs[x].tenant, known) /\ \A id \in known : Has(tables, id)
    BY DriverFits
  <1>3. PICK r : r = runs[x]
    OBVIOUS
  <1>4. PICK tenant : tenant = r.tenant
    OBVIOUS
  <1>5. Fits(w, x, tenant, known)
    BY <1>2, <1>3, <1>4
  <1>6. /\ TablesAgree(next)
        /\ \A t \in DOMAIN ForeignKeys : DOMAIN tables[t] \subseteq DOMAIN next[t]
        /\ \A y \in Executions \ {x} :
             Context(y) \in DOMAIN next.contexts =>
               /\ Context(y) \in DOMAIN tables.contexts
               /\ next.contexts[Context(y)] = tables.contexts[Context(y)]
        /\ Context(x) \in DOMAIN next.contexts =>
             \/ next.contexts[Context(x)].tenant_id = tenant
             \/ /\ Context(x) \in DOMAIN tables.contexts
                /\ next.contexts[Context(x)] = tables.contexts[Context(x)]
    BY <1>1, <1>2, <1>5, TablesStayInOrder
  <1>7. RunAgrees(tables, x, r)
    BY <1>1, <1>3
  <1>8. PICK q : q = [tenant |-> r.tenant, fate |-> r.fate, at |-> r.at + 1]
    OBVIOUS
  <1>9. after[x] = q
    BY <1>3, <1>8
  <1>11. RunAgrees(next, x, q)
    <2>1. PICK program : program = Program(x, r)
      OBVIOUS
    <2>2. Program(x, q) = program
      BY <1>8, <2>1, ProgramOf
    <2>3. r.at \in Nat /\ r.fate \in Fates /\ w = program[r.at] /\ r.at \in 1 .. Len(program)
      BY <1>3, <1>7, <2>1 DEF RunAgrees
    <2>4. Closed(program, x, tenant, {})
      BY <1>4, <2>1, <2>3, ProgramClosed
    <2>5. DOMAIN program = 1 .. Len(program) /\ \A i \in DOMAIN program : program[i].table \in DOMAIN ForeignKeys
      BY <2>4, SeqDomain DEF Closed, Fits
    <2>6. w.table \in DOMAIN ForeignKeys /\ w.key \in DOMAIN next[w.table]
      <3>1. w.table \in DOMAIN ForeignKeys
        BY <1>5 DEF Fits
      <3>2. tables = [t \in DOMAIN ForeignKeys |-> tables[t]]
        BY <1>1 DEF TablesAgree
      <3>3. QED BY <3>1, <3>2, StoredRows
    <2>7. ASSUME NEW i \in DOMAIN program, i < r.at + 1
          PROVE  program[i].key \in DOMAIN next[program[i].table]
      <3>1. CASE i < r.at
        <4>1. program[i].key \in DOMAIN tables[program[i].table]
          BY <1>7, <2>1, <3>1 DEF RunAgrees
        <4>2. QED BY <1>6, <2>5, <4>1
      <3>2. CASE ~ (i < r.at)
        <4>1. i = r.at
          BY <2>3, <2>5, <2>7, <3>2
        <4>2. QED BY <2>3, <2>6, <4>1
      <3>3. QED BY <3>1, <3>2
    <2>8. Context(x) \in DOMAIN next.contexts => next.contexts[Context(x)].tenant_id = tenant
      BY <1>4, <1>6, <1>7 DEF RunAgrees
    <2>9. q.tenant = tenant /\ q.fate = r.fate /\ q.at = r.at + 1
          /\ q = [tenant |-> q.tenant, fate |-> q.fate, at |-> q.at]
      BY <1>4, <1>8
    <2>10. q.at \in Nat /\ q.at > 0
      BY <2>3, <2>9
    <2>11. QED BY <2>2, <2>3, <2>7, <2>8, <2>9, <2>10 DEF RunAgrees
  <1>12. \A y \in Executions : RunAgrees(next, y, after[y])
    <2>1. ASSUME NEW y \in Executions, y # x PROVE RunAgrees(next, y, runs[y])
      BY <1>1, <1>6, <2>1, OthersAgree
    <2>2. QED BY <1>9, <1>11, <2>1
  <1>14. Agree(next, after)
    BY <1>6, <1>12, AgreeParts
  <1>15. QED BY <1>3, <1>6, <1>8, <1>9, <1>14

\* Feedback, be it an operator's or the pipeline's, is about an execution.
LEMMA FeedbackAgrees ==
  ASSUME NEW tables, NEW runs, Agree(tables, runs), NEW w,
         w.table \in {"operator_feedback", "execution_feedback"}, w.row.execution_id \in DOMAIN tables.executions,
         NEW next, next = Stored(tables, w)
  PROVE  /\ Agree(next, runs) /\ Accepts(tables, w.table, w.key, w.row)
         /\ \A t \in DOMAIN ForeignKeys : DOMAIN tables[t] \subseteq DOMAIN next[t]
  <1>1. /\ TablesAgree(tables) /\ runs = [y \in Executions |-> runs[y]]
        /\ \A y \in Executions : RunAgrees(tables, y, runs[y])
    BY AgreeParts
  <1>2. w.table \in DOMAIN ForeignKeys /\ Tables \subseteq DOMAIN ForeignKeys
    BY TablesAreTables DEF Tables
  <1>3. tables = [t \in DOMAIN ForeignKeys |-> tables[t]]
    BY <1>1 DEF TablesAgree
  <1>4. /\ next = [t \in DOMAIN ForeignKeys |-> next[t]]
        /\ DOMAIN next[w.table] = DOMAIN tables[w.table] \cup {w.key}
        /\ \A t \in DOMAIN ForeignKeys : t # w.table => next[t] = tables[t]
    BY <1>2, <1>3, StoredRows
  <1>5. \A t \in DOMAIN ForeignKeys : DOMAIN tables[t] \subseteq DOMAIN next[t]
    BY <1>4
  <1>6. /\ next.contexts = tables.contexts /\ next.executions = tables.executions
        /\ next.plans = tables.plans
    BY <1>2, <1>4 DEF Tables
  <1>7. IsFiniteSet(DOMAIN next.execution_feedback)
    <2>1. IsFiniteSet(DOMAIN tables.execution_feedback)
      BY <1>1 DEF TablesAgree
    <2>2. CASE w.table = "execution_feedback"
      <3>1. DOMAIN next.execution_feedback = DOMAIN tables.execution_feedback \cup {w.key}
        BY <1>4, <2>2
      <3>2. QED BY <2>1, <3>1, FS_AddElement
    <2>3. CASE w.table # "execution_feedback"
      BY <1>2, <1>4, <2>1, <2>3 DEF Tables
    <2>4. QED BY <2>2, <2>3
  <1>8. TablesAgree(next)
    <2>1. \A y \in DOMAIN next.executions :
            /\ y \in Executions /\ Context(y) \in DOMAIN next.contexts
            /\ {"execution_id", "workflow_type", "status"} \subseteq DOMAIN next.executions[y]
            /\ next.executions[y].execution_id = y
            /\ next.executions[y].execution_context_id = Context(y)
      BY <1>1, <1>6 DEF TablesAgree
    <2>2. \A k \in DOMAIN next.plans :
            \E y \in Executions : k = PlanId(y) /\ next.plans[k].execution_id = y
      <3>1. PICK plans : plans = tables.plans
        OBVIOUS
      <3>2. \A k \in DOMAIN plans : \E y \in Executions : k = PlanId(y) /\ plans[k].execution_id = y
        BY <1>1, <3>1 DEF TablesAgree
      <3>3. next.plans = plans
        BY <1>6, <3>1
      <3>4. QED BY <3>2, <3>3
    <2>3. QED BY <1>4, <1>7, <2>1, <2>2 DEF TablesAgree
  <1>9. \A y \in Executions : RunAgrees(next, y, runs[y])
    BY <1>1, <1>5, <1>6, OthersAgree
  <1>10. Accepts(tables, w.table, w.key, w.row)
    <2>1. ForeignKeys[w.table] = {<<"execution_id", "executions">>}
      BY DEF ForeignKeys
    <2>2. References(tables, w.table, w.row)
      BY <2>1 DEF References
    <2>3. UniqueKeys(w.table) = {}
      BY DEF UniqueKeys
    <2>4. QED BY <2>2, <2>3 DEF Accepts, Unique, Checked
  <1>11. QED BY <1>1, <1>5, <1>8, <1>9, <1>10, AgreeParts

\* A run that has not begun has stored nothing, whatever tenant it begins with.
LEMMA CreationAgrees ==
  ASSUME NEW tables, NEW runs, Agree(tables, runs), NEW x \in Executions, runs[x].at = 0,
         NEW tenant, NEW fate \in Fates,
         NEW after, after = [y \in Executions |-> after[y]], \A y \in Executions : y # x => after[y] = runs[y],
         after[x] = [tenant |-> tenant, fate |-> fate, at |-> 1]
  PROVE  /\ Agree(tables, after) /\ x \notin DOMAIN tables.executions
         /\ \A y \in Executions : y # x => after[y].tenant = runs[y].tenant
  <1>1. /\ TablesAgree(tables) /\ runs = [y \in Executions |-> runs[y]]
        /\ \A y \in Executions : RunAgrees(tables, y, runs[y])
    BY AgreeParts
  <1>2. PICK q : q = [tenant |-> tenant, fate |-> fate, at |-> 1]
    OBVIOUS
  <1>3. after[x] = q
    BY <1>2
  <1>4. Context(x) \notin DOMAIN tables.contexts
    BY <1>1 DEF RunAgrees
  <1>5. RunAgrees(tables, x, q)
    <2>1. Closed(Program(x, q), x, q.tenant, {})
      BY <1>2, ProgramClosed
    <2>2. DOMAIN Program(x, q) = 1 .. Len(Program(x, q))
      BY <2>1, SeqDomain DEF Closed
    <2>3. \A i \in DOMAIN Program(x, q) : ~ (i < 1)
      BY <2>2
    <2>4. /\ q = [tenant |-> q.tenant, fate |-> q.fate, at |-> q.at]
          /\ q.fate \in Fates /\ q.at = 1
      BY <1>2
    <2>5. QED BY <1>4, <2>3, <2>4 DEF RunAgrees
  <1>6. \A y \in Executions : RunAgrees(tables, y, after[y])
    BY <1>1, <1>3, <1>5
  <1>8. Agree(tables, after)
    BY <1>1, <1>6, AgreeParts
  <1>9. x \notin DOMAIN tables.executions
    BY <1>1, <1>4 DEF TablesAgree
  <1>10. QED BY <1>3, <1>8, <1>9

(***************************************************************************)
(* The steps of drivers, operators and the pipeline.                       *)
(***************************************************************************)
LEMMA RightfulMore ==
  ASSUME NEW req, NEW own, NEW more, Rightful(req, own), own \subseteq more
  PROVE  Rightful(req, more)
  <1>1. req.todo \in Seq(own) => req.todo \in Seq(more)
    OBVIOUS
  <1>2. ASSUME NEW rows, RowsOwn(rows, own) PROVE RowsOwn(rows, more)
    BY <1>2 DEF RowsOwn
  <1>3. req.kind = "mukti" /\ req.pc = "done" =>
          \A i \in req.answer.insights \cup req.answer.ranked : i.executions \subseteq more
    BY DEF Rightful
  <1>4. QED BY <1>1, <1>2, <1>3 DEF Rightful

\* Nobody takes an execution from its tenant.
LEMMA RequestStays ==
  ASSUME RequestInv, request' = request, DOMAIN db.executions \subseteq DOMAIN db'.executions,
         \A x \in DOMAIN db.executions : run'[x].tenant = run[x].tenant
  PROVE  RequestInv'
  <1>1. CASE Rightful(request, Own(db, run, request.id))
    <2>1. PICK own : own = Own(db, run, request.id)
      OBVIOUS
    <2>2. PICK more : more = {x \in DOMAIN db'.executions : run'[x].tenant = request.id.tenant}
      OBVIOUS
    <2>3. own \subseteq more
      BY <2>1, <2>2 DEF Own
    <2>4. Rightful(request, more)
      BY <1>1, <2>1, <2>3, RightfulMore
    <2>5. PICK req : req = request
      OBVIOUS
    <2>6. Rightful(req, more)
      BY <2>4, <2>5
    <2>7. request' = req
      BY <2>5
    <2>8. more = Own(db', run', request'.id)
      BY <2>2 DEF Own
    <2>9. Rightful(request', Own(db', run', request'.id))
      BY <2>6, <2>7, <2>8
    <2>10. QED BY <2>9 DEF RequestInv
  <1>2. CASE request.pc = "idle" \/ (request.pc = "done" /\ request.code # 200)
    BY <1>2 DEF RequestInv
  <1>3. QED BY <1>1, <1>2 DEF RequestInv

LEMMA PipeStays ==
  ASSUME PipeInv, pipe' = pipe, DOMAIN db.executions \subseteq DOMAIN db'.executions,
         left' = left \/ \E f \in {"remarks", "analyses"} : left' = [left EXCEPT ![f] = @ - 1]
  PROVE  PipeInv'
  <1>1. /\ {"limits", "writes"} \subseteq DOMAIN left' /\ left'.limits = left.limits
        /\ left'.writes = left.writes
    BY DEF PipeInv
  <1>2. QED BY <1>1 DEF PipeInv

LEMMA ExecutionsKnown ==
  ASSUME NEW tables, NEW runs, Agree(tables, runs)
  PROVE  /\ DOMAIN tables.executions \subseteq Executions
         /\ \A x \in DOMAIN tables.executions :
              /\ {"execution_id", "workflow_type", "status"} \subseteq DOMAIN tables.executions[x]
              /\ tables.executions[x].execution_id = x
              /\ tables.executions[x].execution_context_id = Context(x)
              /\ Context(x) \in DOMAIN tables.contexts
              /\ tables.contexts[Context(x)].tenant_id = runs[x].tenant
  <1>1. DOMAIN tables.executions \subseteq Executions
    BY DEF Agree
  <1>2. \A x \in DOMAIN tables.executions :
              /\ {"execution_id", "workflow_type", "status"} \subseteq DOMAIN tables.executions[x]
              /\ tables.executions[x].execution_id = x
              /\ tables.executions[x].execution_context_id = Context(x)
              /\ Context(x) \in DOMAIN tables.contexts
    BY DEF Agree
  <1>3. QED BY <1>1, <1>2 DEF Agree

LEMMA CreateSteps == ASSUME InsightsInv, NEW x \in Executions, Create(x) PROVE InsightsInv'
  <1>1. run[x].at = 0 /\ UNCHANGED <<db, pipe, request, left, changed, refused>>
    BY DEF Create
  <1>2. PICK tenant : \E f \in Fates : run' = [run EXCEPT ![x] = [tenant |-> tenant, fate |-> f, at |-> 1]]
    BY DEF Create
  <1> PICK fate \in Fates : run' = [run EXCEPT ![x] = [tenant |-> tenant, fate |-> fate, at |-> 1]]
    BY <1>2
  <1>3. Agree(db, run)
    BY DEF InsightsInv
  <1>4. PICK tables, runs : tables = db /\ runs = run
    OBVIOUS
  <1>5. PICK after : after = [runs EXCEPT ![x] = [tenant |-> tenant, fate |-> fate, at |-> 1]]
    OBVIOUS
  <1>6. /\ Agree(tables, after) /\ x \notin DOMAIN tables.executions
        /\ \A y \in Executions : y # x => after[y].tenant = runs[y].tenant
    <2>1. Agree(tables, runs) /\ runs[x].at = 0
      BY <1>1, <1>3, <1>4
    <2>2. runs = [y \in Executions |-> runs[y]]
      BY <2>1, AgreeParts
    <2>3. /\ after = [y \in Executions |-> after[y]] /\ \A y \in Executions : y # x => after[y] = runs[y]
          /\ after[x] = [tenant |-> tenant, fate |-> fate, at |-> 1]
      BY <1>5, <2>2
    <2>4. QED BY <2>1, <2>3, CreationAgrees
  <1>7. run' = after /\ db' = tables
    BY <1>1, <1>4, <1>5
  <1>8. DOMAIN db.executions \subseteq Executions
    BY <1>3, ExecutionsKnown
  <1>9. \A y \in DOMAIN db.executions : run'[y].tenant = run[y].tenant
    BY <1>4, <1>6, <1>7, <1>8
  <1>10. RequestInv' /\ PipeInv'
    BY <1>1, <1>9, RequestStays, PipeStays DEF InsightsInv
  <1>11. QED BY <1>1, <1>6, <1>7, <1>10 DEF InsightsInv

\* A run goes on by the write that is its turn.
Advances(tables, runs, x, next, after) ==
  /\ runs[x].at \in 1 .. Len(Program(x, runs[x]))
  /\ next = Stored(tables, Program(x, runs[x])[runs[x].at])
  /\ after = [y \in Executions |-> after[y]] /\ \A y \in Executions : y # x => after[y] = runs[y]
  /\ after[x] = [tenant |-> runs[x].tenant, fate |-> runs[x].fate, at |-> runs[x].at + 1]

LEMMA DriveWrites ==
  ASSUME InsightsInv, NEW x \in Executions, Drive(x)
  PROVE  /\ \E next, after : Advances(db, run, x, next, after) /\ db' = next /\ run' = after
         /\ UNCHANGED <<pipe, request, left, refused>>
  <1>1. PICK tables, runs : tables = db /\ runs = run
    OBVIOUS
  <1>2. Agree(tables, runs)
    BY <1>1 DEF InsightsInv
  <1>3. PICK n : n = Len(Program(x, runs[x]))
    OBVIOUS
  <1>4. runs[x].at \in 1 .. n
    <2>1. runs[x].fate \in Fates
      BY <1>2 DEF Agree
    <2>2. IsSeq(Program(x, runs[x]))
      BY <2>1, ProgramClosed DEF Closed
    <2>3. n \in Nat
      BY <1>3, <2>2, SeqDomain
    <2>4. PICK writes \in Nat : writes = left.writes
      BY DEF InsightsInv, PipeInv
    <2>5. PICK last : last = Min({n, writes})
      OBVIOUS
    <2>6. last <= n /\ last \in Int
      <3>1. n \in Int /\ writes \in Int
        BY <2>3
      <3>2. Min({n, writes}) \in {n, writes} /\ Min({n, writes}) <= n
        BY ONLY <3>1, SmallerOfTwo
      <3>3. QED BY <2>5, <3>1, <3>2
    <2>7. runs[x].at \in 1 .. last
      BY <1>1, <1>3, <2>4, <2>5 DEF Drive
    <2>8. QED BY <2>3, <2>6, <2>7
  <1>5. PICK w : w = Program(x, runs[x])[runs[x].at]
    OBVIOUS
  <1>6. PICK known : Fits(w, x, runs[x].tenant, known) /\ \A id \in known : Has(tables, id)
    BY <1>2, <1>3, <1>4, <1>5, DriverFits
  <1>7. PICK tenant : tenant = runs[x].tenant
    OBVIOUS
  <1>8. Accepts(tables, w.table, w.key, w.row)
    BY <1>2, <1>6, <1>7, DriverAccepted
  <1>9. TrySave(w)
    BY <1>1, <1>5 DEF Drive
  <1>10. db' = Stored(db, w) /\ refused' = refused
    BY <1>1, <1>8, <1>9 DEF TrySave
  <1>11. PICK next : next = Stored(tables, w)
    OBVIOUS
  <1>12. PICK after : after = [runs EXCEPT ![x].at = @ + 1]
    OBVIOUS
  <1>13. run' = after /\ UNCHANGED <<pipe, request, left>>
    BY <1>1, <1>10, <1>12 DEF Drive
  <1>14. Advances(tables, runs, x, next, after)
    <2>1. runs[x].at \in 1 .. Len(Program(x, runs[x]))
      BY <1>3, <1>4
    <2>2. runs = [y \in Executions |-> runs[y]] /\ RunAgrees(tables, x, runs[x])
      BY <1>2, AgreeParts
    <2>3. runs[x] = [tenant |-> runs[x].tenant, fate |-> runs[x].fate, at |-> runs[x].at]
      BY <2>2 DEF RunAgrees
    <2>4. after = [y \in Executions |-> after[y]] /\ \A y \in Executions : y # x => after[y] = runs[y]
      BY <1>12, <2>2
    <2>5. after[x] = [tenant |-> runs[x].tenant, fate |-> runs[x].fate, at |-> runs[x].at + 1]
      <3>1. after[x] = [runs[x] EXCEPT !.at = @ + 1]
        BY <1>12, <2>2
      <3>2. QED BY <2>3, <3>1
    <2>6. QED BY <1>5, <1>11, <2>1, <2>4, <2>5 DEF Advances
  <1>15. db' = next
    BY <1>1, <1>10, <1>11
  <1>16. QED BY <1>1, <1>10, <1>13, <1>14, <1>15

LEMMA DriveSteps == ASSUME InsightsInv, NEW x \in Executions, Drive(x) PROVE InsightsInv'
  <1>1. PICK tables, runs : tables = db /\ runs = run
    OBVIOUS
  <1>2. PICK next, after : Advances(db, run, x, next, after) /\ db' = next /\ run' = after
    BY DriveWrites
  <1>3. UNCHANGED <<pipe, request, left, refused>>
    BY DriveWrites
  <1>4. Agree(tables, runs) /\ Advances(tables, runs, x, next, after)
    BY <1>1, <1>2 DEF InsightsInv
  <1>5. PICK w : w = Program(x, runs[x])[runs[x].at]
    OBVIOUS
  <1>6. /\ Agree(next, after)
        /\ \A t \in DOMAIN ForeignKeys : DOMAIN tables[t] \subseteq DOMAIN next[t]
        /\ \A y \in Executions : after[y].tenant = runs[y].tenant
    BY <1>4, <1>5, DriverAgrees DEF Advances
  <1>7. DOMAIN db.executions \subseteq DOMAIN db'.executions
    BY <1>1, <1>2, <1>6, TablesAreTables DEF Tables
  <1>8. \A y \in DOMAIN db.executions : run'[y].tenant = run[y].tenant
    BY <1>1, <1>2, <1>4, <1>6, ExecutionsKnown
  <1>9. RequestInv' /\ PipeInv'
    BY <1>3, <1>7, <1>8, RequestStays, PipeStays DEF InsightsInv
  <1>10. QED BY <1>2, <1>3, <1>6, <1>9 DEF InsightsInv

\* Feedback is accepted.
LEMMA FeedbackIsSaved ==
  ASSUME InsightsInv, NEW w, TrySave(w), run' = run,
         w.table \in {"operator_feedback", "execution_feedback"}, w.row.execution_id \in DOMAIN db.executions
  PROVE  /\ refused' = {} /\ Agree(db, run)' /\ DOMAIN db.executions \subseteq DOMAIN db'.executions
         /\ \A y \in DOMAIN db.executions : run'[y].tenant = run[y].tenant
  <1>1. PICK tables, runs : tables = db /\ runs = run
    OBVIOUS
  <1>2. PICK next : next = Stored(tables, w)
    OBVIOUS
  <1>3. Agree(tables, runs) /\ w.row.execution_id \in DOMAIN tables.executions
    BY <1>1 DEF InsightsInv
  <1>4. /\ Agree(next, runs) /\ Accepts(tables, w.table, w.key, w.row)
        /\ \A t \in DOMAIN ForeignKeys : DOMAIN tables[t] \subseteq DOMAIN next[t]
    BY <1>2, <1>3, FeedbackAgrees
  <1>5. db' = next /\ refused' = refused
    BY <1>1, <1>2, <1>4 DEF TrySave
  <1>6. Agree(db, run)'
    BY <1>1, <1>4, <1>5
  <1>7. DOMAIN db.executions \subseteq DOMAIN db'.executions
    BY <1>1, <1>4, <1>5, TablesAreTables DEF Tables
  <1>8. QED BY <1>5, <1>6, <1>7 DEF InsightsInv

LEMMA SubmitFeedbackSteps ==
  ASSUME InsightsInv, NEW x \in Executions, SubmitFeedback(x) PROVE InsightsInv'
  <1>1. PICK label : /\ x \in DOMAIN db.executions
                     /\ TrySave(Write("operator_feedback", NextId("operator_feedback"),
                                      [execution_id |-> x, label |-> label]))
    BY DEF SubmitFeedback, Visible
  <1>2. PICK key : key = NextId("operator_feedback")
    OBVIOUS
  <1>3. PICK w : w = Write("operator_feedback", key, [execution_id |-> x, label |-> label])
    OBVIOUS
  <1>4. TrySave(w) /\ w.table = "operator_feedback" /\ w.row.execution_id = x
    BY <1>1, <1>2, <1>3 DEF Write
  <1>5. /\ run' = run /\ request' = request /\ pipe' = pipe
        /\ \E f \in {"remarks", "analyses"} : left' = [left EXCEPT ![f] = @ - 1]
    BY DEF SubmitFeedback
  <1>6. /\ refused' = {} /\ Agree(db, run)' /\ DOMAIN db.executions \subseteq DOMAIN db'.executions
        /\ \A y \in DOMAIN db.executions : run'[y].tenant = run[y].tenant
    BY <1>1, <1>4, <1>5, FeedbackIsSaved
  <1>7. RequestInv' /\ PipeInv'
    BY <1>5, <1>6, RequestStays, PipeStays DEF InsightsInv
  <1>8. QED BY <1>6, <1>7 DEF InsightsInv

LEMMA StartAnalysisSteps ==
  ASSUME InsightsInv, NEW x \in Executions, StartAnalysis(x) PROVE InsightsInv'
  <1>1. /\ UNCHANGED <<db, run, request, refused>> /\ x \in DOMAIN db.executions
        /\ \E f \in {"remarks", "analyses"} : left' = [left EXCEPT ![f] = @ - 1]
    BY DEF StartAnalysis
  <1>2. PICK labels : pipe' = [pc |-> "execution", x |-> x, labels |-> labels]
    BY DEF StartAnalysis
  <1>3. PipeInv'
    <2>1. /\ {"limits", "writes"} \subseteq DOMAIN left' /\ left'.limits = left.limits
          /\ left'.writes = left.writes
      BY <1>1 DEF InsightsInv, PipeInv
    <2>2. QED BY <1>1, <1>2, <2>1 DEF InsightsInv, PipeInv
  <1>4. RequestInv'
    BY <1>1, RequestStays DEF InsightsInv
  <1>5. QED BY <1>1, <1>3, <1>4 DEF InsightsInv

\* Reading changes what the pipeline knows and where it is.
LEMMA ReadingSteps ==
  ASSUME InsightsInv, NEW pc, NEW next, NEW read, pc # "idle", "x" \notin DOMAIN read,
         PipeReads(pc, next, read)
  PROVE  InsightsInv'
  <1>1. /\ pipe.pc = pc /\ pipe' = [Merged(pipe, read) EXCEPT !.pc = next]
        /\ UNCHANGED <<db, run, request, left, refused>>
    BY DEF PipeReads
  <1>2. /\ {"pc", "x"} \subseteq DOMAIN pipe /\ pipe.x \in DOMAIN db.executions
    BY <1>1 DEF InsightsInv, PipeInv
  <1>3. PICK known : known = Merged(pipe, read)
    OBVIOUS
  <1>4. {"pc", "x"} \subseteq DOMAIN known /\ known.x = pipe.x
    BY <1>2, <1>3 DEF Merged
  <1>5. {"pc", "x"} \subseteq DOMAIN pipe' /\ pipe'.x = pipe.x
    BY <1>1, <1>3, <1>4
  <1>6. PipeInv'
    BY <1>1, <1>2, <1>5 DEF InsightsInv, PipeInv
  <1>7. RequestInv'
    BY <1>1, RequestStays DEF InsightsInv
  <1>8. QED BY <1>1, <1>6, <1>7 DEF InsightsInv

LEMMA PipeReadSteps ==
  ASSUME InsightsInv, ReadExecution \/ ReadSteps \/ ReadDecisions \/ ReadProposals PROVE InsightsInv'
  <1>1. ASSUME ReadExecution PROVE InsightsInv'
    <2>1. PICK read : read = [execution |-> db.executions[pipe.x]]
      OBVIOUS
    <2>2. "x" \notin DOMAIN read /\ PipeReads("execution", "steps", read)
      BY <1>1, <2>1 DEF ReadExecution
    <2>3. QED BY <2>2, ReadingSteps
  <1>2. ASSUME ReadSteps PROVE InsightsInv'
    <2>1. PICK read : read = [steps |-> StepsRead(pipe.x)]
      OBVIOUS
    <2>2. "x" \notin DOMAIN read /\ PipeReads("steps", "decisions", read)
      BY <1>2, <2>1 DEF ReadSteps
    <2>3. QED BY <2>2, ReadingSteps
  <1>3. ASSUME ReadDecisions PROVE InsightsInv'
    <2>1. PICK read : read = [decisions |-> DecisionsRead(pipe.x)]
      OBVIOUS
    <2>2. "x" \notin DOMAIN read /\ PipeReads("decisions", "proposals", read)
      BY <1>3, <2>1 DEF ReadDecisions
    <2>3. QED BY <2>2, ReadingSteps
  <1>4. ASSUME ReadProposals PROVE InsightsInv'
    <2>1. PICK read : read = [proposals |-> ProposalsRead(pipe.x)]
      OBVIOUS
    <2>2. "x" \notin DOMAIN read /\ PipeReads("proposals", "save", read)
      BY <1>4, <2>1 DEF ReadProposals
    <2>3. QED BY <2>2, ReadingSteps
  <1>5. QED BY <1>1, <1>2, <1>3, <1>4

LEMMA SaveAnalysisSteps == ASSUME InsightsInv, SaveAnalysis PROVE InsightsInv'
  <1>1. PICK x : x = pipe.x
    OBVIOUS
  <1>2. PICK inp : inp = pipe
    OBVIOUS
  <1>3. PICK now : now = NextId("execution_feedback")
    OBVIOUS
  <1>4. PICK w : w = Write("execution_feedback", now, Analyze(x, inp, now))
    OBVIOUS
  <1>5. TrySave(w) /\ UNCHANGED <<run, request, left>> /\ pipe' = [pc |-> "idle"]
    BY <1>1, <1>2, <1>3, <1>4 DEF SaveAnalysis, IdlePipe
  <1>6. w.table = "execution_feedback" /\ w.row.execution_id = x
    BY <1>4 DEF Write, Analyze
  <1>7. x \in DOMAIN db.executions
    BY <1>1 DEF SaveAnalysis, InsightsInv, PipeInv
  <1>8. /\ refused' = {} /\ Agree(db, run)' /\ DOMAIN db.executions \subseteq DOMAIN db'.executions
        /\ \A y \in DOMAIN db.executions : run'[y].tenant = run[y].tenant
    BY <1>5, <1>6, <1>7, FeedbackIsSaved
  <1>9. PipeInv'
    BY <1>5 DEF InsightsInv, PipeInv
  <1>10. RequestInv'
    BY <1>5, <1>8, RequestStays DEF InsightsInv
  <1>11. QED BY <1>8, <1>9, <1>10 DEF InsightsInv

(***************************************************************************)
(* The steps of a request.                                                 *)
(***************************************************************************)
\* A request's step disturbs nothing but the request.
LEMMA RequestSteps ==
  ASSUME InsightsInv, UNCHANGED <<db, run, pipe, left, refused>>, RequestInv' PROVE InsightsInv'
  <1>1. PipeInv'
    BY PipeStays DEF InsightsInv
  <1>2. QED BY <1>1 DEF InsightsInv

LEMMA NextRightful ==
  ASSUME NEW own, NEW next, InsightsInv, UNCHANGED <<db, run, pipe, left, refused>>, request' = next,
         own = Own(db, run, next.id), Rightful(next, own)
  PROVE  InsightsInv'
  <1>1. Own(db', run', next.id) = own
    BY DEF Own
  <1>2. RequestInv'
    BY <1>1 DEF RequestInv
  <1>3. QED BY <1>2, RequestSteps

LEMMA ReceiveSteps ==
  ASSUME InsightsInv, NEW kind \in {"aggregated", "anomalies", "mukti"}, Receive(kind) PROVE InsightsInv'
  <1>1. PICK limit \in left.limits, workflow \in left.workflows :
          Ask(kind, [pc |-> "list", limit |-> limit, workflow |-> workflow])
    BY DEF Receive
  <1>2. UNCHANGED <<db, run, pipe, left, refused>>
    BY DEF Receive
  <1>3. PICK h \in Headers : \/ request' = Merged([kind |-> kind, id |-> Identity(h), code |-> 200],
                                           [pc |-> "list", limit |-> limit, workflow |-> workflow])
                             \/ request' = [pc |-> "done", kind |-> kind, id |-> Identity(h), code |-> 403]
    BY <1>1 DEF Ask
  <1>4. PICK id : id = Identity(h)
    OBVIOUS
  <1>5. id.tenant # "any"
    BY <1>4, HeadersAssumption DEF Identity, DevIdentity
  <1>6. CASE request' = [pc |-> "done", kind |-> kind, id |-> id, code |-> 403]
    <2>1. RequestInv'
      BY <1>6 DEF RequestInv
    <2>2. QED BY <1>2, <2>1, RequestSteps
  <1>7. CASE request' = Merged([kind |-> kind, id |-> id, code |-> 200],
                               [pc |-> "list", limit |-> limit, workflow |-> workflow])
    <2>1. PICK next : next = Merged([kind |-> kind, id |-> id, code |-> 200],
                                    [pc |-> "list", limit |-> limit, workflow |-> workflow])
      OBVIOUS
    <2>2. /\ DOMAIN next = {"kind", "id", "code", "pc", "limit", "workflow"}
          /\ next.kind = kind /\ next.id = id /\ next.pc = "list" /\ next.limit = limit
          /\ next = [f \in DOMAIN next |-> next[f]]
      BY <2>1 DEF Merged
    <2>3. limit \in Nat
      BY DEF InsightsInv, PipeInv
    <2>4. PICK own : own = Own(db, run, id)
      OBVIOUS
    <2>5. Rightful(next, own)
      BY <1>5, <2>2, <2>3 DEF Rightful
    <2>6. QED BY <1>2, <1>7, <2>1, <2>2, <2>4, <2>5, NextRightful
  <1>8. QED BY <1>3, <1>4, <1>6, <1>7

LEMMA OneExecution == ASSUME NEW own, NEW x \in own PROVE <<x>> \in Seq(own)
  OBVIOUS

LEMMA NoRows == ASSUME NEW own PROVE RowsOwn(<<>>, own)
  BY DEF RowsOwn, ToSet

LEMMA ReceiveMetricsSteps ==
  ASSUME InsightsInv, NEW x \in Executions, ReceiveMetrics(x) PROVE InsightsInv'
  <1>1. UNCHANGED <<db, run, pipe, left, refused>>
    BY DEF ReceiveMetrics
  <1>2. PICK h \in Headers :
          LET id == Identity(h)
              code == IF x \notin DOMAIN db.executions THEN 404
                      ELSE IF Visible(db, id, x) THEN 200 ELSE 403
          IN  request' = IF code = 200
                           THEN [kind |-> "metrics", id |-> id, code |-> code, pc |-> "metrics",
                                 todo |-> <<x>>, read |-> NoRead, per |-> <<>>, listing |-> <<>>]
                           ELSE [kind |-> "metrics", id |-> id, code |-> code, pc |-> "done"]
    BY DEF ReceiveMetrics
  <1>3. PICK id : id = Identity(h)
    OBVIOUS
  <1>4. PICK code : code = IF x \notin DOMAIN db.executions THEN 404
                           ELSE IF Visible(db, id, x) THEN 200 ELSE 403
    OBVIOUS
  <1>5. request' = IF code = 200
                     THEN [kind |-> "metrics", id |-> id, code |-> code, pc |-> "metrics",
                           todo |-> <<x>>, read |-> NoRead, per |-> <<>>, listing |-> <<>>]
                     ELSE [kind |-> "metrics", id |-> id, code |-> code, pc |-> "done"]
    BY <1>2, <1>3, <1>4
  <1>6. CASE code # 200
    <2>1. RequestInv'
      BY <1>5, <1>6 DEF RequestInv
    <2>2. QED BY <1>1, <2>1, RequestSteps
  <1>7. CASE code = 200
    <2>1. PICK own : own = Own(db, run, id)
      OBVIOUS
    <2>2. x \in DOMAIN db.executions /\ Visible(db, id, x)
      BY <1>4, <1>7
    <2>3. Agree(db, run)
      BY DEF InsightsInv
    <2>4. run[x].tenant = id.tenant
      BY <2>2, <2>3, ExecutionsKnown DEF Visible
    <2>5. x \in own
      BY <2>1, <2>2, <2>4 DEF Own
    <2>6. PICK todo : todo = <<x>>
      OBVIOUS
    <2>7. PICK per : per = <<>>
      OBVIOUS
    <2>8. PICK next : next = [kind |-> "metrics", id |-> id, code |-> code, pc |-> "metrics",
                              todo |-> todo, read |-> NoRead, per |-> per, listing |-> per]
      OBVIOUS
    <2>9. todo \in Seq(own) /\ RowsOwn(per, own)
      BY <2>5, <2>6, <2>7, OneExecution, NoRows
    <2>10. /\ DOMAIN next = {"kind", "id", "code", "pc", "todo", "read", "per", "listing"}
           /\ next.kind = "metrics" /\ next.pc = "metrics" /\ next.id = id
           /\ next.todo = todo /\ next.per = per /\ next = [f \in DOMAIN next |-> next[f]]
      BY <2>8
    <2>11. id.tenant # "any"
      BY <1>3, HeadersAssumption DEF Identity, DevIdentity
    <2>12. Rightful(next, own)
      BY <2>9, <2>10, <2>11 DEF Rightful
    <2>13. request' = next
      BY <1>5, <1>7, <2>6, <2>7, <2>8
    <2>14. QED BY <1>1, <2>1, <2>10, <2>12, <2>13, NextRightful
  <1>8. QED BY <1>6, <1>7

\* What a listing within a tenant returns.
LEMMA ListedAreOwn ==
  ASSUME NEW id, id.tenant # "any", NEW workflow, NEW limit \in Int, Agree(db, run),
         NEW rows, rows = [x \in DOMAIN db.executions |-> With(db.executions[x], "tenant", TenantOf(x))],
         NEW listing \in ListExecutions("postgres", rows, id.tenant, workflow, "any", limit)
  PROVE  RowsOwn(listing, Own(db, run, id)) /\ Current(db, listing)
  <1> DEFINE wanted == {x \in DOMAIN rows : /\ id.tenant \in {"any", rows[x].tenant}
                                           /\ workflow \in {"any", rows[x].workflow_type}
                                           /\ "any" \in {"any", rows[x].status}}
             n == Cardinality(wanted)
  <1>1. wanted \subseteq {x \in DOMAIN rows : id.tenant = rows[x].tenant}
    OBVIOUS
  <1>2. PICK all \in Listings("postgres", rows, wanted, Newer) : listing = Limited(all, limit)
    BY DEF ListExecutions
  <1>3. PICK p \in [1 .. n -> wanted] : all = [i \in 1 .. n |-> rows[p[i]]]
    BY <1>2 DEF Listings, Bijection, Injection
  <1> HIDE DEF wanted
  <1>4. DOMAIN rows = DOMAIN db.executions /\ DOMAIN db.executions \subseteq Executions
    BY ExecutionsKnown
  <1>5. n \in Nat
    <2>1. IsFiniteSet(Executions)
      BY ExecutionsAssumption
    <2>2. wanted \subseteq Executions
      BY <1>1, <1>4
    <2>3. IsFiniteSet(wanted)
      BY <2>1, <2>2, FS_Subset
    <2>4. QED BY <2>3, FS_CardinalityType
  <1> HIDE DEF n
  <1>6. PICK own : own = Own(db, run, id)
    OBVIOUS
  <1>7. ASSUME NEW x \in wanted
        PROVE  /\ rows[x].execution_id \in own /\ rows[x].execution_id = x
               /\ rows[x].workflow_type = db.executions[x].workflow_type
               /\ rows[x].status = db.executions[x].status
    <2>1. x \in DOMAIN db.executions /\ rows[x].tenant = id.tenant
      BY <1>1, <1>4
    <2>2. PICK ex : ex = db.executions[x]
      OBVIOUS
    <2>3. PICK tenant : tenant = TenantOf(x)
      OBVIOUS
    <2>4. rows[x] = With(ex, "tenant", tenant)
      BY <1>4, <2>1, <2>2, <2>3
    <2>5. /\ With(ex, "tenant", tenant).tenant = tenant
          /\ \A f \in DOMAIN ex \ {"tenant"} : With(ex, "tenant", tenant)[f] = ex[f]
      BY DEF With, Merged
    <2>6. /\ {"execution_id", "workflow_type", "status"} \subseteq DOMAIN ex
          /\ ex.execution_id = x /\ tenant = run[x].tenant
      <3>1. PICK tables, runs : tables = db /\ runs = run
        OBVIOUS
      <3>2. Agree(tables, runs) /\ x \in DOMAIN tables.executions
        BY <2>1, <3>1
      <3>3. /\ {"execution_id", "workflow_type", "status"} \subseteq DOMAIN tables.executions[x]
            /\ tables.executions[x].execution_id = x
            /\ tables.executions[x].execution_context_id = Context(x)
            /\ tables.contexts[Context(x)].tenant_id = runs[x].tenant
        BY <3>2, ExecutionsKnown
      <3>4. QED BY <2>2, <2>3, <3>1, <3>3 DEF TenantOf
    <2>7. /\ rows[x].execution_id = x /\ rows[x].workflow_type = ex.workflow_type
          /\ rows[x].status = ex.status /\ rows[x].tenant = tenant
      BY <2>4, <2>5, <2>6
    <2>8. QED BY <1>6, <2>1, <2>2, <2>6, <2>7 DEF Own
  <1>8. all = [i \in 1 .. n |-> all[i]] /\ DOMAIN all = 1 .. n
    BY <1>3
  <1>9. \A i \in 1 .. n :
          /\ all[i].execution_id \in own
          /\ all[i].workflow_type = db.executions[all[i].execution_id].workflow_type
          /\ all[i].status = db.executions[all[i].execution_id].status
    BY <1>3, <1>7
  <1>10. PICK m \in 0 .. n : listing = [i \in 1 .. m |-> all[i]]
    <2>1. PICK least \in Nat : least = 1
      OBVIOUS
    <2>2. PICK upper \in Int : upper = 500
      OBVIOUS
    <2>3. PICK m : m = Min({n, Max({least, Min({limit, upper})})})
      OBVIOUS
    <2>4. m \in 0 .. n
      BY <1>5, <2>3, Bounds
    <2>5. Len(all) = n /\ SubSeq(all, 1, m) = [i \in 1 .. m |-> all[i]]
      BY <1>5, <1>8, <2>4, FirstPart
    <2>6. listing = SubSeq(all, 1, m)
      BY <1>2, <2>1, <2>2, <2>3, <2>5 DEF Limited
    <2>7. QED BY <2>4, <2>5, <2>6
  <1>11. m \in Nat /\ listing = [i \in 1 .. m |-> listing[i]]
    BY <1>5, <1>10
  <1>12. IsSeq(listing) /\ DOMAIN listing = 1 .. m
    BY <1>11, SeqByPlaces
  <1>13. \A i \in 1 .. m : i \in 1 .. n /\ listing[i] = all[i]
    BY <1>5, <1>10
  <1>14. QED BY <1>6, <1>9, <1>12, <1>13 DEF RowsOwn, IsSeq, Current

LEMMA NamesOwn ==
  ASSUME NEW rows, NEW own, RowsOwn(rows, own)
  PROVE  Names(rows) \in Seq(own)
  <1>1. IsSeq(rows)
    BY DEF RowsOwn, IsSeq
  <1>2. PICK n \in Nat : DOMAIN rows = 1 .. n
    BY <1>1, SeqDomain
  <1>3. Names(rows) = [i \in 1 .. n |-> rows[i].execution_id]
    BY <1>2 DEF Names
  <1>4. \A i \in 1 .. n : rows[i].execution_id \in own
    BY <1>2 DEF RowsOwn
  <1>5. QED BY <1>3, <1>4

\* A request that has come so far is rightful.
LEMMA Underway ==
  ASSUME InsightsInv, request.pc \notin {"idle", "done"}, NEW own, own = Own(db, run, request.id)
  PROVE  Rightful(request, own)
  BY DEF InsightsInv, RequestInv

LEMMA StepKeeps ==
  ASSUME InsightsInv, NEW next, Step(next), next.id = request.id,
         NEW own, own = Own(db, run, request.id), Rightful(next, own)
  PROVE  InsightsInv'
  BY NextRightful DEF Step

LEMMA ListSteps == ASSUME InsightsInv, List PROVE InsightsInv'
  <1>1. PICK listing \in ListScope :
          Step(Merged(request, [listing |-> listing, todo |-> Names(listing), read |-> NoRead, per |-> <<>>,
                                pc |-> IF request.kind = "mukti" THEN "feedback" ELSE "metrics"]))
    BY DEF List
  <1>2. PICK own : own = Own(db, run, request.id)
    OBVIOUS
  <1>3. PICK req : req = request
    OBVIOUS
  <1>4. Rightful(req, own) /\ req.pc = "list"
    BY <1>2, <1>3, Underway DEF List
  <1>5. req.kind # "metrics"
    BY <1>4 DEF Rightful
  <1>6. RowsOwn(listing, own)
    <2>1. PICK rows : rows = [x \in DOMAIN db.executions |-> With(db.executions[x], "tenant", TenantOf(x))]
      OBVIOUS
    <2>2. PICK id : id = req.id
      OBVIOUS
    <2>3. PICK limit \in Int : limit = req.limit
      BY <1>4, <1>5 DEF Rightful
    <2>4. PICK workflow : workflow = req.workflow
      OBVIOUS
    <2>5. listing \in ListExecutions("postgres", rows, id.tenant, workflow, "any", limit)
      BY <1>1, <1>3, <2>1, <2>2, <2>3, <2>4 DEF ListScope
    <2>6. id.tenant # "any" /\ Agree(db, run)
      BY <1>4, <2>2 DEF Rightful, InsightsInv
    <2>7. RowsOwn(listing, Own(db, run, id))
      BY <2>1, <2>5, <2>6, ListedAreOwn
    <2>8. QED BY <1>2, <1>3, <2>2, <2>7
  <1>7. PICK todo : todo = Names(listing)
    OBVIOUS
  <1>8. PICK per : per = <<>>
    OBVIOUS
  <1>9. todo \in Seq(own) /\ RowsOwn(per, own)
    BY <1>6, <1>7, <1>8, NamesOwn, NoRows
  <1>10. PICK pc : pc = IF req.kind = "mukti" THEN "feedback" ELSE "metrics"
    OBVIOUS
  <1>11. PICK more : more = [listing |-> listing, todo |-> todo, read |-> NoRead, per |-> per, pc |-> pc]
    OBVIOUS
  <1>12. PICK next : next = Merged(req, more)
    OBVIOUS
  <1>13. Step(next)
    BY <1>1, <1>3, <1>7, <1>8, <1>10, <1>11, <1>12
  <1>14. /\ DOMAIN more = {"listing", "todo", "read", "per", "pc"} /\ more.listing = listing
         /\ more.todo = todo /\ more.per = per /\ more.pc = pc
    BY <1>11
  <1>15. /\ next = [f \in DOMAIN next |-> next[f]] /\ DOMAIN next = DOMAIN req \cup DOMAIN more
         /\ \A f \in DOMAIN more : next[f] = more[f]
         /\ \A f \in DOMAIN req \ DOMAIN more : next[f] = req[f]
    BY <1>12 DEF Merged
  <1>16. /\ next.listing = listing /\ next.todo = todo /\ next.per = per /\ next.pc = pc
         /\ {"kind", "id", "code", "limit", "listing", "todo", "per", "read", "pc"} \subseteq DOMAIN next
         /\ next.kind = req.kind /\ next.id = req.id /\ next.limit = req.limit
    BY <1>4, <1>5, <1>14, <1>15 DEF Rightful
  <1>17. Rightful(next, own)
    BY <1>4, <1>5, <1>6, <1>9, <1>10, <1>15, <1>16 DEF Rightful
  <1>18. QED BY <1>2, <1>3, <1>13, <1>16, <1>17, StepKeeps

\* A step of a request for metrics leaves the caller and the listing alone.
Proceeds(req, next) ==
  /\ next = [f \in DOMAIN next |-> next[f]] /\ DOMAIN req \ {"loaded"} \subseteq DOMAIN next
  /\ \A f \in {"kind", "id", "code", "limit", "listing"} \cap DOMAIN req : next[f] = req[f]
  /\ next.pc \in {"list", "metrics", "load", "tools", "done"}
  /\ next.pc \in {"list", "load", "tools"} => req.kind # "metrics"
  /\ next.pc = "tools" => next.todo # <<>>

\* What is still to be read of a request for metrics, and what is known, stay own.
LEMMA MetricsKept ==
  ASSUME NEW req, NEW own, Rightful(req, own), req.kind # "mukti", req.pc # "list",
         NEW next, Proceeds(req, next), next.todo \in Seq(own), RowsOwn(next.per, own)
  PROVE  Rightful(next, own) /\ next.id = req.id
  <1>1. {"pc", "kind", "id", "code", "todo", "per", "read"} \subseteq DOMAIN req
    BY DEF Rightful
  <1>2. next.kind = req.kind /\ next.id = req.id
    BY <1>1 DEF Proceeds
  <1>3. /\ {"pc", "kind", "id", "code", "todo", "per", "read"} \subseteq DOMAIN next
        /\ req.kind # "metrics" => /\ "limit" \in DOMAIN next /\ next.limit \in Nat
                                   /\ "listing" \in DOMAIN next /\ RowsOwn(next.listing, own)
    BY <1>1 DEF Rightful, Proceeds
  <1>4. next.id.tenant # "any"
    BY <1>2 DEF Rightful
  <1>5. QED BY <1>2, <1>3, <1>4 DEF Rightful, Proceeds

LEMMA AnotherRow ==
  ASSUME NEW rows, NEW own, RowsOwn(rows, own), NEW row, row.execution_id \in own
  PROVE  RowsOwn(Append(rows, row), own)
  <1>1. IsSeq(rows)
    BY DEF RowsOwn, IsSeq
  <1>2. PICK next : next = Append(rows, row)
    OBVIOUS
  <1>3. PICK S : S = ToSet(rows) \cup {row}
    OBVIOUS
  <1>4. rows \in Seq(S)
    <2>1. ToSet(rows) \subseteq S
      BY <1>3
    <2>2. QED BY <1>1, <2>1 DEF IsSeq
  <1>5. /\ next \in Seq(S) /\ Len(next) = Len(rows) + 1 /\ Len(rows) \in Nat
        /\ \A i \in 1 .. Len(rows) : next[i] = rows[i]
        /\ next[Len(rows) + 1] = row
    BY <1>2, <1>3, <1>4
  <1>6. IsSeq(next) /\ DOMAIN next = 1 .. Len(next)
    BY <1>5, SequencesAreSeq
  <1>7. DOMAIN rows = 1 .. Len(rows)
    BY <1>1, SeqDomain
  <1>8. \A i \in 1 .. Len(next) : next[i].execution_id \in own
    <2>1. ASSUME NEW i \in 1 .. Len(next) PROVE next[i].execution_id \in own
      <3>1. CASE i \in 1 .. Len(rows)
        BY <1>5, <1>7, <3>1 DEF RowsOwn
      <3>2. CASE i = Len(rows) + 1
        <4>1. next[i] = row
          BY <1>5, <3>2
        <4>2. QED BY <4>1
      <3>3. i \in 1 .. Len(rows) \/ i = Len(rows) + 1
        BY <1>5
      <3>4. QED BY <3>1, <3>2, <3>3
    <2>2. QED BY <2>1
  <1>9. QED BY <1>2, <1>6, <1>8 DEF RowsOwn, IsSeq

LEMMA ReadMetricsSteps == ASSUME InsightsInv, ReadMetrics PROVE InsightsInv'
  <1>1. PICK own : own = Own(db, run, request.id)
    OBVIOUS
  <1>2. PICK req : req = request
    OBVIOUS
  <1>3. Rightful(req, own) /\ req.pc = "metrics" /\ req.todo # <<>>
    BY <1>1, <1>2, Underway DEF ReadMetrics
  <1>4. req.kind # "mukti" /\ req.todo \in Seq(own) /\ RowsOwn(req.per, own)
        /\ req = [f \in DOMAIN req |-> req[f]] /\ {"pc", "todo", "per", "read"} \subseteq DOMAIN req
    BY <1>3 DEF Rightful
  <1>5. PICK x : x = Head(req.todo)
    OBVIOUS
  <1>6. PICK read : read = Merged(req.read, Part(x, req.read.part, req.read))
    OBVIOUS
  <1>7. PICK rest : rest = Tail(req.todo)
    OBVIOUS
  <1>8. x \in own /\ rest \in Seq(own)
    BY <1>3, <1>4, <1>5, <1>7
  <1>9. PICK row : row = ExecutionMetrics(x, read)
    OBVIOUS
  <1>10. row.execution_id = x
    BY <1>9 DEF ExecutionMetrics
  <1>11. PICK per : per = Append(req.per, row)
    OBVIOUS
  <1>12. RowsOwn(per, own)
    BY <1>4, <1>8, <1>10, <1>11, AnotherRow
  <1>13. PICK more : \/ Step([req EXCEPT !.read = more])
                     \/ Step([req EXCEPT !.read = NoRead, !.todo = rest, !.per = per])
    BY <1>2, <1>5, <1>6, <1>7, <1>9, <1>11 DEF ReadMetrics
  <1>15. CASE Step([req EXCEPT !.read = more])
    <2>1. PICK next : next = [req EXCEPT !.read = more]
      OBVIOUS
    <2>2. Proceeds(req, next) /\ next.todo = req.todo /\ next.per = req.per
      BY <1>3, <1>4, <2>1 DEF Proceeds
    <2>3. Rightful(next, own) /\ next.id = req.id
      BY <1>3, <1>4, <2>2, MetricsKept
    <2>4. QED BY <1>1, <1>2, <1>15, <2>1, <2>3, StepKeeps
  <1>16. CASE Step([req EXCEPT !.read = NoRead, !.todo = rest, !.per = per])
    <2>1. PICK next : next = [req EXCEPT !.read = NoRead, !.todo = rest, !.per = per]
      OBVIOUS
    <2>2. Proceeds(req, next) /\ next.todo = rest /\ next.per = per
      BY <1>3, <1>4, <2>1 DEF Proceeds
    <2>3. Rightful(next, own) /\ next.id = req.id
      BY <1>3, <1>4, <1>8, <1>12, <2>2, MetricsKept
    <2>4. QED BY <1>1, <1>2, <1>16, <2>1, <2>3, StepKeeps
  <1>17. QED BY <1>13, <1>15, <1>16

\* The other steps of a request for metrics change neither what is known nor who asks.
LEMMA StillRightful ==
  ASSUME InsightsInv, request.pc \in {"metrics", "load", "tools"}, request.kind # "mukti",
         NEW next, Step(next), Proceeds(request, next), next.per = request.per,
         NEW S, request.todo \in Seq(S) => next.todo \in Seq(S), S = Own(db, run, request.id)
  PROVE  InsightsInv'
  <1>1. PICK req : req = request
    OBVIOUS
  <1>2. Rightful(req, S) /\ req.pc # "list" /\ req.kind # "mukti"
    BY <1>1, Underway
  <1>3. req.todo \in Seq(S) /\ RowsOwn(req.per, S)
    BY <1>2 DEF Rightful
  <1>4. Proceeds(req, next) /\ next.todo \in Seq(S) /\ RowsOwn(next.per, S)
    BY <1>1, <1>3
  <1>5. Rightful(next, S) /\ next.id = req.id
    BY <1>2, <1>4, MetricsKept
  <1>6. QED BY <1>1, <1>5, StepKeeps

\* A request for metrics is a record of these fields.
LEMMA MetricsFields ==
  ASSUME InsightsInv, request.pc \in {"metrics", "load", "tools"}
  PROVE  /\ request = [f \in DOMAIN request |-> request[f]] /\ request.kind # "mukti"
         /\ request.pc # "metrics" => request.kind # "metrics"
         /\ request.pc = "tools" => request.todo # <<>>
         /\ {"pc", "kind", "id", "code", "todo", "per", "read"} \subseteq DOMAIN request
  <1>1. PICK own : own = Own(db, run, request.id)
    OBVIOUS
  <1>2. PICK req : req = request
    OBVIOUS
  <1>3. Rightful(req, own)
    BY <1>1, <1>2, Underway
  <1>4. QED BY <1>2, <1>3 DEF Rightful

LEMMA MetricsReadSteps == ASSUME InsightsInv, MetricsRead PROVE InsightsInv'
  <1>1. request.pc = "metrics"
    BY DEF MetricsRead
  <1>2. PICK S : S = Own(db, run, request.id)
    OBVIOUS
  <1>3. PICK req : req = request
    OBVIOUS
  <1>4. /\ req = [f \in DOMAIN req |-> req[f]] /\ req.kind # "mukti"
        /\ {"pc", "kind", "id", "code", "todo", "per", "read"} \subseteq DOMAIN req
    BY <1>1, <1>3, MetricsFields
  <1>5. CASE Step([req EXCEPT !.pc = "done"])
    <2>1. PICK next : next = [req EXCEPT !.pc = "done"]
      OBVIOUS
    <2>2. Proceeds(req, next) /\ next.per = req.per /\ next.todo = req.todo
      BY <1>4, <2>1 DEF Proceeds
    <2>3. QED BY <1>1, <1>2, <1>3, <1>4, <1>5, <2>1, <2>2, StillRightful
  <1>6. CASE req.kind # "metrics" /\ Step(Merged(req, [loaded |-> <<>>, todo |-> Names(req.listing), pc |-> "load"]))
    <2>1. PICK todo : todo = Names(req.listing)
      OBVIOUS
    <2>2. PICK more : more = [loaded |-> <<>>, todo |-> todo, pc |-> "load"]
      OBVIOUS
    <2>3. PICK next : next = Merged(req, more)
      OBVIOUS
    <2>4. DOMAIN more = {"loaded", "todo", "pc"} /\ more.todo = todo /\ more.pc = "load"
      BY <2>2
    <2>5. /\ next = [f \in DOMAIN next |-> next[f]] /\ DOMAIN next = DOMAIN req \cup DOMAIN more
          /\ \A f \in DOMAIN more : next[f] = more[f]
          /\ \A f \in DOMAIN req \ DOMAIN more : next[f] = req[f]
      BY <2>3 DEF Merged
    <2>6. Proceeds(req, next) /\ next.per = req.per /\ next.todo = todo
      BY <1>4, <1>6, <2>4, <2>5 DEF Proceeds
    <2>7. todo \in Seq(S)
      <3>1. Rightful(req, S)
        BY <1>1, <1>2, <1>3, Underway
      <3>2. RowsOwn(req.listing, S)
        BY <1>1, <1>3, <1>6, <3>1 DEF Rightful
      <3>3. QED BY <2>1, <3>2, NamesOwn
    <2>8. QED BY <1>1, <1>2, <1>3, <1>4, <1>6, <2>1, <2>2, <2>3, <2>6, <2>7, StillRightful
  <1>7. CASE \E anomalies, score : Step(Merged(req, [anomalies |-> anomalies, score |-> score, pc |-> "done"]))
    <2>1. PICK anomalies, score : Step(Merged(req, [anomalies |-> anomalies, score |-> score, pc |-> "done"]))
      BY <1>7
    <2>2. PICK more : more = [anomalies |-> anomalies, score |-> score, pc |-> "done"]
      OBVIOUS
    <2>3. PICK next : next = Merged(req, more)
      OBVIOUS
    <2>4. DOMAIN more = {"anomalies", "score", "pc"} /\ more.pc = "done"
      BY <2>2
    <2>5. /\ next = [f \in DOMAIN next |-> next[f]] /\ DOMAIN next = DOMAIN req \cup DOMAIN more
          /\ \A f \in DOMAIN more : next[f] = more[f]
          /\ \A f \in DOMAIN req \ DOMAIN more : next[f] = req[f]
      BY <2>3 DEF Merged
    <2>6. Proceeds(req, next) /\ next.per = req.per /\ next.todo = req.todo
      BY <1>4, <2>4, <2>5 DEF Proceeds
    <2>7. QED BY <1>1, <1>2, <1>3, <1>4, <2>1, <2>2, <2>3, <2>6, StillRightful
  <1>8. \/ Step([req EXCEPT !.pc = "done"])
        \/ req.kind # "metrics" /\ Step(Merged(req, [loaded |-> <<>>, todo |-> Names(req.listing), pc |-> "load"]))
        \/ Step(Merged(req, [anomalies |-> DetectAnomalies(req.per, req.agg),
                             score |-> EvaluationScore(req.per), pc |-> "done"]))
    BY <1>3 DEF MetricsRead
  <1>9. QED BY <1>5, <1>6, <1>7, <1>8

LEMMA LoadStepsSteps == ASSUME InsightsInv, LoadSteps PROVE InsightsInv'
  <1>1. request.pc = "load"
    BY DEF LoadSteps
  <1>2. PICK S : S = Own(db, run, request.id)
    OBVIOUS
  <1>3. PICK req : req = request
    OBVIOUS
  <1>4. /\ req = [f \in DOMAIN req |-> req[f]] /\ req.kind \notin {"mukti", "metrics"}
        /\ {"pc", "kind", "id", "code", "todo", "per", "read"} \subseteq DOMAIN req
    BY <1>1, <1>3, MetricsFields
  <1>5. PICK read : Step([req EXCEPT !.pc = "tools", !.read = read])
    BY <1>3 DEF LoadSteps
  <1>6. PICK next : next = [req EXCEPT !.pc = "tools", !.read = read]
    OBVIOUS
  <1>7. Proceeds(req, next) /\ next.per = req.per /\ next.todo = req.todo
    <2>1. req.todo # <<>>
      BY <1>3 DEF LoadSteps
    <2>2. QED BY <1>4, <1>6, <2>1 DEF Proceeds
  <1>8. QED BY <1>1, <1>2, <1>3, <1>4, <1>5, <1>6, <1>7, StillRightful

LEMMA LoadToolsSteps == ASSUME InsightsInv, LoadTools PROVE InsightsInv'
  <1>1. request.pc = "tools"
    BY DEF LoadTools
  <1>2. PICK S : S = Own(db, run, request.id)
    OBVIOUS
  <1>3. PICK req : req = request
    OBVIOUS
  <1>4. /\ req = [f \in DOMAIN req |-> req[f]] /\ req.kind \notin {"mukti", "metrics"}
        /\ {"pc", "kind", "id", "code", "todo", "per", "read"} \subseteq DOMAIN req
    BY <1>1, <1>3, MetricsFields
  <1>5. PICK rest : rest = Tail(req.todo)
    OBVIOUS
  <1>6. PICK loaded : Step([req EXCEPT !.pc = "load", !.read = NoRead, !.todo = rest, !.loaded = loaded])
    BY <1>3, <1>5 DEF LoadTools
  <1>7. PICK next : next = [req EXCEPT !.pc = "load", !.read = NoRead, !.todo = rest, !.loaded = loaded]
    OBVIOUS
  <1>8. Proceeds(req, next) /\ next.per = req.per /\ next.todo = rest
    BY <1>4, <1>7 DEF Proceeds
  <1>9. req.todo \in Seq(S) => rest \in Seq(S)
    <2>1. req.todo # <<>>
      BY <1>1, <1>3, MetricsFields
    <2>2. QED BY <1>5, <2>1
  <1>10. QED BY <1>1, <1>2, <1>3, <1>4, <1>6, <1>7, <1>8, <1>9, StillRightful

LEMMA RollupSteps == ASSUME InsightsInv, Rollup PROVE InsightsInv'
  <1>1. request.pc = "load"
    BY DEF Rollup
  <1>2. PICK S : S = Own(db, run, request.id)
    OBVIOUS
  <1>3. PICK req : req = request
    OBVIOUS
  <1>4. /\ req = [f \in DOMAIN req |-> req[f]] /\ req.kind \notin {"mukti", "metrics"}
        /\ {"pc", "kind", "id", "code", "todo", "per", "read"} \subseteq DOMAIN req
    BY <1>1, <1>3, MetricsFields
  <1>5. PICK rest : rest = [k \in DOMAIN req \ {"loaded"} |-> req[k]]
    OBVIOUS
  <1>6. PICK agg : Step(Merged(rest, [agg |-> agg, pc |-> IF req.kind = "aggregated" THEN "done" ELSE "list"]))
    BY <1>3, <1>5 DEF Rollup
  <1>7. PICK pc : pc = IF req.kind = "aggregated" THEN "done" ELSE "list"
    OBVIOUS
  <1>8. PICK more : more = [agg |-> agg, pc |-> pc]
    OBVIOUS
  <1>9. PICK next : next = Merged(rest, more)
    OBVIOUS
  <1>10. DOMAIN more = {"agg", "pc"} /\ more.pc = pc
    BY <1>8
  <1>11. /\ next = [f \in DOMAIN next |-> next[f]] /\ DOMAIN next = DOMAIN rest \cup DOMAIN more
         /\ \A f \in DOMAIN more : next[f] = more[f]
         /\ \A f \in DOMAIN rest \ DOMAIN more : next[f] = rest[f]
    BY <1>9 DEF Merged
  <1>12. DOMAIN rest = DOMAIN req \ {"loaded"} /\ \A f \in DOMAIN rest : rest[f] = req[f]
    BY <1>5
  <1>13. Proceeds(req, next) /\ next.per = req.per /\ next.todo = req.todo
    BY <1>4, <1>7, <1>10, <1>11, <1>12 DEF Proceeds
  <1>14. Step(next)
    BY <1>6, <1>7, <1>8, <1>9
  <1>15. QED BY <1>1, <1>2, <1>3, <1>4, <1>13, <1>14, StillRightful

(***************************************************************************)
(* What the analyzer says rests on the rows it was given.                  *)
(***************************************************************************)
Rests(rows, i) ==
  \A x \in i.executions : \E k \in DOMAIN rows : rows[k].execution_id = x /\ Reports(rows[k], i)

\* The rows that carry a signal are those with a place where they do.
LEMMA MetAt ==
  ASSUME NEW rows, NEW hits, NEW met,
         \A m \in met : \E k \in DOMAIN rows : m \in {k} \X hits[k],
         \A k \in DOMAIN rows : {k} \X hits[k] \subseteq met
  PROVE  {m[1] : m \in met} = {k \in DOMAIN rows : hits[k] # {}}
  <1>1. ASSUME NEW m \in met PROVE m[1] \in DOMAIN rows /\ hits[m[1]] # {}
    BY <1>1
  <1>2. ASSUME NEW k \in DOMAIN rows, hits[k] # {} PROVE \E m \in met : m[1] = k
    <2>1. PICK place : place \in hits[k]
      BY <1>2
    <2>2. <<k, place>> \in met /\ <<k, place>>[1] = k
      BY <2>1
    <2>3. QED BY <2>2
  <1>3. QED BY <1>1, <1>2

\* What is said of a row's signal is said by the rows that carry it.
LEMMA SaidByRows ==
  ASSUME NEW rows, NEW keys, keys \subseteq DOMAIN rows, NEW i, i.executions = ExecutionsOf(rows, keys),
         \A k \in keys : Reports(rows[k], i)
  PROVE  Rests(rows, i)
  BY DEF Rests, ExecutionsOf

LEMMA TypesRest ==
  ASSUME NEW rows, NEW summaries, NEW category \in {"top_failure_type", "policy_friction"},
         NEW least, NEW weight, NEW signals,
         NEW i \in Tallied(category, rows, summaries, signals, TypeHits, least, weight)
  PROVE  Rests(rows, i) /\ i.category = category
  <1> DEFINE Where(s) == UNION {{k} \X TypeHits(rows[k], s) : k \in DOMAIN rows}
             Having(s) == {m[1] : m \in Where(s)}
             Of(s) == Insight(category, s, Cardinality(Where(s)), ExecutionsOf(rows, Having(s)),
                              WorkflowsOf(rows, Having(s), summaries), {}, Cardinality(Where(s)) * weight)
  <1>1. i \in {o \in {Of(s) : s \in signals} : o.evidence_count >= least}
    BY DEF Tallied, Met
  <1>2. PICK s \in signals : i = Of(s)
    <2> HIDE DEF Of
    <2>1. QED BY <1>1
  <1>3. i.category = category /\ i.key = s /\ i.executions = ExecutionsOf(rows, Having(s))
    <2> HIDE DEF Having, Where
    <2>1. QED BY <1>2 DEF Insight
  <1>4. PICK hits : hits = [k \in DOMAIN rows |-> TypeHits(rows[k], s)]
    OBVIOUS
  <1>5. Where(s) = UNION {{k} \X hits[k] : k \in DOMAIN rows}
    BY <1>4
  <1>6. Having(s) = {k \in DOMAIN rows : hits[k] # {}}
    <2>1. PICK met : met = Where(s)
      OBVIOUS
    <2>2. /\ \A m \in met : \E k \in DOMAIN rows : m \in {k} \X hits[k]
          /\ \A k \in DOMAIN rows : {k} \X hits[k] \subseteq met
      BY <1>5, <2>1
    <2>3. {m[1] : m \in met} = {k \in DOMAIN rows : hits[k] # {}}
      BY ONLY <2>2, MetAt
    <2> HIDE DEF Where
    <2>4. QED BY <2>1, <2>3
  <1>7. \A k \in Having(s) : k \in DOMAIN rows /\ s \in rows[k].failure_types
    <2> HIDE DEF Having
    <2>1. QED BY <1>4, <1>6 DEF TypeHits
  <1>8. \A k \in Having(s) : Reports(rows[k], i)
    <2> HIDE DEF Having
    <2>1. QED BY <1>3, <1>7 DEF Reports
  <1> HIDE DEF Having
  <1>9. QED BY <1>3, <1>7, <1>8, SaidByRows

LEMMA PatternsRest ==
  ASSUME NEW rows, NEW summaries, NEW least, NEW weight, NEW signals,
         NEW i \in Tallied("recurring_pattern", rows, summaries, signals, PatternHits, least, weight)
  PROVE  Rests(rows, i) /\ i.category = "recurring_pattern"
  <1> DEFINE Where(s) == UNION {{k} \X PatternHits(rows[k], s) : k \in DOMAIN rows}
             Having(s) == {m[1] : m \in Where(s)}
             Of(s) == Insight("recurring_pattern", s, Cardinality(Where(s)), ExecutionsOf(rows, Having(s)),
                              WorkflowsOf(rows, Having(s), summaries), {}, Cardinality(Where(s)) * weight)
  <1>1. i \in {o \in {Of(s) : s \in signals} : o.evidence_count >= least}
    BY DEF Tallied, Met
  <1>2. PICK s \in signals : i = Of(s)
    <2> HIDE DEF Of
    <2>1. QED BY <1>1
  <1>3. i.category = "recurring_pattern" /\ i.key = s /\ i.executions = ExecutionsOf(rows, Having(s))
    <2> HIDE DEF Having, Where
    <2>1. QED BY <1>2 DEF Insight
  <1>4. PICK hits : hits = [k \in DOMAIN rows |-> PatternHits(rows[k], s)]
    OBVIOUS
  <1>5. Where(s) = UNION {{k} \X hits[k] : k \in DOMAIN rows}
    BY <1>4
  <1>6. Having(s) = {k \in DOMAIN rows : hits[k] # {}}
    <2>1. PICK met : met = Where(s)
      OBVIOUS
    <2>2. /\ \A m \in met : \E k \in DOMAIN rows : m \in {k} \X hits[k]
          /\ \A k \in DOMAIN rows : {k} \X hits[k] \subseteq met
      BY <1>5, <2>1
    <2>3. {m[1] : m \in met} = {k \in DOMAIN rows : hits[k] # {}}
      BY ONLY <2>2, MetAt
    <2> HIDE DEF Where
    <2>4. QED BY <2>1, <2>3
  <1>7. \A k \in Having(s) : k \in DOMAIN rows /\ PatternHits(rows[k], s) # {}
    <2> HIDE DEF Having
    <2>1. QED BY <1>4, <1>6
  <1>8. \A k \in Having(s) : Reports(rows[k], i)
    <2> HIDE DEF Having
    <2>1. QED BY <1>3, <1>7 DEF Reports
  <1> HIDE DEF Having
  <1>9. QED BY <1>3, <1>7, <1>8, SaidByRows

LEMMA SuggestionsRest ==
  ASSUME NEW rows, NEW summaries, NEW least, NEW weight, NEW signals,
         NEW i \in Tallied("policy_friction", rows, summaries, signals, SuggestionHits, least, weight)
  PROVE  Rests(rows, i) /\ i.category = "policy_friction"
  <1> DEFINE Where(s) == UNION {{k} \X SuggestionHits(rows[k], s) : k \in DOMAIN rows}
             Having(s) == {m[1] : m \in Where(s)}
             Of(s) == Insight("policy_friction", s, Cardinality(Where(s)), ExecutionsOf(rows, Having(s)),
                              WorkflowsOf(rows, Having(s), summaries), {}, Cardinality(Where(s)) * weight)
  <1>1. i \in {o \in {Of(s) : s \in signals} : o.evidence_count >= least}
    BY DEF Tallied, Met
  <1>2. PICK s \in signals : i = Of(s)
    <2> HIDE DEF Of
    <2>1. QED BY <1>1
  <1>3. i.category = "policy_friction" /\ i.key = s /\ i.executions = ExecutionsOf(rows, Having(s))
    <2> HIDE DEF Having, Where
    <2>1. QED BY <1>2 DEF Insight
  <1>4. PICK hits : hits = [k \in DOMAIN rows |-> SuggestionHits(rows[k], s)]
    OBVIOUS
  <1>5. Where(s) = UNION {{k} \X hits[k] : k \in DOMAIN rows}
    BY <1>4
  <1>6. Having(s) = {k \in DOMAIN rows : hits[k] # {}}
    <2>1. PICK met : met = Where(s)
      OBVIOUS
    <2>2. /\ \A m \in met : \E k \in DOMAIN rows : m \in {k} \X hits[k]
          /\ \A k \in DOMAIN rows : {k} \X hits[k] \subseteq met
      BY <1>5, <2>1
    <2>3. {m[1] : m \in met} = {k \in DOMAIN rows : hits[k] # {}}
      BY ONLY <2>2, MetAt
    <2> HIDE DEF Where
    <2>4. QED BY <2>1, <2>3
  <1>7. \A k \in Having(s) : k \in DOMAIN rows /\ SuggestionHits(rows[k], s) # {}
    <2> HIDE DEF Having
    <2>1. QED BY <1>4, <1>6
  <1>8. \A k \in Having(s) : Reports(rows[k], i)
    <2> HIDE DEF Having
    <2>1. QED BY <1>3, <1>7 DEF Reports
  <1> HIDE DEF Having
  <1>9. QED BY <1>3, <1>7, <1>8, SaidByRows

LEMMA FallbacksRest ==
  ASSUME NEW rows, NEW summaries, NEW i \in ModelFallback(rows, summaries)
  PROVE  Rests(rows, i) /\ i.category = "model_fallback"
  <1>1. PICK hit : hit = {k \in DOMAIN rows : PatternHits(rows[k], Fallback) # {}}
    OBVIOUS
  <1> DEFINE Of(key, keys, count, named) ==
               Insight("model_fallback", key, count, ExecutionsOf(rows, keys), named, StepsOf(rows), count * 9)
             Mine(w) == Within(rows, hit, summaries, w)
             spread == Cardinality(ExecutionsOf(rows, hit))
  <1>2. i \in IF WorkflowsOf(rows, hit, summaries) # {}
                THEN {Of(w, Mine(w), Cardinality(Mine(w)), {w}) : w \in WorkflowsOf(rows, hit, summaries)}
                ELSE IF spread >= 2 THEN {Of("global", hit, spread, {})} ELSE {}
    BY <1>1 DEF ModelFallback
  <1>3. PICK key, keys, count, named : keys \subseteq hit /\ i = Of(key, keys, count, named)
    <2>1. \A w : Mine(w) \subseteq hit
      BY DEF Within
    <2> HIDE DEF Of, Mine, spread
    <2>2. QED BY <1>2, <2>1
  <1>4. i.category = "model_fallback" /\ i.executions = ExecutionsOf(rows, keys)
    BY <1>3 DEF Insight
  <1>5. \A k \in keys : k \in DOMAIN rows /\ Reports(rows[k], i)
    BY <1>1, <1>3, <1>4 DEF Reports
  <1>6. QED BY <1>4, <1>5, SaidByRows

LEMMA UnstableWorkflowsRest ==
  ASSUME NEW rows, NEW summaries, NEW i \in UnstableWorkflows(rows, summaries)
  PROVE  Rests(rows, i) /\ i.category = "unstable_workflow"
  <1> DEFINE Mine(w) == Within(rows, DOMAIN rows, summaries, w)
             Size(w) == Cardinality(Mine(w))
             Failed(w) == Cardinality({k \in Mine(w) : Ended(summaries, rows[k])})
             Unstable(w) == Size(w) >= 2 /\ 2 * Failed(w) >= Size(w)
             Of(w) == Insight("unstable_workflow", w, Size(w), ExecutionsOf(rows, Mine(w)), {w}, {},
                              (100 * Failed(w)) \div Size(w) + Size(w))
  <1>1. i \in {Of(w) : w \in {v \in WorkflowsOf(rows, DOMAIN rows, summaries) : Unstable(v)}}
    BY DEF UnstableWorkflows
  <1>2. PICK w : i = Of(w)
    <2> HIDE DEF Of, Unstable
    <2>1. QED BY <1>1
  <1>3. i.category = "unstable_workflow" /\ i.executions = ExecutionsOf(rows, Mine(w))
    <2> HIDE DEF Mine, Size, Failed
    <2>1. QED BY <1>2 DEF Insight
  <1>4. Mine(w) \subseteq DOMAIN rows
    BY DEF Within
  <1>5. \A k \in Mine(w) : Reports(rows[k], i)
    BY <1>3 DEF Reports
  <1> HIDE DEF Mine
  <1>6. QED BY <1>3, <1>4, <1>5, SaidByRows

LEMMA UnstableStepsRest ==
  ASSUME NEW rows, NEW summaries, NEW i \in UnstableSteps(rows, summaries)
  PROVE  Rests(rows, i) /\ i.category = "unstable_step"
  <1> DEFINE Having(step) == {k \in DOMAIN rows : \E p \in DOMAIN rows[k].patterns : rows[k].patterns[p].step = step}
             Amount(step) == Cardinality(ExecutionsOf(rows, Having(step)))
             Of(step) == Insight("unstable_step", step, Amount(step), ExecutionsOf(rows, Having(step)),
                                 WorkflowsOf(rows, Having(step), summaries), {step}, Amount(step) * 7)
  <1>1. i \in {o \in {Of(step) : step \in StepsOf(rows)} : o.evidence_count >= 2}
    BY DEF UnstableSteps
  <1>2. PICK step : i = Of(step)
    <2> HIDE DEF Of
    <2>1. QED BY <1>1
  <1>3. i.category = "unstable_step" /\ i.executions = ExecutionsOf(rows, Having(step))
    <2> HIDE DEF Having
    <2>1. QED BY <1>2 DEF Insight
  <1>4. Having(step) \subseteq DOMAIN rows
    OBVIOUS
  <1>5. \A k \in Having(step) : Reports(rows[k], i)
    BY <1>3 DEF Reports
  <1> HIDE DEF Having
  <1>6. QED BY <1>3, <1>4, <1>5, SaidByRows

LEMMA RankedRest ==
  ASSUME NEW rows, NEW summaries, NEW i \in RankedSuggestions(rows, summaries)
  PROVE  Rests(rows, i)
  <1> DEFINE Having(s) == {k \in DOMAIN rows : SuggestionHits(rows[k], s) # {}}
             Of(s) == [category |-> "policy_rule", summary |-> s,
                       weight |-> Cardinality(Met(rows, SuggestionHits, s)),
                       evidence_count |-> Cardinality(ExecutionsOf(rows, Having(s))),
                       executions |-> ExecutionsOf(rows, Having(s)),
                       workflows |-> WorkflowsOf(rows, Having(s), summaries)]
  <1>1. i \in {Of(s) : s \in Summaries(rows)}
    BY DEF RankedSuggestions
  <1>2. PICK s : i = Of(s)
    <2> HIDE DEF Of
    <2>1. QED BY <1>1
  <1>3. i.category = "policy_rule" /\ i.executions = ExecutionsOf(rows, Having(s))
    <2> HIDE DEF Having
    <2>1. QED BY <1>2
  <1>4. Having(s) \subseteq DOMAIN rows
    OBVIOUS
  <1>5. \A k \in Having(s) : Reports(rows[k], i)
    BY <1>3 DEF Reports
  <1> HIDE DEF Having
  <1>6. QED BY <1>3, <1>4, <1>5, SaidByRows

\* Whatever the analyzer answers rests on the rows, and what it says of unstable
\* workflows is said by UnstableWorkflows.
LEMMA AnswersRest ==
  ASSUME NEW rows, NEW summaries, NEW answer, answer = AnalyzeCrossExecution(rows, summaries)
  PROVE  /\ \A i \in answer.insights \cup answer.ranked : Rests(rows, i)
         /\ TopFailureTypes(rows, summaries) \subseteq answer.insights
         /\ {i \in answer.insights : i.category = "unstable_workflow"} = UnstableWorkflows(rows, summaries)
  <1>1. /\ answer.insights = TopFailureTypes(rows, summaries) \cup RecurringPatterns(rows, summaries)
                             \cup PolicyFriction(rows, summaries) \cup ModelFallback(rows, summaries)
                             \cup UnstableWorkflows(rows, summaries) \cup UnstableSteps(rows, summaries)
        /\ answer.ranked = RankedSuggestions(rows, summaries)
    BY DEF AnalyzeCrossExecution
  <1>2. \A i \in TopFailureTypes(rows, summaries) : Rests(rows, i) /\ i.category = "top_failure_type"
    BY TypesRest DEF TopFailureTypes
  <1>3. \A i \in RecurringPatterns(rows, summaries) : Rests(rows, i) /\ i.category = "recurring_pattern"
    BY PatternsRest DEF RecurringPatterns
  <1>4. \A i \in PolicyFriction(rows, summaries) : Rests(rows, i) /\ i.category = "policy_friction"
    BY TypesRest, SuggestionsRest DEF PolicyFriction
  <1>5. /\ \A i \in ModelFallback(rows, summaries) : Rests(rows, i) /\ i.category = "model_fallback"
        /\ \A i \in UnstableWorkflows(rows, summaries) : Rests(rows, i) /\ i.category = "unstable_workflow"
        /\ \A i \in UnstableSteps(rows, summaries) : Rests(rows, i) /\ i.category = "unstable_step"
        /\ \A i \in RankedSuggestions(rows, summaries) : Rests(rows, i)
    BY FallbacksRest, UnstableWorkflowsRest, UnstableStepsRest, RankedRest
  <1>6. QED BY <1>1, <1>2, <1>3, <1>4, <1>5

\* A type that a row has is counted, once for every row that has it.
LEMMA TypeCounted ==
  ASSUME NEW rows, IsFiniteSet(DOMAIN rows), NEW summaries, NEW k \in DOMAIN rows, NEW f \in rows[k].failure_types,
         NEW having, \A j : j \in having <=> j \in DOMAIN rows /\ f \in rows[j].failure_types
  PROVE  \E i \in TopFailureTypes(rows, summaries) :
           i.category = "top_failure_type" /\ i.key = f /\ i.evidence_count = Cardinality(having)
  <1>1. having = {j \in DOMAIN rows : f \in rows[j].failure_types}
    OBVIOUS
  <1>2. PICK met : met = UNION {{j} \X TypeHits(rows[j], f) : j \in DOMAIN rows}
    OBVIOUS
  <1>3. Cardinality(met) = Cardinality(having) /\ Cardinality(having) \in Nat /\ Cardinality(having) >= 1
    <2>1. PICK g : g = [j \in having |-> <<j, f>>]
      OBVIOUS
    <2>2. \A j \in having : <<j, f>> \in met
      BY <1>1, <1>2 DEF TypeHits
    <2>3. \A m \in met : m[1] \in having /\ m = <<m[1], f>>
      BY <1>1, <1>2 DEF TypeHits
    <2>4. g \in Injection(having, met)
      BY <2>1, <2>2 DEF Injection, IsInjective
    <2>5. g \in Surjection(having, met)
      BY <2>1, <2>2, <2>3 DEF Surjection
    <2>6. ExistsBijection(having, met)
      BY <2>4, <2>5 DEF ExistsBijection, Bijection
    <2>7. IsFiniteSet(having)
      BY <1>1, FS_Subset
    <2>8. Cardinality(having) \in Nat /\ Cardinality(having) # 0
      <3>1. having # {}
        BY <1>1
      <3>2. QED BY <2>7, <3>1, FS_CardinalityType, FS_EmptySet
    <2>9. QED BY <2>6, <2>7, <2>8, FS_Bijection
  <1>4. PICK i : i = Insight("top_failure_type", f, Cardinality(met), ExecutionsOf(rows, {m[1] : m \in met}),
                             WorkflowsOf(rows, {m[1] : m \in met}, summaries), {}, Cardinality(met) * 10)
    OBVIOUS
  <1>5. i.category = "top_failure_type" /\ i.key = f /\ i.evidence_count = Cardinality(met)
    BY <1>4 DEF Insight
  <1>6. f \in FailureKinds(rows)
    BY DEF FailureKinds
  <1>7. i \in TopFailureTypes(rows, summaries)
    <2> DEFINE Where(s) == UNION {{j} \X TypeHits(rows[j], s) : j \in DOMAIN rows}
               Of(s) == Insight("top_failure_type", s, Cardinality(Where(s)),
                                ExecutionsOf(rows, {m[1] : m \in Where(s)}),
                                WorkflowsOf(rows, {m[1] : m \in Where(s)}, summaries), {},
                                Cardinality(Where(s)) * 10)
    <2>1. TopFailureTypes(rows, summaries) = {o \in {Of(s) : s \in FailureKinds(rows)} : o.evidence_count >= 1}
      BY DEF TopFailureTypes, Tallied, Met
    <2>2. i = Of(f)
      BY <1>2, <1>4
    <2>3. i.evidence_count >= 1
      BY <1>3, <1>5
    <2> HIDE DEF Of
    <2>4. QED BY <1>6, <2>1, <2>2, <2>3
  <1>8. QED BY <1>1, <1>3, <1>5, <1>7

\* A workflow is called unstable when it is.
LEMMA UnstableExactly ==
  ASSUME NEW rows, IsFiniteSet(DOMAIN rows), NEW summaries, NEW w,
         \A k \in DOMAIN rows : rows[k].execution_id \in DOMAIN summaries,
         NEW mine, \A k : k \in mine <=> k \in DOMAIN rows /\ summaries[rows[k].execution_id].workflow_type = w,
         NEW bad,
         \A k : k \in bad <=> k \in mine /\ summaries[rows[k].execution_id].status \in {"failed", "cancelled"}
  PROVE  (\E i \in UnstableWorkflows(rows, summaries) : i.key = w)
         <=> Cardinality(mine) >= 2 /\ 2 * Cardinality(bad) >= Cardinality(mine)
  <1> DEFINE Mine(v) == Within(rows, DOMAIN rows, summaries, v)
             Size(v) == Cardinality(Mine(v))
             Failed(v) == Cardinality({k \in Mine(v) : Ended(summaries, rows[k])})
             Unstable(v) == Size(v) >= 2 /\ 2 * Failed(v) >= Size(v)
             Of(v) == Insight("unstable_workflow", v, Size(v), ExecutionsOf(rows, Mine(v)), {v}, {},
                              (100 * Failed(v)) \div Size(v) + Size(v))
             all == WorkflowsOf(rows, DOMAIN rows, summaries)
  <1>1. UnstableWorkflows(rows, summaries) = {Of(v) : v \in {u \in all : Unstable(u)}}
    BY DEF UnstableWorkflows
  <1>2. \A v : Of(v).key = v
    <2> HIDE DEF Mine, Size, Failed
    <2>1. QED BY DEF Insight
  <1>3. (\E i \in UnstableWorkflows(rows, summaries) : i.key = w) <=> w \in all /\ Unstable(w)
    <2> HIDE DEF Of, Unstable, all
    <2>1. QED BY <1>1, <1>2
  <1>4. Mine(w) = mine
    BY DEF Within
  <1>5. {k \in mine : Ended(summaries, rows[k])} = bad
    BY DEF Ended
  <1>6. Unstable(w) <=> Cardinality(mine) >= 2 /\ 2 * Cardinality(bad) >= Cardinality(mine)
    <2>1. Size(w) = Cardinality(mine) /\ Failed(w) = Cardinality(bad)
      BY <1>4, <1>5
    <2> HIDE DEF Size, Failed
    <2>2. QED BY <2>1
  <1>7. Cardinality(mine) >= 2 => w \in all
    <2>1. ASSUME mine # {} PROVE w \in all
      <3>1. PICK k \in mine : TRUE
        BY <2>1
      <3>2. k \in DOMAIN rows /\ summaries[rows[k].execution_id].workflow_type = w
        BY <3>1
      <3>3. QED BY <3>2 DEF WorkflowsOf, ExecutionsOf
    <2>2. mine = {} => Cardinality(mine) = 0
      BY FS_EmptySet
    <2>3. QED BY <2>1, <2>2
  <1> HIDE DEF Unstable, all
  <1>8. QED BY <1>3, <1>6, <1>7

(***************************************************************************)
(* The pool.                                                               *)
(***************************************************************************)
LEMMA PoolSize ==
  ASSUME NEW limit \in Nat
  PROVE  Pool(limit) \in Nat
  <1>1. PICK all \in Int : all = 500
    OBVIOUS
  <1>2. PICK times \in Int : times = 5 * limit
    OBVIOUS
  <1>3. PICK most : most = Max({times, limit})
    OBVIOUS
  <1>4. most \in {times, limit} /\ most >= limit
    BY <1>3, SmallerOfTwo
  <1>5. most \in Int /\ most >= 0
    BY <1>4
  <1>6. Min({all, most}) \in {all, most}
    BY <1>5, SmallerOfTwo
  <1>7. QED BY <1>1, <1>2, <1>3, <1>5, <1>6 DEF Pool

\* The pool has stored rows, and they are the ones that fewer rows are newer than.
LEMMA NewestRows ==
  ASSUME NEW n \in Nat, NextId("execution_feedback") = n + 1, NEW size \in Nat, NEW pool, pool = NewestFeedback(size)
  PROVE  /\ \A k : k \in DOMAIN pool <=> k \in 1 .. n /\ n - k < size
         /\ \A k \in DOMAIN pool : pool[k] = db.execution_feedback[k]
  <1>1. PICK one \in Int : one = 1
    OBVIOUS
  <1>2. PICK oldest \in Int : oldest = n + 1 - size
    OBVIOUS
  <1>3. PICK first : first = Max({one, oldest})
    OBVIOUS
  <1>4. first \in {one, oldest} /\ first >= one /\ first >= oldest
    BY <1>3, SmallerOfTwo
  <1>5. pool = [k \in first .. n |-> db.execution_feedback[k]]
    <2>1. PICK newest : newest = NextId("execution_feedback") - 1
      OBVIOUS
    <2>2. newest = n
      BY <2>1
    <2>3. pool = [k \in Max({1, newest + 1 - size}) .. newest |-> db.execution_feedback[k]]
      BY <2>1 DEF NewestFeedback
    <2>4. QED BY <1>1, <1>2, <1>3, <2>2, <2>3
  <1>6. \A k : k \in first .. n <=> k \in 1 .. n /\ n - k < size
    BY <1>1, <1>2, <1>4
  <1>7. QED BY <1>5, <1>6

LEMMA ReadFeedbackSteps == ASSUME InsightsInv, ReadFeedback PROVE InsightsInv'
  <1>1. PICK own : own = Own(db, run, request.id)
    OBVIOUS
  <1>2. PICK req : req = request
    OBVIOUS
  <1>3. Rightful(req, own) /\ req.pc = "feedback"
    BY <1>1, <1>2, Underway DEF ReadFeedback
  <1>4. /\ req = [f \in DOMAIN req |-> req[f]] /\ {"pc", "kind", "id", "code", "limit", "listing"} \subseteq DOMAIN req
        /\ req.kind = "mukti" /\ req.limit \in Nat /\ RowsOwn(req.listing, own)
    BY <1>3 DEF Rightful
  <1>5. PICK scope : scope = ToSet(Names(req.listing))
    OBVIOUS
  <1>6. scope \subseteq own
    <2>1. Names(req.listing) \in Seq(own)
      BY <1>4, NamesOwn
    <2>2. QED BY <1>5, <2>1 DEF ToSet
  <1>7. PICK pool : pool = NewestFeedback(Pool(req.limit))
    OBVIOUS
  <1>8. PICK rows : rows = InScope(pool, scope)
    OBVIOUS
  <1>9. \A k \in DOMAIN rows : rows[k].execution_id \in scope
    BY <1>8 DEF InScope
  <1>11. PICK summaries : summaries = [x \in scope |-> CHOOSE e \in ToSet(req.listing) : e.execution_id = x]
    OBVIOUS
  <1>12. PICK answer : answer = AnalyzeCrossExecution(rows, summaries)
    OBVIOUS
  <1>13. \A i \in answer.insights \cup answer.ranked : i.executions \subseteq own
    BY <1>6, <1>9, <1>12, AnswersRest DEF Rests
  <1>14. PICK more : more = [answer |-> answer, pc |-> "done"]
    OBVIOUS
  <1>15. PICK next : next = Merged(req, more)
    OBVIOUS
  <1>16. Step(next)
    BY <1>2, <1>5, <1>7, <1>8, <1>11, <1>12, <1>14, <1>15 DEF ReadFeedback
  <1>17. DOMAIN more = {"answer", "pc"} /\ more.answer = answer /\ more.pc = "done"
    BY <1>14
  <1>18. /\ next = [f \in DOMAIN next |-> next[f]] /\ DOMAIN next = DOMAIN req \cup DOMAIN more
         /\ \A f \in DOMAIN more : next[f] = more[f]
         /\ \A f \in DOMAIN req \ DOMAIN more : next[f] = req[f]
    BY <1>15 DEF Merged
  <1>19. /\ next.answer = answer /\ next.pc = "done"
         /\ {"kind", "id", "code", "limit", "listing", "pc"} \subseteq DOMAIN next
         /\ next.kind = req.kind /\ next.id = req.id /\ next.limit = req.limit /\ next.listing = req.listing
    BY <1>4, <1>17, <1>18
  <1>20. next.id.tenant # "any"
    BY <1>3, <1>19 DEF Rightful
  <1>21. Rightful(next, own)
    BY <1>4, <1>13, <1>18, <1>19, <1>20 DEF Rightful
  <1>22. QED BY <1>1, <1>2, <1>16, <1>19, <1>21, StepKeeps

(***************************************************************************)
(* The invariant, and what follows from it.                                *)
(***************************************************************************)
LEMMA InsightsInit == Init => InsightsInv
  <1> SUFFICES ASSUME Init PROVE InsightsInv
    OBVIOUS
  <1>1. PICK w \in Workloads :
          /\ run = w.run /\ db = FoldLeft(Stored, Empty, w.written) /\ left = w.left
          /\ pipe = IdlePipe /\ request = NoRequest /\ refused = {}
    BY DEF Init
  <1>2. PICK tables : tables = FoldLeft(Stored, Empty, w.written)
    OBVIOUS
  <1>3. /\ Agree(tables, w.run) /\ {"limits", "writes"} \subseteq DOMAIN w.left
        /\ w.left.limits \subseteq Nat /\ w.left.writes \in Nat
    BY <1>2, WorkloadsAssumption
  <1>4. db = tables
    BY <1>1, <1>2
  <1>5. Agree(db, run) /\ PipeInv /\ RequestInv
    BY <1>1, <1>3, <1>4 DEF PipeInv, RequestInv, IdlePipe, NoRequest
  <1>6. QED BY <1>1, <1>5 DEF InsightsInv

LEMMA InsightsSteps == InsightsInv /\ [Next]_vars => InsightsInv'
  <1> SUFFICES ASSUME InsightsInv, [Next]_vars PROVE InsightsInv'
    OBVIOUS
  <1>1. ASSUME UNCHANGED vars PROVE InsightsInv'
    <2>1. UNCHANGED <<db, run, pipe, left, refused, request>>
      BY <1>1 DEF vars
    <2>2. RequestInv'
      BY <2>1, RequestStays DEF InsightsInv
    <2>3. QED BY <2>1, <2>2, RequestSteps
  <1>2. ASSUME Next PROVE InsightsInv'
    BY <1>2, CreateSteps, DriveSteps, SubmitFeedbackSteps, StartAnalysisSteps, PipeReadSteps,
       SaveAnalysisSteps, ReceiveSteps, ReceiveMetricsSteps, ListSteps, ReadFeedbackSteps,
       ReadMetricsSteps, MetricsReadSteps, LoadStepsSteps, LoadToolsSteps, RollupSteps DEF Next
  <1>3. QED BY <1>1, <1>2

\* The tables hold what the drivers have written, the pipeline analyses an execution
\* that is stored, and a request on its way knows executions of its tenant only.
THEOREM InsightsInvariance == Spec => []InsightsInv
  BY InsightsInit, InsightsSteps, PTL DEF Spec

\* Whatever drivers, operators and the pipeline do in between, PostgreSQL turns no row
\* away: each driver's writes are closed under the columns that refer to other rows,
\* in the order run_execution, governance and submit_approval make them.
THEOREM NothingIsTurnedAway == Spec => []NothingRefused
  <1>1. InsightsInv => NothingRefused
    BY DEF InsightsInv, NothingRefused
  <1>2. QED BY <1>1, InsightsInvariance, PTL

LEMMA RightfulAnswers == InsightsInv => TenantSeesOnlyItsOwn
  <1> SUFFICES ASSUME InsightsInv, Answered, NEW x \in Cited
               PROVE  TenantOf(x) = request.id.tenant /\ run[x].tenant = TenantOf(x)
    BY DEF TenantSeesOnlyItsOwn
  <1>1. PICK own : own = Own(db, run, request.id)
    OBVIOUS
  <1>2. PICK req : req = request
    OBVIOUS
  <1>3. Rightful(req, own) /\ req.pc = "done"
    BY <1>1, <1>2 DEF Answered, InsightsInv, RequestInv
  <1>4. x \in own
    <2>1. CASE req.kind = "mukti"
      <3>1. PICK names : names = Names(req.listing)
        OBVIOUS
      <3>2. RowsOwn(req.listing, own) /\ \A i \in req.answer.insights \cup req.answer.ranked : i.executions \subseteq own
        BY <1>3, <2>1 DEF Rightful
      <3>3. ToSet(names) \subseteq own
        BY <3>1, <3>2, NamesOwn DEF ToSet
      <3>4. \/ x \in ToSet(names)
            \/ \E i \in req.answer.insights \cup req.answer.ranked : x \in i.executions
        BY <1>2, <2>1, <3>1 DEF Cited
      <3>5. QED BY <3>2, <3>3, <3>4
    <2>2. CASE req.kind # "mukti"
      <3>1. RowsOwn(req.per, own)
        BY <1>3, <2>2 DEF Rightful
      <3>2. PICK m \in ToSet(req.per) : x = m.execution_id
        BY <1>2, <2>2 DEF Cited
      <3>3. QED BY <3>1, <3>2 DEF RowsOwn, ToSet
    <2>3. QED BY <2>1, <2>2
  <1>5. x \in DOMAIN db.executions /\ run[x].tenant = request.id.tenant
    BY <1>1, <1>4 DEF Own
  <1>6. TenantOf(x) = run[x].tenant
    BY <1>5, ExecutionsKnown DEF TenantOf, InsightsInv
  <1>7. QED BY <1>5, <1>6

\* An answer speaks only of executions that the caller's tenant created, although
\* feedback is listed across tenants and a request lists and reads in many steps
\* between which drivers and operators write.
THEOREM TenantsSeeOnlyTheirOwn == Spec => []TenantSeesOnlyItsOwn
  BY InsightsInvariance, RightfulAnswers, PTL

(***************************************************************************)
(* What a driver tells of its execution: its timelines only grow, only its *)
(* last write is final, and a denial is told once it is on record.         *)
(***************************************************************************)
Final == {"completed", "failed", "cancelled"}

Seen(w) == ToSet(w.row.trace_timeline)
AreEvents(S) == \A e \in S : e = Event(e.event_type, e.path, e.step)
Denies(w) == \E e \in Seen(w) : e.event_type = "governed_outcome" /\ e.path = "policy_denied"

\* The reasoning of the first n steps.
Said(x, f, n) ==
  {Event("model_reasoning", f.path, StepId(x, i)) : i \in {k \in 1 .. n : StepsOfPlan(x)[k] \in ModelSteps}}

\* Before the end, the timelines grow from least to most, and nothing is judged.
Early(s, least, most) ==
  /\ IsSeq(s)
  /\ \A i \in 1 .. Len(s) :
       /\ s[i].table \notin {"evaluations", "proposals"}
       /\ s[i].table = "executions" => /\ s[i].row.status \notin Final /\ IsSeq(s[i].row.trace_timeline)
                                       /\ least \subseteq Seen(s[i]) /\ Seen(s[i]) \subseteq most
  /\ \A i, j \in 1 .. Len(s) :
       i < j /\ s[i].table = "executions" /\ s[j].table = "executions" => Seen(s[i]) \subseteq Seen(s[j])

Growing(s) ==
  \A i, j \in 1 .. Len(s) :
    i < j /\ s[i].table = "executions" /\ s[j].table = "executions" => Seen(s[i]) \subseteq Seen(s[j])

LEMMA GrowingConcat ==
  ASSUME NEW a, NEW b, IsSeq(a), IsSeq(b), Growing(a), Growing(b), NEW c, c = a \o b, NEW middle,
         \A i \in 1 .. Len(a) : a[i].table = "executions" => Seen(a[i]) \subseteq middle,
         \A i \in 1 .. Len(b) : b[i].table = "executions" => middle \subseteq Seen(b[i])
  PROVE  Growing(c)
  <1>1. PICK m, n \in Nat : m = Len(a) /\ n = Len(b)
    BY SeqDomain
  <1>2. /\ IsSeq(c) /\ Len(c) = m + n
        /\ \A i \in 1 .. m : c[i] = a[i]
        /\ \A i \in 1 .. n : c[m + i] = b[i]
    BY <1>1, Concatenation
  <1>3. ASSUME NEW i \in 1 .. m + n, NEW j \in 1 .. m + n, i < j,
               c[i].table = "executions", c[j].table = "executions"
        PROVE  Seen(c[i]) \subseteq Seen(c[j])
    <2>1. CASE j \in 1 .. m
      <3>1. i \in 1 .. m
        BY <1>3, <2>1
      <3>2. c[i] = a[i] /\ c[j] = a[j]
        BY <1>2, <2>1, <3>1
      <3>3. QED BY <1>1, <1>3, <2>1, <3>1, <3>2 DEF Growing
    <2>2. CASE i \notin 1 .. m
      <3>1. PICK k, l \in 1 .. n : k = i - m /\ l = j - m /\ k < l
        <4>1. i - m \in 1 .. n /\ j - m \in 1 .. n /\ i - m < j - m
          BY <1>3, <2>2
        <4>2. QED BY <4>1
      <3>2. c[m + k] = b[k] /\ c[m + l] = b[l] /\ m + k = i /\ m + l = j
        BY <1>2, <3>1
      <3>3. b[k].table = "executions" /\ b[l].table = "executions"
        BY <1>3, <3>2
      <3>4. Seen(b[k]) \subseteq Seen(b[l])
        BY <1>1, <3>1, <3>3 DEF Growing
      <3>5. QED BY <3>2, <3>4
    <2>3. CASE i \in 1 .. m /\ j \notin 1 .. m
      <3>1. c[i] = a[i]
        BY <1>2, <2>3
      <3>2. PICK k \in 1 .. n : k = j - m
        BY <2>3
      <3>3. c[m + k] = b[k] /\ m + k = j
        BY <1>2, <3>2
      <3>4. Seen(a[i]) \subseteq middle
        BY <1>1, <1>3, <2>3, <3>1
      <3>5. b[k].table = "executions"
        BY <1>3, <3>3
      <3>6. middle \subseteq Seen(b[k])
        BY <1>1, <3>2, <3>5
      <3>7. QED BY <3>1, <3>3, <3>4, <3>6
    <2>4. QED BY <2>1, <2>2, <2>3
  <1>4. QED BY <1>2, <1>3 DEF Growing

LEMMA EarlyConcat ==
  ASSUME NEW a, NEW b, NEW least, NEW middle, NEW most, Early(a, least, middle), Early(b, middle, most),
         least \subseteq middle, middle \subseteq most
  PROVE  Early(a \o b, least, most)
  <1>1. IsSeq(a) /\ IsSeq(b)
    BY DEF Early
  <1>2. PICK c : c = a \o b
    OBVIOUS
  <1>3. PICK m, n \in Nat : m = Len(a) /\ n = Len(b)
    BY <1>1, SeqDomain
  <1>4. /\ IsSeq(c) /\ Len(c) = m + n
        /\ \A i \in 1 .. m : c[i] = a[i]
        /\ \A i \in 1 .. n : c[m + i] = b[i]
    BY <1>1, <1>2, <1>3, Concatenation
  <1>5. \A i \in 1 .. m + n : (i \in 1 .. m /\ c[i] = a[i]) \/ (i - m \in 1 .. n /\ c[i] = b[i - m])
    BY <1>1, <1>2, <1>3, Places
  <1>6. ASSUME NEW i \in 1 .. m + n
        PROVE  /\ c[i].table \notin {"evaluations", "proposals"}
               /\ c[i].table = "executions" =>
                    /\ c[i].row.status \notin Final /\ IsSeq(c[i].row.trace_timeline)
                    /\ least \subseteq Seen(c[i]) /\ Seen(c[i]) \subseteq most
    <2>1. CASE i \in 1 .. m /\ c[i] = a[i]
      <3>1. /\ a[i].table \notin {"evaluations", "proposals"}
            /\ a[i].table = "executions" =>
                 /\ a[i].row.status \notin Final /\ IsSeq(a[i].row.trace_timeline)
                 /\ least \subseteq Seen(a[i]) /\ Seen(a[i]) \subseteq middle
        BY <1>3, <2>1 DEF Early
      <3>2. QED BY <2>1, <3>1
    <2>2. CASE i - m \in 1 .. n /\ c[i] = b[i - m]
      <3>1. PICK w : w = b[i - m]
        OBVIOUS
      <3>2. /\ w.table \notin {"evaluations", "proposals"}
            /\ w.table = "executions" =>
                 /\ w.row.status \notin Final /\ IsSeq(w.row.trace_timeline)
                 /\ middle \subseteq Seen(w) /\ Seen(w) \subseteq most
        BY <1>3, <2>2, <3>1 DEF Early
      <3>3. QED BY <2>2, <3>1, <3>2
    <2>3. QED BY <1>5, <2>1, <2>2
  <1>7. Growing(c)
    <2>1. \A i \in 1 .. Len(a) : a[i].table = "executions" => Seen(a[i]) \subseteq middle
      BY DEF Early
    <2>2. \A i \in 1 .. Len(b) : b[i].table = "executions" => middle \subseteq Seen(b[i])
      BY DEF Early
    <2>3. Growing(a) /\ Growing(b)
      BY DEF Early, Growing
    <2>4. QED BY <1>1, <1>2, <2>1, <2>2, <2>3, GrowingConcat
  <1>8. Early(c, least, most)
    BY <1>4, <1>6, <1>7 DEF Early, Growing
  <1>9. QED BY <1>2, <1>8

\* Rows of other tables tell nothing.
LEMMA OthersAreEarly ==
  ASSUME NEW s, NEW least, NEW most, IsSeq(s),
         \A w \in ToSet(s) : w.table \notin {"executions", "evaluations", "proposals"}
  PROVE  Early(s, least, most)
  <1>1. \A i \in 1 .. Len(s) : s[i].table \notin {"executions", "evaluations", "proposals"}
    BY SeqDomain
  <1>2. QED BY <1>1 DEF Early

LEMMA PlannedRow ==
  ASSUME NEW x, NEW status, NEW timeline, NEW w,
         w = Planned(x, status, timeline) \/ w = Write("executions", x, Record(x, status, timeline))
  PROVE  /\ w.table = "executions" /\ w.key = x
         /\ w.row.status = status /\ w.row.trace_timeline = timeline /\ Seen(w) = ToSet(timeline)
  <1>1. PICK row : row = Record(x, status, timeline)
    OBVIOUS
  <1>2. /\ DOMAIN row = {"execution_id", "workflow_type", "status", "trace_timeline", "created_at",
                         "execution_context_id"}
        /\ row.status = status /\ row.trace_timeline = timeline
    BY <1>1 DEF Record
  <1>3. PICK next : next = With(row, "current_plan_id", PlanId(x))
    OBVIOUS
  <1>4. next.status = status /\ next.trace_timeline = timeline
    BY <1>2, <1>3 DEF With, Merged
  <1>5. w = Write("executions", x, next) \/ w = Write("executions", x, row)
    BY <1>1, <1>3 DEF Planned
  <1>6. w.table = "executions" /\ w.key = x /\ w.row \in {row, next}
    BY <1>5 DEF Write
  <1>7. QED BY <1>2, <1>4, <1>6 DEF Seen

LEMMA OneIsEarly ==
  ASSUME NEW x, NEW status, status \notin Final, NEW timeline, IsSeq(timeline), NEW w,
         w = Planned(x, status, timeline) \/ w = Write("executions", x, Record(x, status, timeline)),
         NEW least, NEW most, least \subseteq ToSet(timeline), ToSet(timeline) \subseteq most
  PROVE  Early(<<w>>, least, most)
  <1>1. PICK s : s = <<w>>
    OBVIOUS
  <1>2. IsSeq(s) /\ Len(s) = 1 /\ s[1] = w
    BY <1>1, OneElement
  <1>3. /\ w.table = "executions" /\ w.row.status = status /\ w.row.trace_timeline = timeline
        /\ Seen(w) = ToSet(timeline)
    BY PlannedRow
  <1>4. \A i \in 1 .. Len(s) : i = 1
    BY <1>2
  <1>5. Early(s, least, most)
    BY <1>2, <1>3, <1>4 DEF Early
  <1>6. QED BY <1>1, <1>5

LEMMA ReasoningSays ==
  ASSUME NEW x, NEW f, NEW n \in Nat
  PROVE  IsSeq(Reasoning(x, f, n)) /\ ToSet(Reasoning(x, f, n)) = Said(x, f, n)
  <1> DEFINE E(i) == Event("model_reasoning", f.path, StepId(x, i))
  <1>1. PICK each : each = [i \in 1 .. n |-> IF StepsOfPlan(x)[i] \in ModelSteps THEN <<E(i)>> ELSE <<>>]
    OBVIOUS
  <1>2. Reasoning(x, f, n) = FlattenSeq(each)
    BY <1>1 DEF Reasoning
  <1>3. ASSUME NEW i \in 1 .. n
        PROVE  /\ IsSeq(each[i])
               /\ ToSet(each[i]) = IF StepsOfPlan(x)[i] \in ModelSteps THEN {E(i)} ELSE {}
    <2>1. PICK e : e = E(i)
      OBVIOUS
    <2>2. each[i] = IF StepsOfPlan(x)[i] \in ModelSteps THEN <<e>> ELSE <<>>
      BY <1>1, <2>1
    <2> HIDE DEF E
    <2>3. IsSeq(<<e>>) /\ ToSet(<<e>>) = {e} /\ IsSeq(<<>>) /\ ToSet(<<>>) = {}
      BY OneElement, Nothing
    <2>4. QED BY <2>1, <2>2, <2>3
  <1>4. each = [i \in 1 .. n |-> each[i]]
    BY <1>1
  <1>5. PICK all : all = FlattenSeq(each)
    OBVIOUS
  <1>6. IsSeq(all) /\ ToSet(all) = UNION {ToSet(each[i]) : i \in 1 .. n}
    BY <1>3, <1>4, <1>5, Flattening
  <1>7. Said(x, f, n) = {E(i) : i \in {k \in 1 .. n : StepsOfPlan(x)[k] \in ModelSteps}}
    BY DEF Said
  <1> HIDE DEF E
  <1>8. ToSet(all) = Said(x, f, n)
    <2>1. \A e : e \in ToSet(all) <=> \E i \in 1 .. n : e \in ToSet(each[i])
      BY <1>6
    <2>2. \A e : \A i \in 1 .. n : e \in ToSet(each[i]) <=> StepsOfPlan(x)[i] \in ModelSteps /\ e = E(i)
      BY <1>3
    <2>3. \A e : e \in Said(x, f, n) <=> \E i \in 1 .. n : StepsOfPlan(x)[i] \in ModelSteps /\ e = E(i)
      BY <1>7
    <2>4. QED BY <2>1, <2>2, <2>3
  <1>9. QED BY <1>2, <1>5, <1>6, <1>8

LEMMA MoreIsSaid ==
  ASSUME NEW x, NEW f, NEW n \in Nat, NEW m \in Nat, m <= n
  PROVE  Said(x, f, m) \subseteq Said(x, f, n) /\ Said(x, f, 0) = {}
  <1>1. 1 .. m \subseteq 1 .. n /\ 1 .. 0 = {}
    OBVIOUS
  <1>2. QED BY <1>1 DEF Said

LEMMA StepWritesEarly ==
  ASSUME NEW x \in Executions, NEW f, NEW n \in 1 .. Len(StepsOfPlan(x))
  PROVE  Early(StepWrites(x, f, n), Said(x, f, n - 1), Said(x, f, n))
  <1>1. PICK name : name = StepsOfPlan(x)[n]
    OBVIOUS
  <1>2. PICK a : a = Said(x, f, n - 1)
    OBVIOUS
  <1>3. PICK b : b = Said(x, f, n)
    OBVIOUS
  <1>4. n \in Nat /\ n - 1 \in Nat
    BY PlansAreSeqs
  <1>5. a \subseteq b
    BY <1>2, <1>3, <1>4, MoreIsSaid
  <1>6. PICK status : status = IF name \in ValidationSteps THEN "validating" ELSE "executing"
    OBVIOUS
  <1>7. status \notin Final
    BY <1>6 DEF Final
  <1>8. PICK t : t = Reasoning(x, f, n - 1)
    OBVIOUS
  <1>9. PICK u : u = Reasoning(x, f, n)
    OBVIOUS
  <1>10. IsSeq(t) /\ ToSet(t) = a /\ IsSeq(u) /\ ToSet(u) = b
    BY <1>2, <1>3, <1>4, <1>8, <1>9, ReasoningSays
  <1> DEFINE Other(w) == w.table \notin {"executions", "evaluations", "proposals"}
             Call(tool) == Write("tool_calls", <<x, n, tool>>,
                             [execution_id |-> x, step_id |-> StepId(x, n), tool_name |-> tool,
                              execution_context_id |-> Context(x), status |-> f.tool])
  <1>11. PICK none : none = <<>>
    OBVIOUS
  <1>12. \A least, most : Early(none, least, most)
    BY <1>11, Nothing, OthersAreEarly
  <1>13. PICK before : before = IF name \in ValidationSteps THEN <<Planned(x, status, t)>> ELSE none
    OBVIOUS
  <1>14. Early(before, a, a)
    <2>1. PICK w : w = Planned(x, status, t)
      OBVIOUS
    <2>2. Early(<<w>>, a, a)
      BY <1>7, <1>10, <2>1, OneIsEarly
    <2>3. QED BY <1>12, <1>13, <2>1, <2>2
  <1>15. PICK after : after = IF name \in ModelSteps THEN <<Planned(x, status, u)>> ELSE none
    OBVIOUS
  <1>16. Early(after, a, b)
    <2>1. PICK w : w = Planned(x, status, u)
      OBVIOUS
    <2>2. Early(<<w>>, a, b)
      BY <1>5, <1>7, <1>10, <2>1, OneIsEarly
    <2>3. QED BY <1>12, <1>15, <2>1, <2>2
  <1>17. PICK running : running = <<StepRow(x, n, "running")>>
    OBVIOUS
  <1>18. Early(running, a, a)
    <2>1. PICK w : w = StepRow(x, n, "running")
      OBVIOUS
    <2>2. Other(w)
      BY <2>1 DEF StepRow, Write
    <2>3. IsSeq(<<w>>) /\ ToSet(<<w>>) = {w}
      BY OneElement
    <2>4. PICK s : s = <<w>>
      OBVIOUS
    <2>5. IsSeq(s) /\ \A v \in ToSet(s) : Other(v)
      BY <2>2, <2>3, <2>4
    <2>6. Early(s, a, a)
      BY <2>5, OthersAreEarly
    <2>7. QED BY <1>17, <2>1, <2>4, <2>6
  <1>19. PICK calls : calls = [i \in DOMAIN ToolsOf(name) |-> Call(ToolsOf(name)[i])]
    OBVIOUS
  <1>20. Early(calls, a, a)
    <2>1. PICK k \in Nat : DOMAIN ToolsOf(name) = 1 .. k
      <3>1. \/ ToolsOf(name) = <<>>
            \/ ToolsOf(name) = <<"incident_metadata_tool", "signal_lookup_tool">>
            \/ ToolsOf(name) = <<"cloud_cost_tool", "metrics_lookup_tool">>
        BY DEF ToolsOf
      <3>2. DOMAIN ToolsOf(name) = 1 .. 0 \/ DOMAIN ToolsOf(name) = 1 .. 2
        BY <3>1
      <3>3. QED BY <3>2
    <2>2. calls = [i \in 1 .. k |-> calls[i]]
      BY <1>19, <2>1
    <2>3. \A tool : Other(Call(tool))
      BY DEF Write
    <2>4. \A i \in 1 .. k : Other(calls[i])
      <3> HIDE DEF Other
      <3>1. \A i \in 1 .. k : calls[i] = Call(ToolsOf(name)[i])
        BY <1>19, <2>1
      <3> HIDE DEF Call
      <3>2. QED BY <2>3, <3>1
    <2>5. IsSeq(calls) /\ ToSet(calls) = {calls[i] : i \in 1 .. k}
      BY <2>2, SeqByPlaces
    <2>6. \A v \in ToSet(calls) : Other(v)
      <3> HIDE DEF Other
      <3>1. QED BY <2>4, <2>5
    <2>7. QED BY <2>5, <2>6, OthersAreEarly
  <1>21. PICK v : v = IF name \in ValidationSteps THEN f.validation ELSE "none"
    OBVIOUS
  <1>22. PICK last : last = <<Write("results", StepId(x, n), [step_id |-> StepId(x, n), validation |-> v]),
                              StepRow(x, n, "succeeded")>>
    OBVIOUS
  <1>23. Early(last, b, b)
    <2>1. PICK c : c = Write("results", StepId(x, n), [step_id |-> StepId(x, n), validation |-> v])
      OBVIOUS
    <2>2. PICK d : d = StepRow(x, n, "succeeded")
      OBVIOUS
    <2>3. Other(c) /\ Other(d)
      BY <2>1, <2>2 DEF StepRow, Write
    <2>4. last = <<c, d>>
      BY <1>22, <2>1, <2>2
    <2>5. IsSeq(last) /\ ToSet(last) = {c, d}
      BY <2>4 DEF IsSeq, ToSet
    <2>6. \A w \in ToSet(last) : Other(w)
      BY <2>3, <2>5
    <2>7. QED BY <2>5, <2>6, OthersAreEarly
  <1>24. StepWrites(x, f, n) = (((before \o running) \o calls) \o after) \o last
    BY <1>1, <1>6, <1>8, <1>9, <1>11, <1>13, <1>15, <1>17, <1>19, <1>21, <1>22 DEF StepWrites
  <1> HIDE DEF Other, Call
  <1>25. PICK s1 : s1 = before \o running
    OBVIOUS
  <1>26. PICK s2 : s2 = s1 \o calls
    OBVIOUS
  <1>27. PICK s3 : s3 = s2 \o after
    OBVIOUS
  <1>28. PICK s4 : s4 = s3 \o last
    OBVIOUS
  <1>29. Early(s1, a, a)
    BY <1>14, <1>18, <1>25, EarlyConcat
  <1>30. Early(s2, a, a)
    BY <1>20, <1>26, <1>29, EarlyConcat
  <1>31. Early(s3, a, b)
    BY <1>5, <1>16, <1>27, <1>30, EarlyConcat
  <1>32. Early(s4, a, b)
    BY <1>5, <1>23, <1>28, <1>31, EarlyConcat
  <1>33. QED BY <1>2, <1>3, <1>24, <1>25, <1>26, <1>27, <1>28, <1>32

\* The work on the first steps, one after the other.
LEMMA WorkIsEarly ==
  ASSUME NEW x \in Executions, NEW f, NEW ran \in 0 .. Len(StepsOfPlan(x)),
         NEW steps, steps = [i \in 1 .. ran |-> StepWrites(x, f, i)]
  PROVE  Early(FlattenSeq(steps), {}, Said(x, f, ran))
  <1>1. ran \in Nat /\ \A i \in 1 .. ran : i \in 1 .. Len(StepsOfPlan(x))
    BY PlansAreSeqs
  <1>2. ASSUME NEW i \in 1 .. ran
        PROVE  Early(steps[i], Said(x, f, i - 1), Said(x, f, i)) /\ IsSeq(steps[i])
    <2>1. Early(StepWrites(x, f, i), Said(x, f, i - 1), Said(x, f, i))
      BY <1>1, StepWritesEarly
    <2>2. steps[i] = StepWrites(x, f, i)
      OBVIOUS
    <2>3. QED BY <2>1, <2>2 DEF Early
  <1>3. steps = [i \in 1 .. ran |-> steps[i]] /\ \A i \in 1 .. ran : IsSeq(steps[i])
    BY <1>2
  <1>4. CASE ran = 0
    <2>1. PICK all : all = FlattenSeq(steps)
      OBVIOUS
    <2>2. IsSeq(all) /\ ToSet(all) = UNION {ToSet(steps[i]) : i \in 1 .. ran}
      BY ONLY <1>1, <1>3, <2>1, Flattening
    <2>3. ToSet(all) = {}
      BY <1>4, <2>2
    <2>4. Early(all, {}, Said(x, f, ran))
      BY <2>2, <2>3, OthersAreEarly
    <2>5. QED BY <2>1, <2>4
  <1>5. CASE ran # 0
    <2>1. PICK g : /\ g = [i \in 1 .. ran |-> IF i = 1 THEN steps[i] ELSE g[i - 1] \o steps[i]]
                   /\ FlattenSeq(steps) = g[ran]
      BY ONLY <1>1, <1>3, <1>5, FlatteningValues
    <2> DEFINE T == {k \in 0 .. ran : k # 0 => Early(g[k], {}, Said(x, f, k))}
    <2>2. 0 \in T
      BY <1>1
    <2>3. ASSUME NEW k \in 0 .. ran - 1, k \in T PROVE k + 1 \in T
      <3>1. PICK i \in 1 .. ran : i = k + 1
        BY <1>1
      <3>2. PICK low : low = Said(x, f, k)
        OBVIOUS
      <3>3. PICK high : high = Said(x, f, i)
        OBVIOUS
      <3>4. i - 1 = k /\ k \in Nat /\ i \in Nat /\ k <= i
        BY <3>1
      <3>5. Early(steps[i], low, high)
        BY <1>2, <3>2, <3>3, <3>4
      <3>6. low \subseteq high /\ {} \subseteq low
        BY <3>2, <3>3, <3>4, MoreIsSaid
      <3>7. g[i] = IF i = 1 THEN steps[i] ELSE g[k] \o steps[i]
        <4>1. g[i] = IF i = 1 THEN steps[i] ELSE g[i - 1] \o steps[i]
          BY <2>1
        <4>2. QED BY <3>4, <4>1
      <3>8. Early(g[i], {}, high)
        <4>1. CASE k = 0
          <5>1. low = {}
            BY <3>2, <3>4, <4>1, MoreIsSaid
          <5>2. g[i] = steps[i]
            BY <3>1, <3>7, <4>1
          <5>3. QED BY <3>5, <5>1, <5>2
        <4>2. CASE k # 0
          <5>1. PICK a : a = g[k]
            OBVIOUS
          <5>2. PICK b : b = steps[i]
            OBVIOUS
          <5>3. Early(a, {}, low)
            BY <2>3, <3>2, <4>2, <5>1
          <5>4. Early(b, low, high)
            BY <3>5, <5>2
          <5>5. Early(a \o b, {}, high)
            BY <3>6, <5>3, <5>4, EarlyConcat
          <5>6. g[i] = a \o b
            <6>1. i # 1
              BY <3>1, <4>2
            <6>2. QED BY <3>7, <5>1, <5>2, <6>1
          <5>7. QED BY <5>5, <5>6
        <4>3. QED BY <4>1, <4>2
      <3>9. k + 1 \in 0 .. ran
        BY <3>1
      <3>10. Early(g[k + 1], {}, Said(x, f, k + 1))
        BY <3>1, <3>3, <3>8
      <3>11. QED BY <3>9, <3>10
    <2>4. ran \in T
      <3> HIDE DEF T
      <3>1. QED BY <1>1, <2>2, <2>3, TurnsBySets
    <2>5. QED BY <1>5, <2>1, <2>4
  <1>6. QED BY <1>4, <1>5

LEMMA OpeningIsEarly ==
  ASSUME NEW x, NEW tenant
  PROVE  Early(Opening(x, tenant), {}, {})
  <1>1. PICK c : c = Write("contexts", Context(x), [tenant_id |-> tenant])
    OBVIOUS
  <1>2. PICK e : e = Write("executions", x, Record(x, "created", <<>>))
    OBVIOUS
  <1>3. PICK a, b : a = <<c>> /\ b = <<e>>
    OBVIOUS
  <1>4. Early(a, {}, {})
    <2>1. IsSeq(a) /\ ToSet(a) = {c}
      BY <1>3, OneElement
    <2>2. c.table \notin {"executions", "evaluations", "proposals"}
      BY <1>1 DEF Write
    <2>3. QED BY <2>1, <2>2, OthersAreEarly
  <1>5. Early(b, {}, {})
    <2>1. PICK none : none = <<>>
      OBVIOUS
    <2>2. IsSeq(none) /\ ToSet(none) = {} /\ "created" \notin Final
      BY <2>1, Nothing DEF Final
    <2>3. e = Write("executions", x, Record(x, "created", none))
      BY <1>2, <2>1
    <2>4. Early(<<e>>, {}, {})
      BY <2>2, <2>3, OneIsEarly
    <2>5. QED BY <1>3, <2>4
  <1>6. Early(a \o b, {}, {})
    BY <1>4, <1>5, EarlyConcat
  <1>7. <<c, e>> = a \o b
    BY <1>3
  <1>8. Opening(x, tenant) = <<c, e>>
    BY <1>1, <1>2 DEF Opening
  <1>9. QED BY <1>6, <1>7, <1>8

LEMMA PlanWritesEarly ==
  ASSUME NEW x \in Executions
  PROVE  Early(PlanWrites(x), {}, {})
  <1>1. PICK none : none = <<>>
    OBVIOUS
  <1>2. IsSeq(none) /\ ToSet(none) = {}
    BY <1>1, Nothing
  <1>3. PICK e : e = Write("executions", x, Record(x, "planning", none))
    OBVIOUS
  <1>4. PICK p : p = Write("plans", PlanId(x), [execution_id |-> x, plan_version |-> 1])
    OBVIOUS
  <1>5. PICK d : d = Planned(x, "executing", none)
    OBVIOUS
  <1>6. PICK a, b, c : a = <<e>> /\ b = <<p>> /\ c = <<d>>
    OBVIOUS
  <1>7. Early(a, {}, {}) /\ Early(c, {}, {})
    <2>1. "planning" \notin Final /\ "executing" \notin Final
      BY DEF Final
    <2>2. Early(<<e>>, {}, {})
      BY <1>2, <1>3, <2>1, OneIsEarly
    <2>3. Early(<<d>>, {}, {})
      BY <1>2, <1>5, <2>1, OneIsEarly
    <2>4. QED BY <1>6, <2>2, <2>3
  <1>8. Early(b, {}, {})
    <2>1. IsSeq(b) /\ ToSet(b) = {p}
      BY <1>6, OneElement
    <2>2. p.table \notin {"executions", "evaluations", "proposals"}
      BY <1>4 DEF Write
    <2>3. QED BY <2>1, <2>2, OthersAreEarly
  <1>9. PICK rows : rows = [n \in DOMAIN StepsOfPlan(x) |-> StepRow(x, n, "pending")]
    OBVIOUS
  <1>10. Early(rows, {}, {})
    <2>1. PICK n \in Nat : DOMAIN StepsOfPlan(x) = 1 .. n
      BY PlansAreSeqs, SeqDomain
    <2>2. rows = [i \in 1 .. n |-> rows[i]]
      BY <1>9, <2>1
    <2>3. IsSeq(rows) /\ ToSet(rows) = {rows[i] : i \in 1 .. n}
      BY <2>2, SeqByPlaces
    <2>4. \A i \in 1 .. n : rows[i] = StepRow(x, i, "pending")
      BY <1>9, <2>1
    <2>5. \A i : StepRow(x, i, "pending").table = "steps"
      BY DEF StepRow, Write
    <2>6. \A w \in ToSet(rows) : w.table = "steps"
      BY <2>3, <2>4, <2>5
    <2>7. QED BY <2>3, <2>6, OthersAreEarly
  <1>11. PICK s1 : s1 = a \o b
    OBVIOUS
  <1>12. PICK s2 : s2 = s1 \o rows
    OBVIOUS
  <1>13. PICK s3 : s3 = s2 \o c
    OBVIOUS
  <1>14. Early(s1, {}, {})
    BY <1>7, <1>8, <1>11, EarlyConcat
  <1>15. Early(s2, {}, {})
    BY <1>10, <1>12, <1>14, EarlyConcat
  <1>16. Early(s3, {}, {})
    BY <1>7, <1>13, <1>15, EarlyConcat
  <1>17. <<e, p>> = s1
    BY <1>6, <1>11
  <1>18. PlanWrites(x) = (<<e, p>> \o rows) \o <<d>>
    BY <1>1, <1>3, <1>4, <1>5, <1>9 DEF PlanWrites
  <1>19. QED BY <1>6, <1>12, <1>13, <1>16, <1>17, <1>18

(***************************************************************************)
(* How a driver's writes end.                                              *)
(***************************************************************************)
Wrongly(x, f) == Workflows[x] = "incident_triage" /\ f.decision = "deny"

\* A denial is on record before the i-th write.
Judged(s, x, f, i) ==
  f.decision = "deny" /\ \E j \in 1 .. i - 1 : s[j].table = "evaluations" /\ s[j].key = Verdict(x)

Tale(s, i, x, f, least) ==
  /\ s[i].table = "executions" =>
       /\ IsSeq(s[i].row.trace_timeline) /\ least \subseteq Seen(s[i]) /\ AreEvents(Seen(s[i]))
       /\ s[i].row.status \in Final => i = Len(s)
       /\ s[i].row.status = "completed" => ~ Wrongly(x, f)
       /\ Denies(s[i]) => Judged(s, x, f, i)
  /\ s[i].table = "evaluations" =>
       /\ Workflows[x] = "incident_triage" /\ s[i].key = Verdict(x)
       /\ s[i].row.execution_id = x /\ s[i].row.decision = f.decision
  /\ s[i].table = "proposals" =>
       /\ s[i].row.execution_id = x
       /\ s[i].row.status = "policy_denied" => Judged(s, x, f, i)

Story(s, x, f, least) ==
  /\ IsSeq(s) /\ \A i \in 1 .. Len(s) : Tale(s, i, x, f, least)
  /\ \A i, j \in 1 .. Len(s) :
       i < j /\ s[i].table = "executions" /\ s[j].table = "executions" => Seen(s[i]) \subseteq Seen(s[j])

LEMMA SaidIsReasoning ==
  ASSUME NEW x, NEW f, NEW n, NEW e \in Said(x, f, n)
  PROVE  e.event_type = "model_reasoning" /\ e = Event(e.event_type, e.path, e.step)
  BY DEF Said, Event

LEMMA SettledTells ==
  ASSUME NEW x \in Executions, NEW f, NEW status, NEW path, NEW w, w = Settled(x, f, status, path)
  PROVE  /\ w.table = "executions" /\ w.row.status = status /\ IsSeq(w.row.trace_timeline)
         /\ AreEvents(Seen(w))
         /\ Said(x, f, Len(StepsOfPlan(x))) \subseteq Seen(w)
         /\ path = "none" => Seen(w) = Said(x, f, Len(StepsOfPlan(x)))
         /\ Denies(w) => path = "policy_denied"
  <1>1. PICK n \in Nat : n = Len(StepsOfPlan(x))
    BY PlansAreSeqs
  <1>2. PICK e : e = Event("governed_outcome", path, NoStep)
    OBVIOUS
  <1>3. PICK a : a = Reasoning(x, f, n)
    OBVIOUS
  <1>4. PICK b : b = IF path = "none" THEN <<>> ELSE <<e>>
    OBVIOUS
  <1>5. IsSeq(a) /\ ToSet(a) = Said(x, f, n)
    BY <1>3, ReasoningSays
  <1>6. IsSeq(b) /\ ToSet(b) = IF path = "none" THEN {} ELSE {e}
    BY <1>4, OneElement, Nothing
  <1>7. PICK timeline : timeline = a \o b
    OBVIOUS
  <1>8. IsSeq(timeline) /\ ToSet(timeline) = ToSet(a) \cup ToSet(b)
    BY <1>5, <1>6, <1>7, Concatenation
  <1>9. w = Planned(x, status, timeline)
    BY <1>1, <1>2, <1>3, <1>4, <1>7 DEF Settled
  <1>10. /\ w.table = "executions" /\ w.row.status = status /\ w.row.trace_timeline = timeline
         /\ Seen(w) = ToSet(timeline)
    BY <1>9, PlannedRow
  <1>11. Denies(w) => path = "policy_denied"
    <2>1. SUFFICES ASSUME NEW d \in Seen(w), d.event_type = "governed_outcome", d.path = "policy_denied"
                   PROVE  path = "policy_denied"
      BY DEF Denies
    <2>2. d \notin Said(x, f, n)
      BY <2>1, SaidIsReasoning
    <2>3. d = e
      BY <1>5, <1>6, <1>8, <1>10, <2>2
    <2>4. QED BY <1>2, <2>1, <2>3 DEF Event
  <1>12. AreEvents(Seen(w))
    <2>1. ASSUME NEW d \in Seen(w) PROVE d = Event(d.event_type, d.path, d.step)
      <3>1. d \in Said(x, f, n) \/ d = e
        BY <1>5, <1>6, <1>8, <1>10
      <3>2. e = Event(e.event_type, e.path, e.step)
        BY <1>2 DEF Event
      <3>3. QED BY <3>1, <3>2, SaidIsReasoning
    <2>2. QED BY <2>1 DEF AreEvents
  <1>13. QED BY <1>1, <1>5, <1>6, <1>8, <1>10, <1>11, <1>12

LEMMA OneIsAStory ==
  ASSUME NEW w, NEW x, NEW f, NEW least, w.table = "executions",
         IsSeq(w.row.trace_timeline), least \subseteq Seen(w), AreEvents(Seen(w)),
         w.row.status = "completed" => ~ Wrongly(x, f), ~ Denies(w)
  PROVE  Story(<<w>>, x, f, least) /\ Len(<<w>>) = 1
  <1>1. PICK s : s = <<w>>
    OBVIOUS
  <1>2. IsSeq(s) /\ Len(s) = 1 /\ s[1] = w
    BY <1>1, OneElement
  <1>3. \A i \in 1 .. Len(s) : i = 1
    BY <1>2
  <1>4. Tale(s, 1, x, f, least)
    BY <1>2 DEF Tale
  <1>5. Story(s, x, f, least)
    BY <1>2, <1>3, <1>4 DEF Story
  <1>6. QED BY <1>1, <1>2, <1>5

LEMMA ProposalTells ==
  ASSUME NEW x, NEW status, NEW w, w = ProposalRow(x, status)
  PROVE  w.table = "proposals" /\ w.row.execution_id = x /\ w.row.status = status
  BY DEF ProposalRow, Write

\* Proposed, evaluated, and settled at once.
LEMMA SettledStory ==
  ASSUME NEW x \in Executions, NEW f, Workflows[x] = "incident_triage",
         NEW p, p = ProposalRow(x, "proposed"), NEW e,
         e.table = "evaluations", e.key = Verdict(x), e.row.execution_id = x, e.row.decision = f.decision,
         NEW q, NEW settled, q = ProposalRow(x, settled), settled = "policy_denied" => f.decision = "deny",
         NEW w, NEW status, NEW path, w = Settled(x, f, status, path),
         path = "policy_denied" => f.decision = "deny", status = "completed" => f.decision # "deny"
  PROVE  Story(<<p, e, q, w>>, x, f, Said(x, f, Len(StepsOfPlan(x)))) /\ Len(<<p, e, q, w>>) = 4
  <1>1. PICK s : s = <<p, e, q, w>>
    OBVIOUS
  <1>2. IsSeq(s) /\ Len(s) = 4 /\ s[1] = p /\ s[2] = e /\ s[3] = q /\ s[4] = w
    BY <1>1 DEF IsSeq, ToSet
  <1>3. \A i \in 1 .. Len(s) : i \in {1, 2, 3, 4}
    BY <1>2
  <1>4. PICK least : least = Said(x, f, Len(StepsOfPlan(x)))
    OBVIOUS
  <1>5. /\ p.table = "proposals" /\ p.row.execution_id = x /\ p.row.status = "proposed"
        /\ q.table = "proposals" /\ q.row.execution_id = x /\ q.row.status = settled
    BY ProposalTells
  <1>6. /\ w.table = "executions" /\ w.row.status = status /\ IsSeq(w.row.trace_timeline)
        /\ least \subseteq Seen(w) /\ (Denies(w) => path = "policy_denied") /\ AreEvents(Seen(w))
    BY <1>4, SettledTells
  <1>7. \A i \in {3, 4} : f.decision = "deny" => Judged(s, x, f, i)
    <2>1. \A i \in {3, 4} : 2 \in 1 .. i - 1
      OBVIOUS
    <2>2. QED BY <1>2, <2>1 DEF Judged
  <1>8. Tale(s, 1, x, f, least)
    BY <1>2, <1>5 DEF Tale
  <1>9. Tale(s, 2, x, f, least)
    BY <1>2 DEF Tale
  <1>10. Tale(s, 3, x, f, least)
    BY <1>2, <1>5, <1>7 DEF Tale
  <1>11. Tale(s, 4, x, f, least)
    BY <1>2, <1>6, <1>7 DEF Tale, Wrongly
  <1>12. ASSUME NEW i \in 1 .. Len(s), NEW j \in 1 .. Len(s), i < j
         PROVE  s[i].table # "executions"
    <2>1. i \in {1, 2, 3}
      BY <1>2, <1>12
    <2>2. QED BY <1>2, <1>5, <2>1
  <1>13. \A i \in 1 .. Len(s) : Tale(s, i, x, f, least)
    BY <1>3, <1>8, <1>9, <1>10, <1>11
  <1>14. Story(s, x, f, least)
    BY <1>2, <1>12, <1>13 DEF Story
  <1>15. QED BY <1>1, <1>2, <1>4, <1>14

\* Proposed, evaluated, and settled by an approver.
LEMMA ApprovedStory ==
  ASSUME NEW x \in Executions, NEW f, Workflows[x] = "incident_triage", f.decision # "deny",
         NEW p, p = ProposalRow(x, "proposed"), NEW e,
         e.table = "evaluations", e.key = Verdict(x), e.row.execution_id = x, e.row.decision = f.decision,
         NEW q, q = ProposalRow(x, "awaiting_approval"),
         NEW v, v = Settled(x, f, "awaiting_approval", "none"), NEW a, a.table = "approvals",
         NEW r, NEW settled, r = ProposalRow(x, settled), settled # "policy_denied",
         NEW w, NEW status, NEW path, w = Settled(x, f, status, path), path # "policy_denied"
  PROVE  /\ Story(<<p, e, q, v, a, r, w>>, x, f, Said(x, f, Len(StepsOfPlan(x))))
         /\ Len(<<p, e, q, v, a, r, w>>) = 7
  <1>1. PICK s : s = <<p, e, q, v, a, r, w>>
    OBVIOUS
  <1>2. /\ IsSeq(s) /\ Len(s) = 7 /\ s[1] = p /\ s[2] = e /\ s[3] = q /\ s[4] = v /\ s[5] = a
        /\ s[6] = r /\ s[7] = w
    BY <1>1 DEF IsSeq, ToSet
  <1>3. \A i \in 1 .. Len(s) : i \in {1, 2, 3, 4, 5, 6, 7}
    BY <1>2
  <1>4. PICK least : least = Said(x, f, Len(StepsOfPlan(x)))
    OBVIOUS
  <1>5. /\ p.table = "proposals" /\ p.row.execution_id = x /\ p.row.status = "proposed"
        /\ q.table = "proposals" /\ q.row.execution_id = x /\ q.row.status = "awaiting_approval"
        /\ r.table = "proposals" /\ r.row.execution_id = x /\ r.row.status = settled
    BY ProposalTells
  <1>6. /\ v.table = "executions" /\ v.row.status = "awaiting_approval" /\ IsSeq(v.row.trace_timeline)
        /\ least \subseteq Seen(v) /\ Seen(v) = least /\ ~ Denies(v) /\ AreEvents(Seen(v))
    BY <1>4, SettledTells
  <1>7. /\ w.table = "executions" /\ w.row.status = status /\ IsSeq(w.row.trace_timeline)
        /\ least \subseteq Seen(w) /\ ~ Denies(w) /\ AreEvents(Seen(w))
    BY <1>4, SettledTells
  <1>8. Tale(s, 1, x, f, least) /\ Tale(s, 3, x, f, least) /\ Tale(s, 6, x, f, least)
    BY <1>2, <1>5 DEF Tale
  <1>9. Tale(s, 2, x, f, least)
    BY <1>2 DEF Tale
  <1>10. Tale(s, 5, x, f, least)
    BY <1>2 DEF Tale
  <1>11. Tale(s, 4, x, f, least)
    BY <1>2, <1>6 DEF Tale, Final
  <1>12. Tale(s, 7, x, f, least)
    BY <1>2, <1>7 DEF Tale, Wrongly
  <1>13. ASSUME NEW i \in 1 .. Len(s), s[i].table = "executions"
         PROVE  i \in {4, 7}
    <2>1. i \in {1, 2, 3, 4, 5, 6, 7}
      BY <1>3
    <2>2. QED BY <1>2, <1>5, <1>13, <2>1
  <1>14. ASSUME NEW i \in 1 .. Len(s), NEW j \in 1 .. Len(s), i < j,
                s[i].table = "executions", s[j].table = "executions"
         PROVE  Seen(s[i]) \subseteq Seen(s[j])
    <2>1. i \in {4, 7} /\ j \in {4, 7}
      BY <1>13, <1>14
    <2>2. i = 4 /\ j = 7
      BY <1>14, <2>1
    <2>3. QED BY <1>2, <1>6, <1>7, <2>2
  <1>15. \A i \in 1 .. Len(s) : Tale(s, i, x, f, least)
    BY <1>3, <1>8, <1>9, <1>10, <1>11, <1>12
  <1>16. Story(s, x, f, least)
    BY <1>2, <1>14, <1>15 DEF Story
  <1>17. QED BY <1>1, <1>2, <1>4, <1>16

LEMMA GovernanceStory ==
  ASSUME NEW x \in Executions, NEW f \in Fates, Workflows[x] = "incident_triage"
  PROVE  /\ Story(GovernanceWrites(x, f), x, f, Said(x, f, Len(StepsOfPlan(x))))
         /\ Len(GovernanceWrites(x, f)) \in {4, 7}
  <1>1. PICK p : p = ProposalRow(x, "proposed")
    OBVIOUS
  <1>2. PICK e : e = Write("evaluations", Verdict(x),
          [execution_id |-> x, execution_context_id |-> Context(x), decision |-> f.decision])
    OBVIOUS
  <1>3. e.table = "evaluations" /\ e.key = Verdict(x) /\ e.row.execution_id = x /\ e.row.decision = f.decision
    BY <1>2 DEF Write
  <1>4. f.decision \in {"deny", "allow", "conditional"}
    BY FatesAssumption
  <1>5. PICK least : least = Said(x, f, Len(StepsOfPlan(x)))
    OBVIOUS
  <1> DEFINE G == GovernanceWrites(x, f)
             Well(s) == Story(s, x, f, least) /\ Len(s) \in {4, 7}
  <1>6. ASSUME f.decision = "deny" PROVE Well(G)
    <2>1. PICK q : q = ProposalRow(x, "policy_denied")
      OBVIOUS
    <2>2. PICK w : w = Settled(x, f, "failed", "policy_denied")
      OBVIOUS
    <2>3. PICK s : s = <<p, e, q, w>>
      OBVIOUS
    <2>4. Well(s)
      BY <1>1, <1>3, <1>5, <1>6, <2>1, <2>2, <2>3, SettledStory
    <2>5. G = <<p, e>> \o <<q, w>>
      BY <1>1, <1>2, <1>6, <2>1, <2>2 DEF GovernanceWrites
    <2>6. <<p, e>> \o <<q, w>> = s
      BY <2>3, TwoAndTwo
    <2>7. QED BY <2>4, <2>5, <2>6
  <1>7. ASSUME f.decision = "allow" PROVE Well(G)
    <2>1. PICK q : q = ProposalRow(x, "approved")
      OBVIOUS
    <2>2. PICK w : w = Settled(x, f, "completed", "policy_allow")
      OBVIOUS
    <2>3. PICK s : s = <<p, e, q, w>>
      OBVIOUS
    <2>4. Well(s)
      BY <1>1, <1>3, <1>5, <1>7, <2>1, <2>2, <2>3, SettledStory
    <2>5. G = <<p, e>> \o <<q, w>>
      BY <1>1, <1>2, <1>7, <2>1, <2>2 DEF GovernanceWrites
    <2>6. <<p, e>> \o <<q, w>> = s
      BY <2>3, TwoAndTwo
    <2>7. QED BY <2>4, <2>5, <2>6
  <1>8. ASSUME f.decision = "conditional" PROVE Well(G)
    <2>1. PICK q : q = ProposalRow(x, "awaiting_approval")
      OBVIOUS
    <2>2. PICK v : v = Settled(x, f, "awaiting_approval", "none")
      OBVIOUS
    <2>3. PICK a : a = Write("approvals", <<x, "approval">>,
            [execution_id |-> x, policy_evaluation_id |-> Verdict(x), action_proposal_id |-> Proposal(x),
             decision |-> f.approval])
      OBVIOUS
    <2>4. a.table = "approvals"
      BY <2>3 DEF Write
    <2>5. PICK settled : settled = IF f.approval = "approve" THEN "approved" ELSE "rejected"
      OBVIOUS
    <2>6. PICK r : r = ProposalRow(x, settled)
      OBVIOUS
    <2>7. PICK status : status = IF f.approval = "approve" THEN "completed" ELSE "failed"
      OBVIOUS
    <2>8. PICK path : path = IF f.approval = "approve" THEN "approval_granted" ELSE "approval_rejected"
      OBVIOUS
    <2>9. PICK w : w = Settled(x, f, status, path)
      OBVIOUS
    <2>10. PICK s : s = <<p, e, q, v, a, r, w>>
      OBVIOUS
    <2>11. settled # "policy_denied" /\ path # "policy_denied"
      BY <2>5, <2>8
    <2>12. Well(s)
      BY <1>1, <1>3, <1>5, <1>8, <2>1, <2>2, <2>4, <2>6, <2>9, <2>10, <2>11, ApprovedStory
    <2>13. ApprovalWrites(x, f) = <<a, r, w>>
      BY <2>3, <2>5, <2>6, <2>7, <2>8, <2>9 DEF ApprovalWrites
    <2>14. G = <<p, e>> \o (<<q, v>> \o ApprovalWrites(x, f))
      BY <1>1, <1>2, <1>8, <2>1, <2>2 DEF GovernanceWrites
    <2>15. <<p, e>> \o (<<q, v>> \o <<a, r, w>>) = s
      BY <2>10, FourAndThree
    <2>16. QED BY <2>12, <2>13, <2>14, <2>15
  <1> HIDE DEF Well
  <1>9. Well(G)
    BY <1>4, <1>6, <1>7, <1>8
  <1>10. QED BY <1>5, <1>9 DEF Well

\* A beginning without a verdict, and an end that tells all of it again.
LEMMA StoryConcat ==
  ASSUME NEW a, NEW b, NEW x, NEW f, NEW most, Early(a, {}, most), Story(b, x, f, most), Len(b) # 0,
         \A e \in most : e.event_type = "model_reasoning", AreEvents(most)
  PROVE  Story(a \o b, x, f, {})
  <1>1. IsSeq(a) /\ IsSeq(b)
    BY DEF Early, Story
  <1>2. PICK c : c = a \o b
    OBVIOUS
  <1>3. PICK m, n \in Nat : m = Len(a) /\ n = Len(b)
    BY <1>1, SeqDomain
  <1>4. /\ IsSeq(c) /\ Len(c) = m + n
        /\ \A i \in 1 .. m : c[i] = a[i]
        /\ \A i \in 1 .. n : c[m + i] = b[i]
    BY <1>1, <1>2, <1>3, Concatenation
  <1>5. ASSUME NEW i \in 1 .. n, Judged(b, x, f, i) PROVE Judged(c, x, f, m + i)
    <2>1. PICK j \in 1 .. i - 1 : b[j].table = "evaluations" /\ b[j].key = Verdict(x)
      BY <1>5 DEF Judged
    <2>2. j \in 1 .. n /\ m + j \in 1 .. (m + i) - 1
      OBVIOUS
    <2>3. c[m + j] = b[j]
      BY <1>4, <2>2
    <2>4. PICK k \in 1 .. (m + i) - 1 : k = m + j
      BY <2>2
    <2>5. c[k].table = "evaluations" /\ c[k].key = Verdict(x)
      BY <2>1, <2>3, <2>4
    <2>6. QED BY <1>5, <2>5 DEF Judged
  <1>6. ASSUME NEW i \in 1 .. m PROVE Tale(c, i, x, f, {})
    <2>1. c[i] = a[i]
      BY <1>4
    <2>2. PICK w : w = a[i]
      OBVIOUS
    <2>3. /\ w.table \notin {"evaluations", "proposals"}
          /\ w.table = "executions" => /\ w.row.status \notin Final /\ IsSeq(w.row.trace_timeline)
                                       /\ Seen(w) \subseteq most
      BY <1>3, <2>2 DEF Early
    <2>4. w.table = "executions" => ~ Denies(w) /\ AreEvents(Seen(w))
      BY <2>3 DEF Denies, AreEvents
    <2>5. "completed" \in Final
      BY DEF Final
    <2>6. QED BY <2>1, <2>2, <2>3, <2>4, <2>5 DEF Tale
  <1>7. ASSUME NEW i \in 1 .. n PROVE Tale(c, m + i, x, f, {})
    <2>1. c[m + i] = b[i]
      BY <1>4
    <2>2. Tale(b, i, x, f, most)
      BY <1>3 DEF Story
    <2>3. i = n => m + i = Len(c)
      BY <1>4
    <2>4. QED BY <1>3, <1>5, <2>1, <2>2, <2>3 DEF Tale
  <1>8. ASSUME NEW i \in 1 .. m + n PROVE i \in 1 .. m \/ \E k \in 1 .. n : i = m + k
    <2>1. CASE i <= m
      BY <2>1
    <2>2. CASE ~ (i <= m)
      <3>1. i - m \in 1 .. n /\ i = m + (i - m)
        BY <2>2
      <3>2. QED BY <3>1
    <2>3. QED BY <2>1, <2>2
  <1>9. \A i \in 1 .. Len(c) : Tale(c, i, x, f, {})
    BY <1>4, <1>6, <1>7, <1>8
  <1>10. Growing(c)
    <2>1. \A i \in 1 .. Len(a) : a[i].table = "executions" => Seen(a[i]) \subseteq most
      BY DEF Early
    <2>2. \A i \in 1 .. Len(b) : b[i].table = "executions" => most \subseteq Seen(b[i])
      BY DEF Story, Tale
    <2>3. Growing(a) /\ Growing(b)
      BY DEF Early, Story, Growing
    <2>4. QED BY <1>1, <1>2, <2>1, <2>2, <2>3, GrowingConcat
  <1>11. Story(c, x, f, {})
    BY <1>4, <1>9, <1>10 DEF Story, Growing
  <1>12. QED BY <1>2, <1>11

LEMMA ProgramStory ==
  ASSUME NEW x \in Executions, NEW r, r.fate \in Fates
  PROVE  Story(Program(x, r), x, r.fate, {})
  <1>1. PICK f \in Fates : f = r.fate
    OBVIOUS
  <1>2. PICK n \in Nat : n = Len(StepsOfPlan(x))
    BY PlansAreSeqs
  <1>3. PICK ran : ran = IF f.steps >= n THEN n ELSE f.steps
    OBVIOUS
  <1>4. ran \in 0 .. n /\ ran \in Nat
    BY <1>1, <1>3, FatesAssumption
  <1>5. PICK opening : opening = Opening(x, r.tenant)
    OBVIOUS
  <1>6. PICK plan : plan = PlanWrites(x)
    OBVIOUS
  <1>7. PICK steps : steps = [i \in 1 .. ran |-> StepWrites(x, f, i)]
    OBVIOUS
  <1>8. PICK work : work = FlattenSeq(steps)
    OBVIOUS
  <1>9. PICK end : end = IF ~ (f.steps >= n) THEN <<Planned(x, "cancelled", Reasoning(x, f, ran))>>
                         ELSE IF Workflows[x] = "incident_triage" THEN GovernanceWrites(x, f)
                         ELSE <<Settled(x, f, "completed", "none")>>
    OBVIOUS
  <1>10. Program(x, r) = ((opening \o plan) \o work) \o end
    BY <1>1, <1>2, <1>3, <1>5, <1>6, <1>7, <1>8, <1>9 DEF Program
  <1>11. PICK most : most = Said(x, f, ran)
    OBVIOUS
  <1>12. (\A e \in most : e.event_type = "model_reasoning") /\ AreEvents(most)
    BY <1>11, SaidIsReasoning DEF AreEvents
  <1>13. PICK s1 : s1 = opening \o plan
    OBVIOUS
  <1>14. PICK s2 : s2 = s1 \o work
    OBVIOUS
  <1>15. Early(opening, {}, {}) /\ Early(plan, {}, {})
    BY <1>5, <1>6, OpeningIsEarly, PlanWritesEarly
  <1>16. Early(s1, {}, {})
    BY <1>13, <1>15, EarlyConcat
  <1>17. Early(work, {}, most)
    BY <1>2, <1>4, <1>7, <1>8, <1>11, WorkIsEarly
  <1>18. Early(s2, {}, most)
    BY <1>14, <1>16, <1>17, EarlyConcat
  <1>19. Story(end, x, f, most) /\ Len(end) # 0
    <2>1. CASE ~ (f.steps >= n)
      <3>1. PICK timeline : timeline = Reasoning(x, f, ran)
        OBVIOUS
      <3>2. IsSeq(timeline) /\ ToSet(timeline) = most
        BY <1>4, <1>11, <3>1, ReasoningSays
      <3>3. PICK w : w = Planned(x, "cancelled", timeline)
        OBVIOUS
      <3>4. /\ w.table = "executions" /\ w.row.status = "cancelled" /\ w.row.trace_timeline = timeline
            /\ Seen(w) = most
        BY <3>2, <3>3, PlannedRow
      <3>5. ~ Denies(w) /\ AreEvents(Seen(w))
        BY <1>12, <3>4 DEF Denies
      <3>6. end = <<w>>
        BY <1>9, <2>1, <3>1, <3>3
      <3>7. Story(<<w>>, x, f, most) /\ Len(<<w>>) = 1
        BY <3>2, <3>4, <3>5, OneIsAStory
      <3>8. QED BY <3>6, <3>7
    <2>2. CASE f.steps >= n
      <3>1. ran = n
        BY <1>3, <2>2
      <3>2. most = Said(x, f, Len(StepsOfPlan(x)))
        BY <1>2, <1>11, <3>1
      <3>3. CASE Workflows[x] = "incident_triage"
        <4>1. end = GovernanceWrites(x, f)
          BY <1>9, <2>2, <3>3
        <4>2. /\ Story(GovernanceWrites(x, f), x, f, Said(x, f, Len(StepsOfPlan(x))))
              /\ Len(GovernanceWrites(x, f)) \in {4, 7}
          BY <3>3, GovernanceStory
        <4>3. PICK g : g = GovernanceWrites(x, f)
          OBVIOUS
        <4>4. Story(g, x, f, most) /\ Len(g) \in {4, 7}
          BY <3>2, <4>2, <4>3
        <4>5. Len(g) # 0
          <5>1. PICK k \in {4, 7} : k = Len(g)
            BY <4>4
          <5>2. k # 0
            OBVIOUS
          <5>3. QED BY <5>1, <5>2
        <4>6. QED BY <4>1, <4>3, <4>4, <4>5
      <3>4. CASE Workflows[x] # "incident_triage"
        <4>1. PICK w : w = Settled(x, f, "completed", "none")
          OBVIOUS
        <4>2. /\ w.table = "executions" /\ IsSeq(w.row.trace_timeline) /\ most \subseteq Seen(w) /\ ~ Denies(w)
              /\ AreEvents(Seen(w))
          BY <3>2, <4>1, SettledTells
        <4>3. ~ Wrongly(x, f)
          BY <3>4 DEF Wrongly
        <4>4. end = <<w>>
          BY <1>9, <2>2, <3>4, <4>1
        <4>5. Story(<<w>>, x, f, most) /\ Len(<<w>>) = 1
          BY <4>2, <4>3, OneIsAStory
        <4>6. QED BY <4>4, <4>5
      <3>5. QED BY <3>3, <3>4
    <2>3. QED BY <2>1, <2>2
  <1>20. PICK s3 : s3 = s2 \o end
    OBVIOUS
  <1>21. Story(s3, x, f, {})
    BY <1>12, <1>18, <1>19, <1>20, StoryConcat
  <1>22. QED BY <1>1, <1>10, <1>13, <1>14, <1>20, <1>21

(***************************************************************************)
(* What the tables tell of an execution is what its run has told so far.   *)
(***************************************************************************)
LEMMA RunTells ==
  ASSUME NEW tables, NEW runs, Agree(tables, runs), NEW x \in Executions,
         NEW program, program = Program(x, runs[x])
  PROVE  /\ Story(program, x, runs[x].fate, {}) /\ Closed(program, x, runs[x].tenant, {})
         /\ Len(program) \in Nat /\ DOMAIN program = 1 .. Len(program)
         /\ runs[x].at \in Nat /\ runs[x].fate \in Fates
  <1>1. runs[x].at \in Nat /\ runs[x].fate \in Fates
    BY DEF Agree
  <1>2. PICK r : r = runs[x]
    OBVIOUS
  <1>3. r.fate \in Fates /\ program = Program(x, r)
    BY <1>1, <1>2
  <1>4. Story(Program(x, r), x, r.fate, {}) /\ Closed(Program(x, r), x, r.tenant, {})
    BY <1>3, ProgramStory, ProgramClosed
  <1>5. Story(program, x, r.fate, {}) /\ Closed(program, x, r.tenant, {})
    BY <1>3, <1>4
  <1>6. IsSeq(program)
    BY <1>5 DEF Story
  <1>7. QED BY <1>1, <1>2, <1>5, <1>6, SeqDomain

\* The write that a row of an execution is from.
LEMMA ExecutionIsTold ==
  ASSUME NEW tables, NEW runs, Agree(tables, runs), Written(tables, runs), NEW x \in DOMAIN tables.executions,
         NEW program, program = Program(x, runs[x])
  PROVE  /\ x \in Executions
         /\ \E i \in 1 .. Len(program) : /\ i < runs[x].at /\ program[i].table = "executions"
                                         /\ program[i].row = tables.executions[x]
  <1>1. PICK y \in Executions : \E i \in DOMAIN Program(y, runs[y]) :
          LET w == Program(y, runs[y])[i]
          IN  i < runs[y].at /\ w.table = "executions" /\ w.key = x /\ w.row = tables["executions"][x]
    BY DEF Written
  <1>2. PICK told : told = Program(y, runs[y])
    OBVIOUS
  <1>3. PICK i \in DOMAIN told : /\ i < runs[y].at /\ told[i].table = "executions" /\ told[i].key = x
                                 /\ told[i].row = tables.executions[x]
    BY <1>1, <1>2
  <1>4. Closed(told, y, runs[y].tenant, {}) /\ DOMAIN told = 1 .. Len(told)
    BY <1>2, RunTells
  <1>5. told[i].key = y
    BY <1>3, <1>4 DEF Closed, Fits
  <1>6. x = y
    BY <1>3, <1>5
  <1>7. QED BY <1>2, <1>3, <1>4, <1>6

LEMMA EvaluationIsTold ==
  ASSUME NEW tables, NEW runs, Agree(tables, runs), Written(tables, runs), NEW e \in DOMAIN tables.evaluations
  PROVE  \E x \in Executions : /\ e = Verdict(x) /\ tables.evaluations[e].execution_id = x
                               /\ tables.evaluations[e].decision = runs[x].fate.decision
                               /\ Workflows[x] = "incident_triage"
  <1>1. PICK y \in Executions : \E i \in DOMAIN Program(y, runs[y]) :
          LET w == Program(y, runs[y])[i]
          IN  i < runs[y].at /\ w.table = "evaluations" /\ w.key = e /\ w.row = tables["evaluations"][e]
    BY DEF Written
  <1>2. PICK told : told = Program(y, runs[y])
    OBVIOUS
  <1>3. PICK i \in DOMAIN told : /\ told[i].table = "evaluations" /\ told[i].key = e
                                 /\ told[i].row = tables.evaluations[e]
    BY <1>1, <1>2
  <1>4. Story(told, y, runs[y].fate, {}) /\ DOMAIN told = 1 .. Len(told)
    BY <1>2, RunTells
  <1>5. Tale(told, i, y, runs[y].fate, {})
    BY <1>3, <1>4 DEF Story
  <1>6. /\ Workflows[y] = "incident_triage" /\ told[i].key = Verdict(y)
        /\ told[i].row.execution_id = y /\ told[i].row.decision = runs[y].fate.decision
    BY <1>3, <1>5 DEF Tale
  <1>7. QED BY <1>3, <1>6

\* An execution is denied when its verdict is stored and its fate is a denial.
LEMMA DenialIsFate ==
  ASSUME NEW tables, NEW runs, Agree(tables, runs), Written(tables, runs), NEW x \in Executions
  PROVE  /\ Denied(tables, x) <=>
              Verdict(x) \in DOMAIN tables.evaluations /\ runs[x].fate.decision = "deny"
         /\ Denied(tables, x) => Wrongly(x, runs[x].fate)
  <1>1. ASSUME Denied(tables, x)
        PROVE  /\ Verdict(x) \in DOMAIN tables.evaluations /\ runs[x].fate.decision = "deny"
               /\ Workflows[x] = "incident_triage"
    <2>1. PICK e \in DOMAIN tables.evaluations :
            tables.evaluations[e].execution_id = x /\ tables.evaluations[e].decision = "deny"
      BY <1>1 DEF Denied, RowsOf
    <2>2. PICK y \in Executions : /\ e = Verdict(y) /\ tables.evaluations[e].execution_id = y
                                  /\ tables.evaluations[e].decision = runs[y].fate.decision
                                  /\ Workflows[y] = "incident_triage"
      BY EvaluationIsTold
    <2>3. QED BY <2>1, <2>2
  <1>2. ASSUME Verdict(x) \in DOMAIN tables.evaluations, runs[x].fate.decision = "deny"
        PROVE  Denied(tables, x)
    <2>1. PICK e \in DOMAIN tables.evaluations : e = Verdict(x)
      BY <1>2
    <2>2. PICK y \in Executions : /\ e = Verdict(y) /\ tables.evaluations[e].execution_id = y
                                  /\ tables.evaluations[e].decision = runs[y].fate.decision
      BY EvaluationIsTold
    <2>3. x = y
      BY <2>1, <2>2 DEF Verdict
    <2>4. tables.evaluations[e].execution_id = x /\ tables.evaluations[e].decision = "deny"
      BY <1>2, <2>2, <2>3
    <2>5. QED BY <2>4 DEF Denied, RowsOf
  <1>3. QED BY <1>1, <1>2 DEF Wrongly

LEMMA JudgedIsDenied ==
  ASSUME NEW tables, NEW runs, Agree(tables, runs), Written(tables, runs), NEW x \in Executions,
         NEW program, program = Program(x, runs[x]),
         NEW i \in 1 .. Len(program), i < runs[x].at, Judged(program, x, runs[x].fate, i)
  PROVE  Denied(tables, x)
  <1>1. PICK j \in 1 .. i - 1 : program[j].table = "evaluations" /\ program[j].key = Verdict(x)
    BY DEF Judged
  <1>2. /\ DOMAIN program = 1 .. Len(program) /\ Len(program) \in Nat /\ runs[x].at \in Nat
    BY RunTells
  <1>3. j \in DOMAIN program /\ j < runs[x].at
    BY <1>2
  <1>4. program[j].key \in DOMAIN tables[program[j].table]
    BY <1>3 DEF Agree
  <1>5. Verdict(x) \in DOMAIN tables.evaluations
    BY <1>1, <1>4
  <1>6. runs[x].fate.decision = "deny"
    BY DEF Judged
  <1>7. QED BY <1>5, <1>6, DenialIsFate

LEMMA ProposalIsTold ==
  ASSUME NEW tables, NEW runs, Agree(tables, runs), Written(tables, runs), NEW k \in DOMAIN tables.proposals,
         tables.proposals[k].status = "policy_denied"
  PROVE  Denied(tables, tables.proposals[k].execution_id)
  <1>1. PICK y \in Executions : \E i \in DOMAIN Program(y, runs[y]) :
          LET w == Program(y, runs[y])[i]
          IN  i < runs[y].at /\ w.table = "proposals" /\ w.key = k /\ w.row = tables["proposals"][k]
    BY DEF Written
  <1>2. PICK told : told = Program(y, runs[y])
    OBVIOUS
  <1>3. PICK i \in DOMAIN told : /\ i < runs[y].at /\ told[i].table = "proposals"
                                 /\ told[i].row = tables.proposals[k]
    BY <1>1, <1>2
  <1>4. Story(told, y, runs[y].fate, {}) /\ DOMAIN told = 1 .. Len(told)
    BY <1>2, RunTells
  <1>5. Tale(told, i, y, runs[y].fate, {})
    BY <1>3, <1>4 DEF Story
  <1>6. told[i].row.execution_id = y /\ Judged(told, y, runs[y].fate, i)
    BY <1>3, <1>5 DEF Tale
  <1>7. Denied(tables, y)
    BY <1>2, <1>3, <1>4, <1>6, JudgedIsDenied
  <1>8. QED BY <1>3, <1>6, <1>7

\* What the row of an execution tells.
LEMMA ExecutionTells ==
  ASSUME NEW tables, NEW runs, Agree(tables, runs), Written(tables, runs), NEW x \in DOMAIN tables.executions,
         NEW ex, ex = tables.executions[x]
  PROVE  /\ IsSeq(ex.trace_timeline) /\ AreEvents(ToSet(ex.trace_timeline))
         /\ ex.status = "completed" => ~ Denied(tables, x)
         /\ \A e \in ToSet(ex.trace_timeline) :
              e.event_type = "governed_outcome" /\ e.path = "policy_denied" => Denied(tables, x)
         /\ ex.status \in Final => ~ (runs[x].at \in 1 .. Len(Program(x, runs[x])))
  <1>1. PICK program : program = Program(x, runs[x])
    OBVIOUS
  <1>2. /\ x \in Executions
        /\ \E i \in 1 .. Len(program) : /\ i < runs[x].at /\ program[i].table = "executions"
                                        /\ program[i].row = tables.executions[x]
    BY <1>1, ExecutionIsTold
  <1>3. PICK i \in 1 .. Len(program) : i < runs[x].at /\ program[i].table = "executions" /\ program[i].row = ex
    BY <1>2
  <1>4. /\ Story(program, x, runs[x].fate, {}) /\ Len(program) \in Nat /\ runs[x].at \in Nat
    BY <1>1, <1>2, RunTells
  <1>5. Tale(program, i, x, runs[x].fate, {})
    BY <1>4 DEF Story
  <1>6. /\ IsSeq(ex.trace_timeline) /\ AreEvents(Seen(program[i]))
        /\ ex.status \in Final => i = Len(program)
        /\ ex.status = "completed" => ~ Wrongly(x, runs[x].fate)
        /\ Denies(program[i]) => Judged(program, x, runs[x].fate, i)
    BY <1>3, <1>5 DEF Tale
  <1>7. ex.status = "completed" => ~ Denied(tables, x)
    BY <1>2, <1>6, DenialIsFate
  <1>8. ASSUME NEW e \in ToSet(ex.trace_timeline), e.event_type = "governed_outcome", e.path = "policy_denied"
        PROVE  Denied(tables, x)
    <2>1. Denies(program[i])
      BY <1>3, <1>8 DEF Denies, Seen
    <2>2. Judged(program, x, runs[x].fate, i)
      BY <1>6, <2>1
    <2>3. QED BY <1>1, <1>2, <1>3, <2>2, JudgedIsDenied
  <1>9. ex.status \in Final => ~ (runs[x].at \in 1 .. Len(program))
    BY <1>3, <1>4, <1>6
  <1>10. AreEvents(ToSet(ex.trace_timeline))
    BY <1>3, <1>6 DEF Seen
  <1>11. QED BY <1>1, <1>6, <1>7, <1>8, <1>9, <1>10

(***************************************************************************)
(* What was true of an execution stays true while its run goes on.         *)
(***************************************************************************)
Better(old, new) ==
  \A x \in DOMAIN old.executions :
    /\ x \in DOMAIN new.executions
    /\ old.executions[x].status \in Final => new.executions[x].status = old.executions[x].status
    /\ ToSet(old.executions[x].trace_timeline) \subseteq ToSet(new.executions[x].trace_timeline)
    /\ Denied(old, x) => Denied(new, x)
    /\ new.executions[x].status = "completed" => ~ Denied(new, x)

LEMMA TruthLasts ==
  ASSUME NEW old, NEW new, Better(old, new), NEW row, row.execution_id \in DOMAIN old.executions,
         IsTrue(row, old)
  PROVE  IsTrue(row, new)
  <1>1. PICK x : x = row.execution_id
    OBVIOUS
  <1>2. PICK before, after : before = old.executions[x] /\ after = new.executions[x]
    OBVIOUS
  <1>3. /\ before.status \in Final => after.status = before.status
        /\ ToSet(before.trace_timeline) \subseteq ToSet(after.trace_timeline)
        /\ Denied(old, x) => Denied(new, x)
        /\ after.status = "completed" => ~ Denied(new, x)
    BY <1>1, <1>2 DEF Better
  <1>4. "failed" \in Final /\ "cancelled" \in Final /\ "completed" \in Final
    BY DEF Final
  <1>5. /\ "terminal_failed" \in row.failure_types => before.status = "failed"
        /\ "terminal_cancelled" \in row.failure_types => before.status = "cancelled"
        /\ row.failure_types \cap PolicyTypes # {} => Denied(old, x)
        /\ \A i \in DOMAIN row.patterns :
             /\ row.patterns[i].type = Fallback =>
                  Event("model_reasoning", "deterministic_fallback", row.patterns[i].step)
                    \in ToSet(before.trace_timeline)
             /\ row.patterns[i].type = Clean => before.status = "completed" /\ ~ Denied(old, x)
    BY <1>1, <1>2 DEF IsTrue
  <1>6. ASSUME NEW i \in DOMAIN row.patterns
        PROVE  /\ row.patterns[i].type = Fallback =>
                    Event("model_reasoning", "deterministic_fallback", row.patterns[i].step)
                      \in ToSet(after.trace_timeline)
               /\ row.patterns[i].type = Clean => after.status = "completed" /\ ~ Denied(new, x)
    BY <1>3, <1>4, <1>5
  <1>7. QED BY <1>1, <1>2, <1>3, <1>4, <1>5, <1>6 DEF IsTrue

LEMMA PipeLasts ==
  ASSUME NEW old, NEW new, Better(old, new), NEW p, PipeTrue(old, p),
         p.pc # "idle" => p.x \in DOMAIN old.executions
  PROVE  PipeTrue(new, p)
  <1>1. CASE p.pc = "idle"
    BY <1>1 DEF PipeTrue
  <1>2. CASE p.pc # "idle"
    <2>1. PICK before, after : before = old.executions[p.x] /\ after = new.executions[p.x]
      OBVIOUS
    <2>2. /\ before.status \in Final => after.status = before.status
          /\ ToSet(before.trace_timeline) \subseteq ToSet(after.trace_timeline)
          /\ Denied(old, p.x) => Denied(new, p.x)
      BY <1>2, <2>1 DEF Better
    <2>3. Seq(ToSet(before.trace_timeline)) \subseteq Seq(ToSet(after.trace_timeline))
      <3>1. PICK S, T : S = ToSet(before.trace_timeline) /\ T = ToSet(after.trace_timeline)
        OBVIOUS
      <3>2. S \subseteq T
        BY <2>2, <3>1
      <3>3. Seq(S) \subseteq Seq(T)
        BY <3>2
      <3>4. QED BY <3>1, <3>3
    <2>4. p.pc \in {"steps", "decisions", "proposals", "save"} =>
            /\ "execution" \in DOMAIN p
            /\ p.execution.trace_timeline \in Seq(ToSet(before.trace_timeline))
            /\ p.execution.status \in Final => before.status = p.execution.status
      BY <2>1 DEF PipeTrue, Final
    <2>5. p.pc \in {"steps", "decisions", "proposals", "save"} =>
            /\ "execution" \in DOMAIN p
            /\ p.execution.trace_timeline \in Seq(ToSet(after.trace_timeline))
            /\ p.execution.status \in Final => after.status = p.execution.status
      BY <2>2, <2>3, <2>4
    <2>6. QED BY <2>1, <2>2, <2>5 DEF PipeTrue, Final
  <1>3. QED BY <1>1, <1>2

(***************************************************************************)
(* A driver's write.                                                       *)
(***************************************************************************)
LEMMA StillWritten ==
  ASSUME NEW tables, NEW runs, Agree(tables, runs), Written(tables, runs), NEW x \in Executions,
         NEW next, NEW after, Advances(tables, runs, x, next, after)
  PROVE  /\ Agree(next, after) /\ Written(next, after)
         /\ next = [t \in DOMAIN ForeignKeys |-> next[t]]
  <1>1. PICK program : program = Program(x, runs[x])
    OBVIOUS
  <1>2. PICK w : w = program[runs[x].at]
    OBVIOUS
  <1>3. runs[x].at \in 1 .. Len(program) /\ next = Stored(tables, w)
    BY <1>1, <1>2 DEF Advances
  <1>4. /\ Len(program) \in Nat /\ DOMAIN program = 1 .. Len(program)
        /\ Closed(program, x, runs[x].tenant, {})
    BY <1>1, RunTells
  <1>5. w.table \in DOMAIN ForeignKeys
    BY <1>2, <1>3, <1>4 DEF Closed, Fits
  <1>6. tables = [t \in DOMAIN ForeignKeys |-> tables[t]]
    BY DEF Agree
  <1>7. /\ next = [t \in DOMAIN ForeignKeys |-> next[t]]
        /\ DOMAIN next[w.table] = DOMAIN tables[w.table] \cup {w.key}
        /\ next[w.table][w.key] = w.row
        /\ \A k \in DOMAIN tables[w.table] : k # w.key => next[w.table][k] = tables[w.table][k]
        /\ \A t \in DOMAIN ForeignKeys : t # w.table => next[t] = tables[t]
    BY <1>3, <1>5, <1>6, StoredRows
  <1>8. Agree(next, after)
    BY <1>1, <1>2, DriverAgrees DEF Advances
  <1>9. {"executions", "steps", "tool_calls", "evaluations", "proposals"} \subseteq DOMAIN ForeignKeys
    BY DEF ForeignKeys
  <1>10. PICK q : q = after[x]
    OBVIOUS
  <1>11. Program(x, q) = program
    <2>1. q.tenant = runs[x].tenant /\ q.fate = runs[x].fate
      BY <1>10 DEF Advances
    <2>2. QED BY <1>1, <2>1, ProgramOf
  <1>12. q.at = runs[x].at + 1 /\ runs[x].at \in Nat
    BY <1>3, <1>4, <1>10 DEF Advances
  <1> DEFINE From(t, k, row, y, r) ==
               \E i \in DOMAIN Program(y, r) :
                 LET v == Program(y, r)[i]
                 IN  i < r.at /\ v.table = t /\ v.key = k /\ v.row = row
  <1>13. ASSUME NEW t \in {"executions", "steps", "tool_calls", "evaluations", "proposals"}, NEW k \in DOMAIN next[t]
         PROVE  \E y \in Executions : From(t, k, next[t][k], y, after[y])
    <2>1. CASE t = w.table /\ k = w.key
      <3>1. next[t][k] = w.row
        BY <1>7, <2>1
      <3>2. PICK i \in DOMAIN program : i = runs[x].at
        BY <1>3, <1>4
      <3>3. i < q.at /\ program[i].table = t /\ program[i].key = k /\ program[i].row = next[t][k]
        BY <1>2, <1>12, <2>1, <3>1, <3>2
      <3>4. From(t, k, next[t][k], x, q)
        BY <1>11, <3>3
      <3>5. QED BY <1>10, <3>4
    <2>2. CASE ~ (t = w.table /\ k = w.key)
      <3>1. k \in DOMAIN tables[t] /\ next[t][k] = tables[t][k]
        BY <1>7, <1>9, <2>2
      <3>2. PICK y \in Executions : From(t, k, tables[t][k], y, runs[y])
        BY <3>1 DEF Written
      <3>3. CASE y = x
        <4>1. PICK i \in DOMAIN program : /\ i < runs[x].at /\ program[i].table = t /\ program[i].key = k
                                          /\ program[i].row = next[t][k]
          BY <1>1, <3>1, <3>2, <3>3
        <4>2. i < q.at
          BY <1>4, <1>12, <4>1
        <4>3. From(t, k, next[t][k], x, q)
          BY <1>11, <4>1, <4>2
        <4>4. QED BY <1>10, <4>3
      <3>4. CASE y # x
        <4>1. after[y] = runs[y]
          BY <3>4 DEF Advances
        <4>2. PICK r : r = runs[y]
          OBVIOUS
        <4>3. From(t, k, next[t][k], y, r)
          BY <3>1, <3>2, <4>2
        <4>4. QED BY <4>1, <4>2, <4>3
      <3>5. QED BY <3>3, <3>4
    <2>3. QED BY <2>1, <2>2
  <1>14. Written(next, after)
    BY <1>13 DEF Written
  <1>15. QED BY <1>7, <1>8, <1>14

LEMMA WritingIsBetter ==
  ASSUME NEW tables, NEW runs, Agree(tables, runs), Written(tables, runs), NEW x \in Executions,
         NEW next, NEW after, Advances(tables, runs, x, next, after)
  PROVE  /\ Better(tables, next) /\ next.operator_feedback = tables.operator_feedback
         /\ next.execution_feedback = tables.execution_feedback
  <1>1. PICK program : program = Program(x, runs[x])
    OBVIOUS
  <1>2. PICK n : n = runs[x].at
    OBVIOUS
  <1>3. PICK w : w = program[n]
    OBVIOUS
  <1>4. n \in 1 .. Len(program) /\ next = Stored(tables, w)
    BY <1>1, <1>2, <1>3 DEF Advances
  <1>5. /\ Len(program) \in Nat /\ DOMAIN program = 1 .. Len(program)
        /\ Closed(program, x, runs[x].tenant, {}) /\ Story(program, x, runs[x].fate, {})
    BY <1>1, RunTells
  <1>6. /\ w.table \in DOMAIN ForeignKeys \ {"operator_feedback", "execution_feedback"}
        /\ w.table = "executions" => w.key = x
    BY <1>3, <1>4, <1>5 DEF Closed, Fits
  <1>7. tables = [t \in DOMAIN ForeignKeys |-> tables[t]]
    BY DEF Agree
  <1>8. /\ DOMAIN next[w.table] = DOMAIN tables[w.table] \cup {w.key}
        /\ next[w.table][w.key] = w.row
        /\ \A k \in DOMAIN tables[w.table] : k # w.key => next[w.table][k] = tables[w.table][k]
        /\ \A t \in DOMAIN ForeignKeys : t # w.table => next[t] = tables[t]
    BY <1>4, <1>6, <1>7, StoredRows
  <1>9. {"executions", "evaluations", "proposals", "execution_feedback", "operator_feedback"}
          \subseteq DOMAIN ForeignKeys
    BY DEF ForeignKeys
  <1>10. Agree(next, after) /\ Written(next, after)
    BY StillWritten
  <1>11. \A y \in Executions : after[y].fate = runs[y].fate
    BY DEF Advances
  <1>12. ASSUME NEW y \in DOMAIN tables.executions
         PROVE  /\ y \in DOMAIN next.executions
                /\ tables.executions[y].status \in Final =>
                     next.executions[y].status = tables.executions[y].status
                /\ ToSet(tables.executions[y].trace_timeline) \subseteq ToSet(next.executions[y].trace_timeline)
                /\ Denied(tables, y) => Denied(next, y)
                /\ next.executions[y].status = "completed" => ~ Denied(next, y)
    <2>1. y \in DOMAIN next.executions /\ DOMAIN tables.evaluations \subseteq DOMAIN next.evaluations
      BY <1>8, <1>9
    <2>2. y \in Executions
      BY ExecutionIsTold
    <2>3. Denied(tables, y) => Denied(next, y)
      BY <1>10, <1>11, <2>1, <2>2, DenialIsFate
    <2>4. next.executions[y].status = "completed" => ~ Denied(next, y)
      BY <1>10, <2>1, ExecutionTells
    <2>5. CASE w.table = "executions" /\ y = x
      <3>1. next.executions[y] = w.row
        BY <1>6, <1>8, <2>5
      <3>2. PICK i \in 1 .. Len(program) :
              i < n /\ program[i].table = "executions" /\ program[i].row = tables.executions[x]
        BY <1>1, <1>2, <2>5, ExecutionIsTold
      <3>3. Seen(program[i]) \subseteq Seen(program[n])
        BY <1>3, <1>4, <1>5, <2>5, <3>2 DEF Story
      <3>4. Seen(program[i]) = ToSet(tables.executions[y].trace_timeline)
            /\ Seen(program[n]) = ToSet(next.executions[y].trace_timeline)
        BY <1>3, <2>5, <3>1, <3>2 DEF Seen
      <3>5. tables.executions[y].status \notin Final
        BY <1>1, <1>2, <1>4, <2>5, ExecutionTells
      <3>6. QED BY <2>1, <2>3, <2>4, <3>3, <3>4, <3>5
    <2>6. CASE ~ (w.table = "executions" /\ y = x)
      <3>1. next.executions[y] = tables.executions[y]
        BY <1>6, <1>8, <1>9, <2>6
      <3>2. QED BY <2>1, <2>3, <2>4, <3>1
    <2>7. QED BY <2>5, <2>6
  <1>13. QED BY <1>6, <1>8, <1>9, <1>12 DEF Better

(***************************************************************************)
(* An analysis of what was read says nothing that is not true.             *)
(***************************************************************************)
LEMMA FailuresMean ==
  ASSUME NEW inp, NEW types, types = FailureTypes(inp)
  PROVE  /\ "terminal_failed" \in types => inp.execution.status = "failed"
         /\ "terminal_cancelled" \in types => inp.execution.status = "cancelled"
         /\ types \cap PolicyTypes # {} =>
              \/ \E i \in DOMAIN inp.decisions : inp.decisions[i] = "deny"
              \/ \E i \in DOMAIN inp.execution.trace_timeline :
                   LET e == inp.execution.trace_timeline[i]
                   IN  e.event_type = "governed_outcome" /\ e.path = "policy_denied"
              \/ \E i \in DOMAIN inp.proposals : inp.proposals[i] = "policy_denied"
  <1> DEFINE Deny == \E i \in DOMAIN inp.decisions : inp.decisions[i] = "deny"
             Trace == \E i \in DOMAIN inp.execution.trace_timeline :
                        LET e == inp.execution.trace_timeline[i]
                        IN  e.event_type = "governed_outcome" /\ e.path = "policy_denied"
             Proposed == \E i \in DOMAIN inp.proposals : inp.proposals[i] = "policy_denied"
             Broken == \E s \in inp.steps : s.status = "failed"
             If(type, met) == IF met THEN {type} ELSE {}
  <1>1. types = If("terminal_failed", inp.execution.status = "failed")
                \cup If("terminal_cancelled", inp.execution.status = "cancelled")
                \cup If("step_failure", Broken) \cup If("policy_evaluation_deny", Deny)
                \cup If("trace_policy_denied", Trace) \cup If("action_proposal_policy_denied", Proposed)
    BY DEF FailureTypes
  <1> HIDE DEF Deny, Trace, Proposed, Broken
  <1>2. "terminal_failed" \in types => inp.execution.status = "failed"
    BY <1>1
  <1>3. "terminal_cancelled" \in types => inp.execution.status = "cancelled"
    BY <1>1
  <1>4. types \cap PolicyTypes # {} => Deny \/ Trace \/ Proposed
    BY <1>1 DEF PolicyTypes
  <1>5. QED BY <1>2, <1>3, <1>4 DEF Deny, Trace, Proposed

\* A pattern that names a fallback is from a row of the trace.
LEMMA FallbacksAreTold ==
  ASSUME NEW rows, IsSeq(rows), NEW fellBack,
         fellBack = RowsHaving(rows, LAMBDA e : e.event_type = "model_reasoning"
                                                /\ e.path = "deterministic_fallback")
  PROVE  /\ IsSeq(fellBack)
         /\ \A e \in ToSet(fellBack) :
              e \in ToSet(rows) /\ e.event_type = "model_reasoning" /\ e.path = "deterministic_fallback"
  <1> DEFINE Told(e) == e.event_type = "model_reasoning" /\ e.path = "deterministic_fallback"
  <1>1. PICK f : f = [i \in DOMAIN rows |-> IF Told(rows[i]) THEN <<rows[i]>> ELSE <<>>]
    OBVIOUS
  <1>2. fellBack = FlattenSeq(f)
    BY <1>1 DEF RowsHaving
  <1> HIDE DEF Told
  <1>3. PICK n \in Nat : DOMAIN rows = 1 .. n
    BY SeqDomain
  <1>4. f = [i \in 1 .. n |-> f[i]]
    BY <1>1, <1>3
  <1>5. ASSUME NEW i \in 1 .. n
        PROVE  IsSeq(f[i]) /\ \A e \in ToSet(f[i]) : e \in ToSet(rows) /\ Told(e)
    <2>1. PICK r : r = rows[i]
      OBVIOUS
    <2>2. r \in ToSet(rows)
      BY <1>3, <2>1 DEF ToSet
    <2>3. f[i] = IF Told(r) THEN <<r>> ELSE <<>>
      BY <1>1, <1>3, <2>1
    <2>4. IsSeq(<<r>>) /\ ToSet(<<r>>) = {r} /\ IsSeq(<<>>) /\ ToSet(<<>>) = {}
      BY OneElement, Nothing
    <2>5. CASE Told(r)
      <3>1. IsSeq(f[i]) /\ ToSet(f[i]) = {r}
        BY <2>3, <2>4, <2>5
      <3>2. QED BY <2>2, <2>5, <3>1
    <2>6. CASE ~ Told(r)
      <3>1. IsSeq(f[i]) /\ ToSet(f[i]) = {}
        BY <2>3, <2>4, <2>6
      <3>2. QED BY <3>1
    <2>7. QED BY <2>5, <2>6
  <1>6. PICK kept : kept = FlattenSeq(f)
    OBVIOUS
  <1>7. IsSeq(kept) /\ ToSet(kept) = UNION {ToSet(f[i]) : i \in 1 .. n}
    BY <1>4, <1>5, <1>6, Flattening
  <1>8. ASSUME NEW e \in ToSet(kept) PROVE e \in ToSet(rows) /\ Told(e)
    <2>1. PICK i \in 1 .. n : e \in ToSet(f[i])
      BY <1>7
    <2>2. QED BY <1>5, <2>1
  <1>9. QED BY <1>2, <1>6, <1>7, <1>8 DEF Told

LEMMA PatternsMean ==
  ASSUME NEW inp, IsSeq(inp.execution.trace_timeline), IsSeq(inp.labels),
         NEW patterns, patterns = Patterns(inp)
  PROVE  \A i \in DOMAIN patterns :
           /\ patterns[i].type = Fallback =>
                \E e \in ToSet(inp.execution.trace_timeline) :
                  /\ e.event_type = "model_reasoning" /\ e.path = "deterministic_fallback"
                  /\ e.step = patterns[i].step
           /\ patterns[i].type = Clean => CleanSuccess(inp)
  <1>1. PICK rows, labels : rows = inp.execution.trace_timeline /\ labels = inp.labels
    OBVIOUS
  <1>2. PICK fellBack : fellBack = RowsHaving(rows,
          LAMBDA e : e.event_type = "model_reasoning" /\ e.path = "deterministic_fallback")
    OBVIOUS
  <1>3. /\ IsSeq(fellBack)
        /\ \A e \in ToSet(fellBack) :
             e \in ToSet(rows) /\ e.event_type = "model_reasoning" /\ e.path = "deterministic_fallback"
    <2>1. IsSeq(rows)
      BY <1>1
    <2>2. QED BY ONLY <2>1, <1>2, FallbacksAreTold
  <1>4. PICK disputed : disputed = RowsHaving(labels, LAMBDA l : l = "false_positive")
    OBVIOUS
  <1>5. IsSeq(disputed)
    <2>1. PICK f : f = [i \in DOMAIN labels |-> IF labels[i] = "false_positive" THEN <<labels[i]>> ELSE <<>>]
      OBVIOUS
    <2>2. disputed = FlattenSeq(f)
      BY <1>4, <2>1 DEF RowsHaving
    <2>3. f = [i \in DOMAIN labels |-> f[i]] /\ \A i \in DOMAIN labels : f[i] \in {<<labels[i]>>, <<>>}
      BY <2>1
    <2>4. IsSeq(FlattenSeq(f))
      BY <1>1, <2>3, KeptRows
    <2>5. QED BY <2>2, <2>4
  <1>6. PICK a : a = [i \in DOMAIN fellBack |-> Pattern(Fallback, fellBack[i].step)]
    OBVIOUS
  <1>7. PICK b : b = [i \in DOMAIN disputed |-> Pattern(Disputed, NoStep)]
    OBVIOUS
  <1>8. PICK c : c = IF CleanSuccess(inp) THEN <<Pattern(Clean, NoStep)>> ELSE <<>>
    OBVIOUS
  <1> DEFINE Meant(p) ==
        /\ p.type = Fallback =>
             \E e \in ToSet(rows) : /\ e.event_type = "model_reasoning" /\ e.path = "deterministic_fallback"
                                    /\ e.step = p.step
        /\ p.type = Clean => CleanSuccess(inp)
  <1>9. Fallback # Disputed /\ Fallback # Clean /\ Disputed # Clean
    BY DEF Fallback, Disputed, Clean
  <1>10. IsSeq(a) /\ \A p \in ToSet(a) : Meant(p)
    <2>1. PICK n \in Nat : DOMAIN fellBack = 1 .. n
      BY <1>3, SeqDomain
    <2>2. a = [i \in 1 .. n |-> a[i]]
      BY <1>6, <2>1
    <2>3. IsSeq(a) /\ ToSet(a) = {a[i] : i \in 1 .. n}
      BY <2>2, SeqByPlaces
    <2>4. ASSUME NEW i \in 1 .. n PROVE Meant(a[i])
      <3>1. PICK e \in ToSet(fellBack) : e = fellBack[i]
        BY <2>1 DEF ToSet
      <3>2. a[i].type = Fallback /\ a[i].step = e.step
        BY <1>6, <2>1, <3>1 DEF Pattern
      <3>3. QED BY <1>3, <1>9, <3>2
    <2>5. QED BY <2>3, <2>4
  <1>11. IsSeq(b) /\ \A p \in ToSet(b) : Meant(p)
    <2>1. PICK n \in Nat : DOMAIN disputed = 1 .. n
      BY <1>5, SeqDomain
    <2>2. b = [i \in 1 .. n |-> b[i]]
      BY <1>7, <2>1
    <2>3. IsSeq(b) /\ ToSet(b) = {b[i] : i \in 1 .. n}
      BY <2>2, SeqByPlaces
    <2>4. ASSUME NEW i \in 1 .. n PROVE Meant(b[i])
      <3>1. b[i].type = Disputed
        BY <1>7, <2>1 DEF Pattern
      <3>2. QED BY <1>9, <3>1
    <2>5. QED BY <2>3, <2>4
  <1>12. IsSeq(c) /\ \A p \in ToSet(c) : Meant(p)
    <2>1. PICK p : p = Pattern(Clean, NoStep)
      OBVIOUS
    <2>2. p.type = Clean
      BY <2>1 DEF Pattern
    <2>3. IsSeq(<<p>>) /\ ToSet(<<p>>) = {p} /\ IsSeq(<<>>) /\ ToSet(<<>>) = {}
      BY OneElement, Nothing
    <2>4. CASE CleanSuccess(inp)
      <3>1. c = <<p>>
        BY <1>8, <2>1, <2>4
      <3>2. Meant(p)
        BY <1>9, <2>2, <2>4
      <3>3. QED BY <2>3, <3>1, <3>2
    <2>5. CASE ~ CleanSuccess(inp)
      <3>1. c = <<>>
        BY <1>8, <2>5
      <3>2. QED BY <2>3, <3>1
    <2>6. QED BY <2>4, <2>5
  <1> HIDE DEF Meant
  <1>13. PICK ab : ab = a \o b
    OBVIOUS
  <1>14. PICK abc : abc = ab \o c
    OBVIOUS
  <1>15. IsSeq(ab) /\ ToSet(ab) = ToSet(a) \cup ToSet(b)
    BY <1>10, <1>11, <1>13, Concatenation
  <1>16. IsSeq(abc) /\ ToSet(abc) = ToSet(ab) \cup ToSet(c)
    BY <1>12, <1>14, <1>15, Concatenation
  <1>17. \A p \in ToSet(abc) : Meant(p)
    BY <1>10, <1>11, <1>12, <1>15, <1>16
  <1>18. patterns = (a \o b) \o c
    BY <1>1, <1>2, <1>4, <1>6, <1>7, <1>8 DEF Patterns
  <1>19. \A i \in DOMAIN abc : abc[i] \in ToSet(abc)
    BY DEF ToSet
  <1>20. \A i \in DOMAIN patterns : Meant(patterns[i])
    BY <1>13, <1>14, <1>17, <1>18, <1>19
  <1>21. QED BY <1>1, <1>20 DEF Meant

LEMMA AnalysisIsTrue ==
  ASSUME NEW tables, NEW runs, Agree(tables, runs), Written(tables, runs),
         NEW p, PipeTrue(tables, p), p.pc = "save", NEW x \in DOMAIN tables.executions, x = p.x,
         NEW now, NEW row, row = Analyze(x, p, now)
  PROVE  IsTrue(row, tables) /\ row.execution_id = x
  <1>1. PICK ex : ex = tables.executions[x]
    OBVIOUS
  <1>2. PICK types : types = FailureTypes(p)
    OBVIOUS
  <1>3. PICK patterns : patterns = Patterns(p)
    OBVIOUS
  <1>4. row.execution_id = x /\ row.failure_types = types /\ row.patterns = patterns
    BY <1>2, <1>3 DEF Analyze
  <1>5. /\ p.execution.trace_timeline \in Seq(ToSet(ex.trace_timeline))
        /\ p.execution.status \in Final => ex.status = p.execution.status
        /\ p.labels \in Seq(ToSet(p.labels))
        /\ \A i \in DOMAIN p.decisions : p.decisions[i] = "deny" => Denied(tables, x)
        /\ \A i \in DOMAIN p.proposals : p.proposals[i] = "policy_denied" => Denied(tables, x)
    BY <1>1 DEF PipeTrue, Final
  <1>6. /\ AreEvents(ToSet(ex.trace_timeline))
        /\ ex.status = "completed" => ~ Denied(tables, x)
        /\ \A e \in ToSet(ex.trace_timeline) :
             e.event_type = "governed_outcome" /\ e.path = "policy_denied" => Denied(tables, x)
    BY <1>1, ExecutionTells
  <1>7. PICK old : old = p.execution.trace_timeline
    OBVIOUS
  <1>8. IsSeq(old) /\ ToSet(old) \subseteq ToSet(ex.trace_timeline)
    <2>1. PICK S : S = ToSet(ex.trace_timeline)
      OBVIOUS
    <2>2. old \in Seq(S)
      BY <1>5, <1>7, <2>1
    <2>3. QED BY ONLY <2>1, <2>2, SequencesAreSeq
  <1>9. \A i \in DOMAIN old : old[i] \in ToSet(ex.trace_timeline)
    BY <1>8 DEF ToSet
  <1>10. types \cap PolicyTypes # {} => Denied(tables, x)
    <2>1. SUFFICES ASSUME types \cap PolicyTypes # {} PROVE Denied(tables, x)
      OBVIOUS
    <2>2. \/ \E i \in DOMAIN p.decisions : p.decisions[i] = "deny"
          \/ \E i \in DOMAIN old : old[i].event_type = "governed_outcome" /\ old[i].path = "policy_denied"
          \/ \E i \in DOMAIN p.proposals : p.proposals[i] = "policy_denied"
      BY <1>2, <1>7, <2>1, FailuresMean
    <2>3. QED BY <1>5, <1>6, <1>9, <2>2
  <1>11. /\ "terminal_failed" \in types => ex.status = "failed"
         /\ "terminal_cancelled" \in types => ex.status = "cancelled"
    <2>1. /\ "terminal_failed" \in types => p.execution.status = "failed"
          /\ "terminal_cancelled" \in types => p.execution.status = "cancelled"
      BY <1>2, FailuresMean
    <2>2. QED BY <1>5, <2>1 DEF Final
  <1>12. IsSeq(p.labels)
    <2>1. PICK S, labels : S = ToSet(p.labels) /\ labels = p.labels
      OBVIOUS
    <2>2. labels \in Seq(S)
      BY <1>5, <2>1
    <2>3. IsSeq(labels)
      BY ONLY <2>2, SequencesAreSeq
    <2>4. QED BY <2>1, <2>3
  <1>13. \A i \in DOMAIN patterns :
           /\ patterns[i].type = Fallback =>
                \E e \in ToSet(old) : /\ e.event_type = "model_reasoning" /\ e.path = "deterministic_fallback"
                                      /\ e.step = patterns[i].step
           /\ patterns[i].type = Clean => CleanSuccess(p)
    BY <1>3, <1>7, <1>8, <1>12, PatternsMean
  <1>14. CleanSuccess(p) => ex.status = "completed" /\ ~ Denied(tables, x)
    BY <1>5, <1>6 DEF CleanSuccess, Final
  <1>15. ASSUME NEW i \in DOMAIN patterns, patterns[i].type = Fallback
         PROVE  Event("model_reasoning", "deterministic_fallback", patterns[i].step) \in ToSet(ex.trace_timeline)
    <2>1. PICK e \in ToSet(ex.trace_timeline) :
            /\ e.event_type = "model_reasoning" /\ e.path = "deterministic_fallback"
            /\ e.step = patterns[i].step
      BY <1>8, <1>13, <1>15
    <2>2. e = Event(e.event_type, e.path, e.step)
      BY <1>6 DEF AreEvents
    <2>3. QED BY <2>1, <2>2
  <1>16. QED BY <1>1, <1>4, <1>10, <1>11, <1>13, <1>14, <1>15 DEF IsTrue

(***************************************************************************)
(* What the pipeline reads is true when it reads it.                       *)
(***************************************************************************)
\* What SetToSeq lists is in the set.
LEMMA ListedIsThere ==
  ASSUME NEW S, IsFiniteSet(S), NEW list, list = SetToSeq(S)
  PROVE  \A i \in DOMAIN list : list[i] \in S
  <1>1. PICK n : n = Cardinality(S)
    OBVIOUS
  <1>2. ExistsBijection(1 .. n, S)
    BY <1>1, FS_CardinalityType
  <1>3. PICK f \in Bijection(1 .. n, S) : TRUE
    BY <1>2 DEF ExistsBijection
  <1>4. f \in [1 .. n -> S] /\ IsInjective(f)
    BY <1>3 DEF Bijection, Injection
  <1>5. list = CHOOSE g \in [1 .. n -> S] : IsInjective(g)
    BY <1>1 DEF SetToSeq
  <1>6. list \in [1 .. n -> S]
    BY <1>4, <1>5
  <1>7. QED BY <1>6

LEMMA DecisionsAreTrue ==
  ASSUME NEW tables, NEW runs, Agree(tables, runs), Written(tables, runs), NEW x,
         NEW list, list = SetToSeq({tables.evaluations[k].decision : k \in RowsOf(tables, "evaluations", x)})
  PROVE  \A i \in DOMAIN list : list[i] = "deny" => Denied(tables, x)
  <1>1. PICK S : S = {tables.evaluations[k].decision : k \in RowsOf(tables, "evaluations", x)}
    OBVIOUS
  <1>2. ASSUME NEW k \in RowsOf(tables, "evaluations", x)
        PROVE  tables.evaluations[k].decision = runs[x].fate.decision
    <2>1. k \in DOMAIN tables.evaluations /\ tables.evaluations[k].execution_id = x
      BY DEF RowsOf
    <2>2. QED BY <2>1, EvaluationIsTold
  <1>3. S \subseteq {runs[x].fate.decision}
    BY <1>1, <1>2
  <1>4. IsFiniteSet(S)
    <2>1. PICK d : d = runs[x].fate.decision
      OBVIOUS
    <2>2. IsFiniteSet({d}) /\ S \in SUBSET {d}
      BY <1>3, <2>1, FS_Singleton
    <2>3. QED BY ONLY <2>2, FS_Subset
  <1>5. list = SetToSeq(S)
    BY <1>1
  <1>6. \A i \in DOMAIN list : list[i] \in S
    BY ONLY <1>4, <1>5, ListedIsThere
  <1>7. "deny" \in S => Denied(tables, x)
    BY <1>1 DEF Denied
  <1>8. QED BY <1>6, <1>7

LEMMA ProposalsAreTrue ==
  ASSUME NEW tables, NEW runs, Agree(tables, runs), Written(tables, runs), NEW x \in Executions,
         NEW list, list = SetToSeq({tables.proposals[k].status : k \in RowsOf(tables, "proposals", x)})
  PROVE  \A i \in DOMAIN list : list[i] = "policy_denied" => Denied(tables, x)
  <1>1. PICK S : S = {tables.proposals[k].status : k \in RowsOf(tables, "proposals", x)}
    OBVIOUS
  <1>2. PICK told : told = Program(x, runs[x])
    OBVIOUS
  <1>3. PICK n \in Nat : n = Len(told)
    BY <1>2, RunTells
  <1>4. PICK f : f = [i \in 1 .. n |-> told[i].row.status]
    OBVIOUS
  <1>5. PICK T : T = {f[i] : i \in 1 .. n}
    OBVIOUS
  <1>6. IsFiniteSet(T)
    <2>1. f \in Surjection(1 .. n, T)
      BY <1>4, <1>5 DEF Surjection
    <2>2. IsFiniteSet(1 .. n)
      BY FS_Interval
    <2>3. QED BY <2>1, <2>2, FS_Surjection
  <1>7. ASSUME NEW k \in RowsOf(tables, "proposals", x) PROVE tables.proposals[k].status \in T
    <2>1. k \in DOMAIN tables.proposals /\ tables.proposals[k].execution_id = x
      BY DEF RowsOf
    <2>2. PICK y \in Executions : \E i \in DOMAIN Program(y, runs[y]) :
            LET w == Program(y, runs[y])[i]
            IN  i < runs[y].at /\ w.table = "proposals" /\ w.key = k /\ w.row = tables["proposals"][k]
      BY <2>1 DEF Written
    <2>3. PICK hers : hers = Program(y, runs[y])
      OBVIOUS
    <2>4. PICK i \in DOMAIN hers : hers[i].table = "proposals" /\ hers[i].row = tables.proposals[k]
      BY <2>2, <2>3
    <2>5. Story(hers, y, runs[y].fate, {}) /\ DOMAIN hers = 1 .. Len(hers)
      BY <2>3, RunTells
    <2>6. hers[i].row.execution_id = y
      BY <2>4, <2>5 DEF Story, Tale
    <2>7. y = x
      BY <2>1, <2>4, <2>6
    <2>8. i \in 1 .. n /\ f[i] = tables.proposals[k].status
      BY <1>2, <1>3, <1>4, <2>3, <2>4, <2>5, <2>7
    <2>9. QED BY <1>5, <2>8
  <1>8. S \subseteq T
    BY <1>1, <1>7
  <1>9. IsFiniteSet(S)
    BY <1>6, <1>8, FS_Subset
  <1>10. list = SetToSeq(S)
    BY <1>1
  <1>11. \A i \in DOMAIN list : list[i] \in S
    BY ONLY <1>9, <1>10, ListedIsThere
  <1>12. "policy_denied" \in S => Denied(tables, x)
    <2>1. SUFFICES ASSUME "policy_denied" \in S PROVE Denied(tables, x)
      OBVIOUS
    <2>2. PICK k \in DOMAIN tables.proposals :
            tables.proposals[k].execution_id = x /\ tables.proposals[k].status = "policy_denied"
      BY <1>1, <2>1 DEF RowsOf
    <2>3. Denied(tables, tables.proposals[k].execution_id)
      BY <2>2, ProposalIsTold
    <2>4. QED BY <2>2, <2>3
  <1>13. QED BY <1>11, <1>12

\* The labels of an execution are a sequence.
LEMMA LabelsAreSeq ==
  ASSUME NEW rows, rows \in Seq(ToSet(rows)), NEW f, f = [i \in DOMAIN rows |-> f[i]],
         \A i \in DOMAIN rows : f[i] \in {<<rows[i]>>, <<>>},
         NEW kept, kept = FlattenSeq(f), NEW labels, labels = [i \in DOMAIN kept |-> labels[i]]
  PROVE  labels \in Seq(ToSet(labels))
  <1>1. IsSeq(rows)
    BY DEF IsSeq
  <1>2. IsSeq(kept)
    BY <1>1, KeptRows
  <1>3. PICK n \in Nat : DOMAIN kept = 1 .. n
    BY <1>2, SeqDomain
  <1>4. labels = [i \in 1 .. n |-> labels[i]]
    BY <1>3
  <1>5. IsSeq(labels)
    BY <1>4, SeqByPlaces
  <1>6. QED BY <1>5 DEF IsSeq

(***************************************************************************)
(* Feedback that is stored.                                                *)
(***************************************************************************)
LEMMA FeedbackIsBetter ==
  ASSUME NEW tables, NEW runs, Agree(tables, runs), Written(tables, runs), NEW w,
         w.table \in {"operator_feedback", "execution_feedback"}, NEW next, next = Stored(tables, w)
  PROVE  /\ Written(next, runs) /\ Better(tables, next)
         /\ DOMAIN next[w.table] = DOMAIN tables[w.table] \cup {w.key} /\ next[w.table][w.key] = w.row
         /\ \A k \in DOMAIN tables[w.table] : k # w.key => next[w.table][k] = tables[w.table][k]
         /\ \A t \in DOMAIN ForeignKeys : t # w.table => next[t] = tables[t]
  <1>1. w.table \in DOMAIN ForeignKeys
        /\ {"executions", "steps", "tool_calls", "evaluations", "proposals"} \subseteq DOMAIN ForeignKeys
    BY DEF ForeignKeys
  <1>2. tables = [t \in DOMAIN ForeignKeys |-> tables[t]]
    BY DEF Agree
  <1>3. /\ DOMAIN next[w.table] = DOMAIN tables[w.table] \cup {w.key} /\ next[w.table][w.key] = w.row
        /\ \A k \in DOMAIN tables[w.table] : k # w.key => next[w.table][k] = tables[w.table][k]
        /\ \A t \in DOMAIN ForeignKeys : t # w.table => next[t] = tables[t]
    BY <1>1, <1>2, StoredRows
  <1>4. \A t \in {"executions", "steps", "tool_calls", "evaluations", "proposals"} : next[t] = tables[t]
    BY <1>1, <1>3
  <1>5. Written(next, runs)
    BY <1>4 DEF Written
  <1>6. next.executions = tables.executions /\ next.evaluations = tables.evaluations
    BY <1>4
  <1>7. \A x : Denied(next, x) <=> Denied(tables, x)
    BY <1>6 DEF Denied, RowsOf
  <1>8. \A x \in DOMAIN tables.executions : tables.executions[x].status = "completed" => ~ Denied(tables, x)
    BY ExecutionTells
  <1>9. Better(tables, next)
    BY <1>6, <1>7, <1>8 DEF Better
  <1>10. QED BY <1>3, <1>5, <1>9

LEMMA RemarksStayASeq ==
  ASSUME NEW rows, rows \in Seq(ToSet(rows)), NEW more,
         DOMAIN more = DOMAIN rows \cup {Cardinality(DOMAIN rows) + 1},
         more = [k \in DOMAIN more |-> more[k]]
  PROVE  more \in Seq(ToSet(more))
  <1>1. IsSeq(rows)
    BY DEF IsSeq
  <1>2. PICK n \in Nat : DOMAIN rows = 1 .. n
    BY <1>1, SeqDomain
  <1>3. Cardinality(1 .. n) = n
    BY FS_Interval
  <1>4. 1 .. n \cup {n + 1} = 1 .. n + 1
    OBVIOUS
  <1>5. PICK m \in Nat : m = n + 1
    OBVIOUS
  <1>6. DOMAIN more = 1 .. m
    BY <1>2, <1>3, <1>4, <1>5
  <1>7. more = [k \in 1 .. m |-> more[k]]
    BY <1>6
  <1>8. IsSeq(more)
    BY <1>7, SeqByPlaces
  <1>9. QED BY <1>8 DEF IsSeq

\* The feedback stays true where the tables get better.
LEMMA LearnedLasts ==
  ASSUME NEW old, NEW new, Better(old, new), Learned(old),
         new.operator_feedback \in Seq(ToSet(new.operator_feedback)),
         \A k \in DOMAIN new.execution_feedback :
           \/ k \in DOMAIN old.execution_feedback /\ new.execution_feedback[k] = old.execution_feedback[k]
           \/ /\ new.execution_feedback[k].execution_id \in DOMAIN old.executions
              /\ IsTrue(new.execution_feedback[k], old)
  PROVE  Learned(new)
  <1>1. ASSUME NEW k \in DOMAIN new.execution_feedback
        PROVE  /\ new.execution_feedback[k].execution_id \in DOMAIN new.executions
               /\ IsTrue(new.execution_feedback[k], new)
    <2>1. PICK row : row = new.execution_feedback[k]
      OBVIOUS
    <2>2. row.execution_id \in DOMAIN old.executions /\ IsTrue(row, old)
      BY <2>1 DEF Learned
    <2>3. IsTrue(row, new)
      BY <2>2, TruthLasts
    <2>4. row.execution_id \in DOMAIN new.executions
      BY <2>2 DEF Better
    <2>5. QED BY <2>1, <2>3, <2>4
  <1>2. QED BY <1>1 DEF Learned

LEMMA StoredTable ==
  ASSUME NEW tables, tables = [t \in DOMAIN ForeignKeys |-> tables[t]],
         NEW w, w.table \in DOMAIN ForeignKeys, NEW rows, rows = Stored(tables, w)[w.table]
  PROVE  rows = [k \in DOMAIN rows |-> rows[k]]
  <1>1. PICK names : names = DOMAIN ForeignKeys
    OBVIOUS
  <1>2. PICK here \in names : here = w.table
    BY <1>1
  <1>3. PICK new : new = [k \in DOMAIN tables[here] \cup {w.key} |-> IF k = w.key THEN w.row ELSE tables[here][k]]
    OBVIOUS
  <1>4. Stored(tables, w) = [t \in names |-> IF t = here THEN new ELSE tables[t]]
    BY <1>1, <1>2, <1>3 DEF Stored, Save
  <1>5. rows = new
    BY <1>2, <1>4
  <1>6. QED BY <1>3, <1>5

(***************************************************************************)
(* The steps that keep LearningInv.                                        *)
(***************************************************************************)
\* Whatever gets better leaves the pipeline's knowledge and the feedback true.
LEMMA BetterLearns ==
  ASSUME InsightsInv, LearningInv, NEW next, NEW after, db' = next, run' = after, pipe' = pipe,
         Written(next, after), Better(db, next), Learned(next)
  PROVE  LearningInv'
  <1>1. PICK tables, p : tables = db /\ p = pipe
    OBVIOUS
  <1>2. PipeTrue(tables, p) /\ Better(tables, next)
    BY <1>1 DEF LearningInv
  <1>3. p.pc # "idle" => p.x \in DOMAIN tables.executions
    BY <1>1 DEF InsightsInv, PipeInv
  <1>4. PipeTrue(next, p)
    BY <1>2, <1>3, PipeLasts
  <1>5. pipe' = p
    BY <1>1
  <1>6. QED BY <1>4, <1>5 DEF LearningInv

LEMMA DriveLearns == ASSUME InsightsInv, LearningInv, NEW x \in Executions, Drive(x) PROVE LearningInv'
  <1>1. PICK next, after : Advances(db, run, x, next, after) /\ db' = next /\ run' = after
    BY DriveWrites
  <1>2. UNCHANGED pipe
    BY DriveWrites
  <1>3. PICK tables, runs : tables = db /\ runs = run
    OBVIOUS
  <1>4. /\ Agree(tables, runs) /\ Written(tables, runs) /\ Learned(tables)
        /\ Advances(tables, runs, x, next, after)
    BY <1>1, <1>3 DEF InsightsInv, LearningInv
  <1>5. /\ Written(next, after) /\ Better(tables, next)
        /\ next.operator_feedback = tables.operator_feedback
        /\ next.execution_feedback = tables.execution_feedback
    BY <1>4, StillWritten, WritingIsBetter
  <1>6. Learned(next)
    <2>1. next.operator_feedback \in Seq(ToSet(next.operator_feedback))
      BY <1>4, <1>5 DEF Learned
    <2>2. \A k \in DOMAIN next.execution_feedback :
            k \in DOMAIN tables.execution_feedback
            /\ next.execution_feedback[k] = tables.execution_feedback[k]
      BY <1>5
    <2>3. QED BY <1>4, <1>5, <2>1, <2>2, LearnedLasts
  <1>7. QED BY <1>1, <1>2, <1>3, <1>5, <1>6, BetterLearns

\* A run that begins has written nothing.
LEMMA CreateLearns == ASSUME InsightsInv, LearningInv, NEW x \in Executions, Create(x) PROVE LearningInv'
  <1>1. run[x].at = 0 /\ db' = db /\ pipe' = pipe /\ \E r : run' = [run EXCEPT ![x] = r]
    BY DEF Create
  <1>2. PICK tables, runs, p : tables = db /\ runs = run /\ p = pipe
    OBVIOUS
  <1>3. PICK r : run' = [run EXCEPT ![x] = r]
    BY <1>1
  <1>4. PICK after : after = [runs EXCEPT ![x] = r]
    OBVIOUS
  <1>5. Agree(tables, runs) /\ Written(tables, runs)
    BY <1>2 DEF InsightsInv, LearningInv
  <1>6. runs = [y \in Executions |-> runs[y]]
    BY <1>5, AgreeParts
  <1>7. \A y \in Executions : y # x => after[y] = runs[y]
    BY <1>4, <1>6
  <1>8. ASSUME NEW t \in {"executions", "steps", "tool_calls", "evaluations", "proposals"}, NEW k \in DOMAIN tables[t]
        PROVE  \E y \in Executions : \E i \in DOMAIN Program(y, after[y]) :
                 LET w == Program(y, after[y])[i]
                 IN  i < after[y].at /\ w.table = t /\ w.key = k /\ w.row = tables[t][k]
    <2>1. PICK y \in Executions : \E i \in DOMAIN Program(y, runs[y]) :
            LET w == Program(y, runs[y])[i]
            IN  i < runs[y].at /\ w.table = t /\ w.key = k /\ w.row = tables[t][k]
      BY <1>5 DEF Written
    <2>2. y # x
      <3>1. SUFFICES ASSUME y = x PROVE FALSE
        OBVIOUS
      <3>2. PICK program : program = Program(x, runs[x])
        OBVIOUS
      <3>3. PICK i \in DOMAIN program : i < runs[x].at
        BY <2>1, <3>1, <3>2
      <3>4. DOMAIN program = 1 .. Len(program)
        BY <1>5, <3>2, RunTells
      <3>5. runs[x].at = 0
        BY <1>1, <1>2
      <3>6. QED BY <3>3, <3>4, <3>5
    <2>3. PICK q : q = runs[y]
      OBVIOUS
    <2>4. after[y] = q
      BY <1>7, <2>2, <2>3
    <2>5. QED BY <2>1, <2>3, <2>4
  <1>9. Written(tables, after)
    BY <1>8 DEF Written
  <1>10. run' = after /\ db' = tables /\ pipe' = p
    BY <1>1, <1>2, <1>3, <1>4
  <1>11. Learned(tables) /\ PipeTrue(tables, p)
    BY <1>2 DEF LearningInv
  <1>12. QED BY <1>9, <1>10, <1>11 DEF LearningInv

LEMMA FeedbackStored ==
  ASSUME InsightsInv, NEW w, TrySave(w),
         w.table \in {"operator_feedback", "execution_feedback"}, w.row.execution_id \in DOMAIN db.executions
  PROVE  db' = Stored(db, w)
  <1>1. PICK tables, runs : tables = db /\ runs = run
    OBVIOUS
  <1>2. PICK next : next = Stored(tables, w)
    OBVIOUS
  <1>3. Agree(tables, runs) /\ w.row.execution_id \in DOMAIN tables.executions
    BY <1>1 DEF InsightsInv
  <1>4. Accepts(tables, w.table, w.key, w.row)
    BY <1>2, <1>3, FeedbackAgrees
  <1>5. QED BY <1>1, <1>4 DEF TrySave

LEMMA SubmitFeedbackLearns ==
  ASSUME InsightsInv, LearningInv, NEW x \in Executions, SubmitFeedback(x) PROVE LearningInv'
  <1>1. PICK label : /\ x \in DOMAIN db.executions
                     /\ TrySave(Write("operator_feedback", NextId("operator_feedback"),
                                      [execution_id |-> x, label |-> label]))
    BY DEF SubmitFeedback, Visible
  <1>2. PICK key : key = NextId("operator_feedback")
    OBVIOUS
  <1>3. PICK w : w = Write("operator_feedback", key, [execution_id |-> x, label |-> label])
    OBVIOUS
  <1>4. /\ TrySave(w) /\ w.table = "operator_feedback" /\ w.row.execution_id = x /\ w.key = key
    BY <1>1, <1>2, <1>3 DEF Write
  <1>5. run' = run /\ pipe' = pipe
    BY DEF SubmitFeedback
  <1>6. PICK tables, runs : tables = db /\ runs = run
    OBVIOUS
  <1>7. PICK next : next = Stored(tables, w)
    OBVIOUS
  <1>8. db' = next
    BY <1>1, <1>4, <1>6, <1>7, FeedbackStored
  <1>9. Agree(tables, runs) /\ Written(tables, runs) /\ Learned(tables)
    BY <1>6 DEF InsightsInv, LearningInv
  <1>10. /\ Written(next, runs) /\ Better(tables, next)
         /\ DOMAIN next.operator_feedback = DOMAIN tables.operator_feedback \cup {key}
         /\ \A t \in DOMAIN ForeignKeys : t # "operator_feedback" => next[t] = tables[t]
    BY <1>4, <1>7, <1>9, FeedbackIsBetter
  <1>11. "execution_feedback" \in DOMAIN ForeignKeys /\ "operator_feedback" \in DOMAIN ForeignKeys
    BY DEF ForeignKeys
  <1>12. next.operator_feedback \in Seq(ToSet(next.operator_feedback))
    <2>1. PICK rows, more : rows = tables.operator_feedback /\ more = next.operator_feedback
      OBVIOUS
    <2>2. rows \in Seq(ToSet(rows))
      BY <1>9, <2>1 DEF Learned
    <2>3. DOMAIN more = DOMAIN rows \cup {Cardinality(DOMAIN rows) + 1}
      BY <1>2, <1>6, <1>10, <2>1 DEF NextId
    <2>4. more = [k \in DOMAIN more |-> more[k]]
      <3>1. tables = [t \in DOMAIN ForeignKeys |-> tables[t]]
        BY <1>9 DEF Agree
      <3>2. more = Stored(tables, w)[w.table] /\ w.table \in DOMAIN ForeignKeys
        BY <1>4, <1>7, <1>11, <2>1
      <3>3. QED BY ONLY <3>1, <3>2, StoredTable
    <2>5. more \in Seq(ToSet(more))
      BY ONLY <2>2, <2>3, <2>4, RemarksStayASeq
    <2>6. QED BY <2>1, <2>5
  <1>13. \A k \in DOMAIN next.execution_feedback :
           /\ k \in DOMAIN tables.execution_feedback
           /\ next.execution_feedback[k] = tables.execution_feedback[k]
    BY <1>10, <1>11
  <1>14. Learned(next)
    BY <1>9, <1>10, <1>12, <1>13, LearnedLasts
  <1>15. Written(next, run) /\ Better(db, next)
    BY <1>6, <1>10
  <1>16. QED BY <1>5, <1>6, <1>8, <1>10, <1>14, BetterLearns

LEMMA SaveAnalysisLearns == ASSUME InsightsInv, LearningInv, SaveAnalysis PROVE LearningInv'
  <1>1. PICK tables, runs, p : tables = db /\ runs = run /\ p = pipe
    OBVIOUS
  <1>2. PICK x : x = p.x
    OBVIOUS
  <1>3. PICK now : now = NextId("execution_feedback")
    OBVIOUS
  <1>4. PICK row : row = Analyze(x, p, now)
    OBVIOUS
  <1>5. PICK w : w = Write("execution_feedback", now, row)
    OBVIOUS
  <1>6. TrySave(w) /\ run' = run /\ pipe' = [pc |-> "idle"] /\ p.pc = "save"
    BY <1>1, <1>2, <1>3, <1>4, <1>5 DEF SaveAnalysis, IdlePipe
  <1>7. w.table = "execution_feedback" /\ w.row = row /\ w.key = now
    BY <1>5 DEF Write
  <1>8. x \in DOMAIN tables.executions
    BY <1>1, <1>2, <1>6 DEF InsightsInv, PipeInv
  <1>9. Agree(tables, runs) /\ Written(tables, runs) /\ Learned(tables) /\ PipeTrue(tables, p)
    BY <1>1 DEF InsightsInv, LearningInv
  <1>10. IsTrue(row, tables) /\ row.execution_id = x
    BY <1>2, <1>4, <1>6, <1>8, <1>9, AnalysisIsTrue
  <1>11. PICK next : next = Stored(tables, w)
    OBVIOUS
  <1>12. db' = next
    BY <1>1, <1>6, <1>7, <1>8, <1>10, <1>11, FeedbackStored
  <1>13. /\ Written(next, runs) /\ Better(tables, next)
         /\ DOMAIN next.execution_feedback = DOMAIN tables.execution_feedback \cup {now}
         /\ next.execution_feedback[now] = row
         /\ \A k \in DOMAIN tables.execution_feedback :
              k # now => next.execution_feedback[k] = tables.execution_feedback[k]
         /\ \A t \in DOMAIN ForeignKeys : t # "execution_feedback" => next[t] = tables[t]
    BY <1>7, <1>9, <1>11, FeedbackIsBetter
  <1>14. next.operator_feedback \in Seq(ToSet(next.operator_feedback))
    <2>1. "operator_feedback" \in DOMAIN ForeignKeys
      BY DEF ForeignKeys
    <2>2. next.operator_feedback = tables.operator_feedback
      BY <1>13, <2>1
    <2>3. QED BY <1>9, <2>2 DEF Learned
  <1>15. \A k \in DOMAIN next.execution_feedback :
           \/ /\ k \in DOMAIN tables.execution_feedback
              /\ next.execution_feedback[k] = tables.execution_feedback[k]
           \/ /\ next.execution_feedback[k].execution_id \in DOMAIN tables.executions
              /\ IsTrue(next.execution_feedback[k], tables)
    BY <1>8, <1>10, <1>13
  <1>16. Learned(next)
    BY <1>9, <1>13, <1>14, <1>15, LearnedLasts
  <1>17. PICK idle : idle = [pc |-> "idle"]
    OBVIOUS
  <1>18. PipeTrue(next, idle)
    BY <1>17 DEF PipeTrue
  <1>19. db' = next /\ run' = runs /\ pipe' = idle
    BY <1>1, <1>6, <1>12, <1>17
  <1>20. QED BY <1>13, <1>16, <1>18, <1>19 DEF LearningInv

LEMMA StartAnalysisLearns ==
  ASSUME InsightsInv, LearningInv, NEW x \in Executions, StartAnalysis(x) PROVE LearningInv'
  <1>1. PICK tables, runs : tables = db /\ runs = run
    OBVIOUS
  <1>2. PICK labels : labels = LabelsRead(x)
    OBVIOUS
  <1>3. PICK p : p = [pc |-> "execution", x |-> x, labels |-> labels]
    OBVIOUS
  <1>4. pipe' = p /\ db' = tables /\ run' = runs
    BY <1>1, <1>2, <1>3 DEF StartAnalysis
  <1>5. Written(tables, runs) /\ Learned(tables)
    BY <1>1 DEF LearningInv
  <1>6. labels \in Seq(ToSet(labels))
    <2>1. PICK rows : rows = tables.operator_feedback
      OBVIOUS
    <2>2. rows \in Seq(ToSet(rows))
      BY <1>5, <2>1 DEF Learned
    <2>3. PICK f : f = [i \in DOMAIN rows |-> IF rows[i].execution_id = x THEN <<rows[i]>> ELSE <<>>]
      OBVIOUS
    <2>4. PICK kept : kept = FlattenSeq(f)
      OBVIOUS
    <2>5. labels = [i \in DOMAIN kept |-> kept[i].label]
      BY <1>1, <1>2, <2>1, <2>3, <2>4 DEF LabelsRead, RowsHaving
    <2>6. f = [i \in DOMAIN rows |-> f[i]] /\ \A i \in DOMAIN rows : f[i] \in {<<rows[i]>>, <<>>}
      BY <2>3
    <2>7. labels = [i \in DOMAIN kept |-> labels[i]]
      BY <2>5
    <2>8. QED BY ONLY <2>2, <2>4, <2>6, <2>7, LabelsAreSeq
  <1>7. /\ DOMAIN p = {"pc", "x", "labels"} /\ p.pc = "execution" /\ p.labels = labels
        /\ p = [f \in DOMAIN p |-> p[f]]
    BY <1>3
  <1>8. PipeTrue(tables, p)
    BY <1>6, <1>7 DEF PipeTrue
  <1>9. QED BY <1>4, <1>5, <1>8 DEF LearningInv

\* What the pipeline knows after it has read a part.
Extends(q, p, read, next) ==
  /\ q = [f \in DOMAIN q |-> q[f]] /\ DOMAIN q = DOMAIN p \cup DOMAIN read /\ q.pc = next
  /\ \A f \in DOMAIN read : q[f] = read[f]
  /\ \A f \in DOMAIN p \ {"pc"} : f \notin DOMAIN read => q[f] = p[f]

LEMMA ReadFields ==
  ASSUME NEW p, p = [f \in DOMAIN p |-> p[f]], "pc" \in DOMAIN p, NEW read, "pc" \notin DOMAIN read,
         NEW next, NEW q, q = [Merged(p, read) EXCEPT !.pc = next]
  PROVE  Extends(q, p, read, next)
  <1>1. PICK known : known = Merged(p, read)
    OBVIOUS
  <1>2. /\ DOMAIN known = DOMAIN p \cup DOMAIN read /\ known = [f \in DOMAIN known |-> known[f]]
        /\ \A f \in DOMAIN read : known[f] = read[f]
        /\ \A f \in DOMAIN p : f \notin DOMAIN read => known[f] = p[f]
    BY <1>1 DEF Merged
  <1>3. q = [known EXCEPT !.pc = next]
    BY <1>1
  <1>4. q = [f \in DOMAIN known |-> IF f = "pc" THEN next ELSE known[f]]
    BY <1>2, <1>3
  <1>5. QED BY <1>2, <1>4 DEF Extends

\* Reading a part leaves the tables and the other parts alone.
LEMMA ReadingLearns ==
  ASSUME InsightsInv, LearningInv, NEW pc, NEW next, NEW read, "pc" \notin DOMAIN read,
         pc # "idle", PipeReads(pc, next, read), NEW p, p = pipe, NEW tables, tables = db,
         ASSUME NEW q, Extends(q, p, read, next) PROVE PipeTrue(tables, q)
  PROVE  LearningInv'
  <1>1. PICK q : q = [Merged(p, read) EXCEPT !.pc = next]
    OBVIOUS
  <1>2. pipe' = q /\ db' = db /\ run' = run
    BY <1>1 DEF PipeReads
  <1>3. p = [f \in DOMAIN p |-> p[f]] /\ "pc" \in DOMAIN p
    BY DEF LearningInv, PipeTrue
  <1>4. Extends(q, p, read, next)
    BY <1>1, <1>3, ReadFields
  <1>5. PipeTrue(tables, q)
    BY <1>4
  <1>6. PipeTrue(db, q) /\ Written(db, run) /\ Learned(db)
    BY <1>5 DEF LearningInv
  <1>7. QED BY <1>2, <1>6 DEF LearningInv

LEMMA ReadExecutionLearns == ASSUME InsightsInv, LearningInv, ReadExecution PROVE LearningInv'
  <1>1. PICK tables, runs, p : tables = db /\ runs = run /\ p = pipe
    OBVIOUS
  <1>2. PICK read : read = [execution |-> db.executions[pipe.x]]
    OBVIOUS
  <1>3. "pc" \notin DOMAIN read /\ PipeReads("execution", "steps", read)
    BY <1>2 DEF ReadExecution
  <1>4. p.pc = "execution" /\ p.x \in DOMAIN tables.executions /\ {"pc", "x"} \subseteq DOMAIN p
    BY <1>1, <1>3 DEF PipeReads, InsightsInv, PipeInv
  <1>5. Agree(tables, runs) /\ Written(tables, runs) /\ PipeTrue(tables, p)
    BY <1>1 DEF InsightsInv, LearningInv
  <1>6. PICK ex : ex = tables.executions[p.x]
    OBVIOUS
  <1>7. IsSeq(ex.trace_timeline)
    BY <1>4, <1>5, <1>6, ExecutionTells
  <1>8. ex.trace_timeline \in Seq(ToSet(ex.trace_timeline))
    BY <1>7 DEF IsSeq
  <1>9. ASSUME NEW q, Extends(q, p, read, "steps") PROVE PipeTrue(tables, q)
    <2>1. /\ q = [f \in DOMAIN q |-> q[f]] /\ q.pc = "steps" /\ DOMAIN q = DOMAIN p \cup {"execution"}
          /\ q.execution = ex
      BY <1>1, <1>2, <1>6, <1>9 DEF Extends
    <2>2. "labels" \in DOMAIN p /\ p.labels \in Seq(ToSet(p.labels))
      BY <1>4, <1>5 DEF PipeTrue
    <2>3. q.labels = p.labels /\ q.x = p.x
      BY <1>2, <1>4, <1>9, <2>2 DEF Extends
    <2>4. QED BY <1>4, <1>6, <1>8, <2>1, <2>2, <2>3 DEF PipeTrue
  <1>10. QED BY <1>1, <1>3, <1>9, ReadingLearns

LEMMA ReadStepsLearns == ASSUME InsightsInv, LearningInv, ReadSteps PROVE LearningInv'
  <1>1. PICK tables, p : tables = db /\ p = pipe
    OBVIOUS
  <1>2. PICK steps : steps = StepsRead(pipe.x)
    OBVIOUS
  <1>3. PICK read : read = [steps |-> steps]
    OBVIOUS
  <1>4. "pc" \notin DOMAIN read /\ PipeReads("steps", "decisions", read)
    BY <1>2, <1>3 DEF ReadSteps
  <1>5. p.pc = "steps" /\ {"pc", "x"} \subseteq DOMAIN p
    BY <1>1, <1>4 DEF PipeReads, InsightsInv, PipeInv
  <1>6. PipeTrue(tables, p)
    BY <1>1 DEF LearningInv
  <1>7. {"labels", "execution"} \subseteq DOMAIN p
    BY <1>5, <1>6 DEF PipeTrue
  <1>8. ASSUME NEW q, Extends(q, p, read, "decisions") PROVE PipeTrue(tables, q)
    <2>1. q = [f \in DOMAIN q |-> q[f]] /\ q.pc = "decisions" /\ DOMAIN p \subseteq DOMAIN q
      BY <1>8 DEF Extends
    <2>2. q.labels = p.labels /\ q.x = p.x /\ q.execution = p.execution
      BY <1>3, <1>5, <1>7, <1>8 DEF Extends
    <2>3. QED BY <1>5, <1>6, <1>7, <2>1, <2>2 DEF PipeTrue
  <1>9. QED BY <1>1, <1>4, <1>8, ReadingLearns

LEMMA ReadDecisionsLearns == ASSUME InsightsInv, LearningInv, ReadDecisions PROVE LearningInv'
  <1>1. PICK tables, runs, p : tables = db /\ runs = run /\ p = pipe
    OBVIOUS
  <1>2. PICK list : list = DecisionsRead(pipe.x)
    OBVIOUS
  <1>3. PICK read : read = [decisions |-> list]
    OBVIOUS
  <1>4. "pc" \notin DOMAIN read /\ PipeReads("decisions", "proposals", read)
    BY <1>2, <1>3 DEF ReadDecisions
  <1>5. p.pc = "decisions" /\ {"pc", "x"} \subseteq DOMAIN p
    BY <1>1, <1>4 DEF PipeReads, InsightsInv, PipeInv
  <1>6. Agree(tables, runs) /\ Written(tables, runs) /\ PipeTrue(tables, p)
    BY <1>1 DEF InsightsInv, LearningInv
  <1>7. {"labels", "execution"} \subseteq DOMAIN p
    BY <1>5, <1>6 DEF PipeTrue
  <1>8. \A i \in DOMAIN list : list[i] = "deny" => Denied(tables, p.x)
    <2>1. PICK x : x = p.x
      OBVIOUS
    <2>2. list = SetToSeq({tables.evaluations[k].decision : k \in RowsOf(tables, "evaluations", x)})
      BY <1>1, <1>2, <2>1 DEF DecisionsRead
    <2>3. \A i \in DOMAIN list : list[i] = "deny" => Denied(tables, x)
      BY <1>6, <2>2, DecisionsAreTrue
    <2>4. QED BY <2>1, <2>3
  <1>9. ASSUME NEW q, Extends(q, p, read, "proposals") PROVE PipeTrue(tables, q)
    <2>1. /\ q = [f \in DOMAIN q |-> q[f]] /\ q.pc = "proposals" /\ DOMAIN q = DOMAIN p \cup {"decisions"}
          /\ q.decisions = list
      BY <1>3, <1>9 DEF Extends
    <2>2. q.labels = p.labels /\ q.x = p.x /\ q.execution = p.execution
      BY <1>3, <1>5, <1>7, <1>9 DEF Extends
    <2>3. QED BY <1>5, <1>6, <1>7, <1>8, <2>1, <2>2 DEF PipeTrue
  <1>10. QED BY <1>1, <1>4, <1>9, ReadingLearns

LEMMA ReadProposalsLearns == ASSUME InsightsInv, LearningInv, ReadProposals PROVE LearningInv'
  <1>1. PICK tables, runs, p : tables = db /\ runs = run /\ p = pipe
    OBVIOUS
  <1>2. PICK list : list = ProposalsRead(pipe.x)
    OBVIOUS
  <1>3. PICK read : read = [proposals |-> list]
    OBVIOUS
  <1>4. "pc" \notin DOMAIN read /\ PipeReads("proposals", "save", read)
    BY <1>2, <1>3 DEF ReadProposals
  <1>5. p.pc = "proposals" /\ {"pc", "x"} \subseteq DOMAIN p /\ p.x \in DOMAIN tables.executions
    BY <1>1, <1>4 DEF PipeReads, InsightsInv, PipeInv
  <1>6. Agree(tables, runs) /\ Written(tables, runs) /\ PipeTrue(tables, p)
    BY <1>1 DEF InsightsInv, LearningInv
  <1>7. {"labels", "execution", "decisions"} \subseteq DOMAIN p
    BY <1>5, <1>6 DEF PipeTrue
  <1>8. \A i \in DOMAIN list : list[i] = "policy_denied" => Denied(tables, p.x)
    <2>1. PICK x \in Executions : x = p.x
      BY <1>5, <1>6, ExecutionsKnown
    <2>2. list = SetToSeq({tables.proposals[k].status : k \in RowsOf(tables, "proposals", x)})
      BY <1>1, <1>2, <2>1 DEF ProposalsRead
    <2>3. \A i \in DOMAIN list : list[i] = "policy_denied" => Denied(tables, x)
      BY <1>6, <2>2, ProposalsAreTrue
    <2>4. QED BY <2>1, <2>3
  <1>9. ASSUME NEW q, Extends(q, p, read, "save") PROVE PipeTrue(tables, q)
    <2>1. /\ q = [f \in DOMAIN q |-> q[f]] /\ q.pc = "save" /\ DOMAIN q = DOMAIN p \cup {"proposals"}
          /\ q.proposals = list
      BY <1>3, <1>9 DEF Extends
    <2>2. /\ q.labels = p.labels /\ q.x = p.x /\ q.execution = p.execution
          /\ q.decisions = p.decisions
      BY <1>3, <1>5, <1>7, <1>9 DEF Extends
    <2>3. QED BY <1>5, <1>6, <1>7, <1>8, <2>1, <2>2 DEF PipeTrue
  <1>10. QED BY <1>1, <1>4, <1>9, ReadingLearns

LEMMA LearningInit == Init => LearningInv
  <1> SUFFICES ASSUME Init PROVE LearningInv
    OBVIOUS
  <1>1. PICK w \in Workloads : run = w.run /\ db = FoldLeft(Stored, Empty, w.written) /\ pipe = IdlePipe
    BY DEF Init
  <1>2. PICK tables : tables = FoldLeft(Stored, Empty, w.written)
    OBVIOUS
  <1>3. Written(tables, w.run) /\ Learned(tables)
    BY <1>2, WorkloadsAssumption
  <1>4. db = tables
    BY <1>1, <1>2
  <1>5. PipeTrue(db, pipe)
    <2>1. PICK idle : idle = [pc |-> "idle"]
      OBVIOUS
    <2>2. PipeTrue(db, idle)
      BY <2>1 DEF PipeTrue
    <2>3. QED BY <1>1, <2>1, <2>2 DEF IdlePipe
  <1>6. QED BY <1>1, <1>3, <1>4, <1>5 DEF LearningInv

LEMMA LearningSteps == InsightsInv /\ LearningInv /\ [Next]_vars => LearningInv'
  <1> SUFFICES ASSUME InsightsInv, LearningInv, [Next]_vars PROVE LearningInv'
    OBVIOUS
  <1>1. ASSUME UNCHANGED <<db, run, pipe>> PROVE LearningInv'
    <2>1. db' = db /\ run' = run /\ pipe' = pipe
      BY <1>1
    <2>2. QED BY <2>1 DEF LearningInv
  <1>2. CASE UNCHANGED vars
    BY <1>1, <1>2 DEF vars
  <1>3. ASSUME NEW x \in Executions, Create(x) \/ Drive(x) \/ SubmitFeedback(x) \/ StartAnalysis(x)
        PROVE  LearningInv'
    BY <1>3, CreateLearns, DriveLearns, SubmitFeedbackLearns, StartAnalysisLearns
  <1>4. ASSUME ReadExecution \/ ReadSteps \/ ReadDecisions \/ ReadProposals \/ SaveAnalysis
        PROVE  LearningInv'
    BY <1>4, ReadExecutionLearns, ReadStepsLearns, ReadDecisionsLearns, ReadProposalsLearns,
       SaveAnalysisLearns
  <1>5. ASSUME \/ \E kind \in {"aggregated", "anomalies", "mukti"} : Receive(kind)
               \/ \E x \in Executions : ReceiveMetrics(x)
        PROVE  LearningInv'
    BY <1>1, <1>5 DEF Receive, ReceiveMetrics
  <1>6. ASSUME List \/ ReadFeedback \/ ReadMetrics \/ MetricsRead \/ LoadSteps \/ LoadTools \/ Rollup
        PROVE  LearningInv'
    <2>1. UNCHANGED <<db, run, pipe>>
      BY <1>6 DEF List, ReadFeedback, ReadMetrics, MetricsRead, LoadSteps, LoadTools, Rollup, Step
    <2>2. QED BY <1>1, <2>1
  <1>7. CASE Next
    BY <1>3, <1>4, <1>5, <1>6, <1>7 DEF Next
  <1>8. QED BY <1>2, <1>7

\* Every row of an execution, a verdict or a proposal is one that its run has written,
\* and what the pipeline holds of an execution, though old, is true of what is stored.
THEOREM LearningInvariance == Spec => []LearningInv
  BY InsightsInvariance, LearningInit, LearningSteps, PTL DEF Spec

\* A stored analysis is true and stays true, whatever an approver and the drivers did
\* between the pipeline's reads and do afterwards: a failure it names has happened, a
\* fallback is in the trace, and a clean success is completed without a denial
\* (MuktiAnalyzer over build_mukti_analysis_input).
THEOREM FeedbackIsAlwaysTrue == Spec => []FeedbackIsTrue
  <1>1. LearningInv => FeedbackIsTrue
    BY DEF LearningInv, Learned, FeedbackIsTrue
  <1>2. QED BY <1>1, LearningInvariance, PTL
(***************************************************************************)
(* What insights rest on.                                                  *)
(***************************************************************************)
RecentRows(rows, req) ==
  {k \in DOMAIN rows :
     /\ rows[k].execution_id \in ToSet(Names(req.listing))
     /\ Cardinality({j \in DOMAIN rows : rows[j].created_at > rows[k].created_at}) < Pool(req.limit)}

Rested(tables, req) == \A i \in req.answer.insights : Rests(tables.execution_feedback, i)

HavingType(rows, keys, f) == {k \in keys : f \in rows[k].failure_types}
OfWorkflow(tables, keys, w) ==
  {k \in keys : tables.executions[tables.execution_feedback[k].execution_id].workflow_type = w}
OfBad(tables, keys) ==
  {k \in keys : tables.executions[tables.execution_feedback[k].execution_id].status \in {"failed", "cancelled"}}

\* Each failure type of the recent rows is counted, and a workflow is unstable when it is.
TypesExact(tables, keys, insights) ==
  LET rows == tables.execution_feedback
  IN  \A f \in UNION {rows[k].failure_types : k \in keys} :
        \E i \in insights : /\ i.category = "top_failure_type" /\ i.key = f
                            /\ i.evidence_count = Cardinality(HavingType(rows, keys, f))

WorkflowsExact(tables, keys, insights) ==
  \A w \in Workflow :
    (\E i \in insights : i.category = "unstable_workflow" /\ i.key = w)
    <=> /\ Cardinality(OfWorkflow(tables, keys, w)) >= 2
        /\ 2 * Cardinality(OfBad(tables, OfWorkflow(tables, keys, w))) >= Cardinality(OfWorkflow(tables, keys, w))

Exact(tables, req) ==
  /\ TypesExact(tables, RecentRows(tables.execution_feedback, req), req.answer.insights)
  /\ WorkflowsExact(tables, RecentRows(tables.execution_feedback, req), req.answer.insights)

AnsweredInsights(req) == req.pc = "done" /\ req.code = 200 /\ req.kind = "mukti"

LEMMA GroundedMeans ==
  InsightsGrounded <=>
    (AnsweredInsights(request) => Rested(db, request) /\ (~ changed => Exact(db, request)))
  BY DEF InsightsGrounded, AnsweredInsights, Answered, Rested, Rests, Exact, Recent, RecentRows,
         TypesExact, WorkflowsExact, HavingType, OfWorkflow, OfBad

LEMMA GroundedMeansThen ==
  InsightsGrounded' <=>
    (AnsweredInsights(request') => Rested(db', request') /\ (~ changed' => Exact(db', request')))
  BY DEF InsightsGrounded, AnsweredInsights, Answered, Rested, Rests, Exact, Recent, RecentRows,
         TypesExact, WorkflowsExact, HavingType, OfWorkflow, OfBad

\* The rows that the analyzer is given are the recent ones of the listed executions.
LEMMA PoolIsRecent ==
  ASSUME NEW feedback, feedback = db.execution_feedback, IsFiniteSet(DOMAIN feedback), Numbered(db),
         NEW req, req.limit \in Nat,
         NEW rows, rows = InScope(NewestFeedback(Pool(req.limit)), ToSet(Names(req.listing)))
  PROVE  /\ DOMAIN rows = RecentRows(feedback, req) /\ DOMAIN rows \subseteq DOMAIN feedback
         /\ IsFiniteSet(DOMAIN rows)
         /\ \A k \in DOMAIN rows : /\ rows[k] = feedback[k]
                                   /\ rows[k].execution_id \in ToSet(Names(req.listing))
  <1>1. PICK n : n = Cardinality(DOMAIN feedback)
    OBVIOUS
  <1>2. n \in Nat /\ DOMAIN feedback = 1 .. n /\ \A k \in 1 .. n : feedback[k].created_at = k
    BY <1>1, FS_CardinalityType DEF Numbered
  <1>3. NextId("execution_feedback") = n + 1
    BY <1>1 DEF NextId
  <1>4. PICK size : size = Pool(req.limit)
    OBVIOUS
  <1>5. size \in Nat
    BY <1>4, PoolSize
  <1>6. PICK pool : pool = NewestFeedback(size)
    OBVIOUS
  <1>7. /\ \A k : k \in DOMAIN pool <=> k \in 1 .. n /\ n - k < size
        /\ \A k \in DOMAIN pool : pool[k] = feedback[k]
    BY <1>2, <1>3, <1>5, <1>6, NewestRows
  <1>8. PICK scope : scope = ToSet(Names(req.listing))
    OBVIOUS
  <1>9. rows = [k \in {j \in DOMAIN pool : pool[j].execution_id \in scope} |-> pool[k]]
    BY <1>4, <1>6, <1>8 DEF InScope
  <1>10. /\ DOMAIN rows = {k \in 1 .. n : n - k < size /\ feedback[k].execution_id \in scope}
         /\ \A k \in DOMAIN rows : rows[k] = feedback[k]
    BY <1>7, <1>9
  <1>11. ASSUME NEW k \in 1 .. n
         PROVE  Cardinality({j \in DOMAIN feedback : feedback[j].created_at > feedback[k].created_at}) = n - k
    <2>1. PICK a \in Int : a = k + 1
      OBVIOUS
    <2>2. {j \in DOMAIN feedback : feedback[j].created_at > feedback[k].created_at} = a .. n
      BY <1>2, <2>1
    <2>3. Cardinality(a .. n) = n - k
      <3>1. Cardinality(a .. n) = IF a > n THEN 0 ELSE n - a + 1
        BY <1>2, FS_Interval
      <3>2. QED BY <1>2, <2>1, <3>1
    <2> HIDE <1>2
    <2>4. QED BY <2>2, <2>3, Zenon
  <1>12. RecentRows(feedback, req) = {k \in 1 .. n : feedback[k].execution_id \in scope /\ n - k < size}
    BY <1>2, <1>4, <1>8, <1>11 DEF RecentRows
  <1>13. DOMAIN rows \subseteq DOMAIN feedback
    BY <1>2, <1>10
  <1>14. IsFiniteSet(DOMAIN rows)
    BY <1>13, FS_Subset
  <1>15. QED BY <1>8, <1>10, <1>12, <1>13, <1>14

\* A summary says of an execution what is stored of it.
SummariesOf(listing) == [x \in ToSet(Names(listing)) |-> CHOOSE e \in ToSet(listing) : e.execution_id = x]

LEMMA SummariesAreCurrent ==
  ASSUME NEW tables, NEW listing, Current(tables, listing),
         NEW summaries, summaries = SummariesOf(listing), NEW x \in ToSet(Names(listing))
  PROVE  /\ x \in DOMAIN summaries
         /\ summaries[x].workflow_type = tables.executions[x].workflow_type
         /\ summaries[x].status = tables.executions[x].status
  <1>1. PICK i \in DOMAIN listing : listing[i].execution_id = x
    BY DEF ToSet, Names
  <1>2. listing[i] \in ToSet(listing)
    BY DEF ToSet
  <1>3. PICK e : e = CHOOSE d \in ToSet(listing) : d.execution_id = x
    OBVIOUS
  <1>4. e \in ToSet(listing) /\ e.execution_id = x
    BY <1>1, <1>2, <1>3
  <1>5. PICK j \in DOMAIN listing : e = listing[j]
    BY <1>4 DEF ToSet
  <1>6. x \in DOMAIN summaries /\ summaries[x] = e
    BY <1>3 DEF SummariesOf
  <1>7. QED BY <1>4, <1>5, <1>6 DEF Current

LEMMA AnswerIsExact ==
  ASSUME NEW tables, NEW feedback, feedback = tables.execution_feedback,
         NEW req, Current(tables, req.listing), NEW summaries, summaries = SummariesOf(req.listing),
         NEW rows, DOMAIN rows = RecentRows(feedback, req), IsFiniteSet(DOMAIN rows),
         \A k \in DOMAIN rows : rows[k] = feedback[k] /\ rows[k].execution_id \in ToSet(Names(req.listing)),
         req.answer = AnalyzeCrossExecution(rows, summaries)
  PROVE  Exact(tables, req)
  <1>1. PICK insights, recent : insights = req.answer.insights /\ recent = RecentRows(feedback, req)
    OBVIOUS
  <1>2. PICK answer : answer = AnalyzeCrossExecution(rows, summaries) /\ insights = answer.insights
    BY <1>1
  <1>3. /\ TopFailureTypes(rows, summaries) \subseteq insights
        /\ \A i \in insights : i.category = "unstable_workflow" => i \in UnstableWorkflows(rows, summaries)
        /\ \A i \in UnstableWorkflows(rows, summaries) : i \in insights /\ i.category = "unstable_workflow"
    BY <1>2, AnswersRest
  <1>4. recent = DOMAIN rows
    BY <1>1
  <1>5. ASSUME NEW k \in recent, NEW f \in feedback[k].failure_types
        PROVE  \E i \in insights : /\ i.category = "top_failure_type" /\ i.key = f
                                   /\ i.evidence_count = Cardinality(HavingType(feedback, recent, f))
    <2>1. k \in DOMAIN rows /\ f \in rows[k].failure_types
      BY <1>4
    <2>2. PICK having : having = HavingType(feedback, recent, f)
      OBVIOUS
    <2>3. \A j : j \in having <=> j \in DOMAIN rows /\ f \in rows[j].failure_types
      BY <1>4, <2>2 DEF HavingType
    <2>4. PICK i \in TopFailureTypes(rows, summaries) :
            i.category = "top_failure_type" /\ i.key = f /\ i.evidence_count = Cardinality(having)
      BY <2>1, <2>3, TypeCounted
    <2>5. QED BY <1>3, <2>2, <2>4
  <1>6. ASSUME NEW w, NEW mine, mine = OfWorkflow(tables, recent, w), NEW bad, bad = OfBad(tables, mine)
        PROVE  (\E i \in insights : i.category = "unstable_workflow" /\ i.key = w)
               <=> Cardinality(mine) >= 2 /\ 2 * Cardinality(bad) >= Cardinality(mine)
    <2>1. \A k \in DOMAIN rows :
            /\ rows[k].execution_id \in DOMAIN summaries
            /\ summaries[rows[k].execution_id].workflow_type = tables.executions[feedback[k].execution_id].workflow_type
            /\ summaries[rows[k].execution_id].status = tables.executions[feedback[k].execution_id].status
      BY SummariesAreCurrent
    <2>2. \A k : k \in mine <=> k \in DOMAIN rows /\ summaries[rows[k].execution_id].workflow_type = w
      BY <1>4, <1>6, <2>1 DEF OfWorkflow
    <2>3. \A k : k \in bad <=> k \in mine /\ summaries[rows[k].execution_id].status \in {"failed", "cancelled"}
      BY <1>4, <1>6, <2>1, <2>2 DEF OfBad
    <2>4. IsFiniteSet(DOMAIN rows) /\ \A k \in DOMAIN rows : rows[k].execution_id \in DOMAIN summaries
      BY <2>1
    <2>5. (\E i \in UnstableWorkflows(rows, summaries) : i.key = w)
          <=> Cardinality(mine) >= 2 /\ 2 * Cardinality(bad) >= Cardinality(mine)
      BY ONLY <2>2, <2>3, <2>4, UnstableExactly
    <2>6. QED BY <1>3, <2>5
  <1>7. TypesExact(tables, recent, insights)
    BY <1>5 DEF TypesExact
  <1>8. WorkflowsExact(tables, recent, insights)
    BY <1>6 DEF WorkflowsExact
  <1>9. QED BY <1>1, <1>7, <1>8 DEF Exact

LEMMA ReadFeedbackGrounds == ASSUME InsightsInv, GroundedInv, ReadFeedback PROVE GroundedInv'
  <1>1. PICK req : req = request
    OBVIOUS
  <1>2. Rightful(req, Own(db, run, req.id)) /\ req.pc = "feedback"
    BY <1>1, Underway DEF ReadFeedback
  <1>3. /\ req = [f \in DOMAIN req |-> req[f]] /\ {"pc", "kind", "id", "code", "limit", "listing"} \subseteq DOMAIN req
        /\ req.kind = "mukti" /\ req.limit \in Nat
    BY <1>2 DEF Rightful
  <1>4. PICK scope : scope = ToSet(Names(req.listing))
    OBVIOUS
  <1>5. PICK summaries : summaries = SummariesOf(req.listing)
    OBVIOUS
  <1>6. PICK rows : rows = InScope(NewestFeedback(Pool(req.limit)), scope)
    OBVIOUS
  <1>7. PICK answer : answer = AnalyzeCrossExecution(rows, summaries)
    OBVIOUS
  <1>8. PICK more : more = [answer |-> answer, pc |-> "done"]
    OBVIOUS
  <1>9. PICK next : next = Merged(req, more)
    OBVIOUS
  <1>10. Step(next)
    BY <1>1, <1>4, <1>5, <1>6, <1>7, <1>8, <1>9 DEF ReadFeedback, SummariesOf
  <1>11. next.answer = answer /\ next.pc = "done" /\ next.listing = req.listing /\ next.limit = req.limit
    <2>1. DOMAIN more = {"answer", "pc"} /\ more.answer = answer /\ more.pc = "done"
      BY <1>8
    <2>2. /\ \A f \in DOMAIN more : next[f] = more[f]
          /\ \A f \in DOMAIN req \ DOMAIN more : next[f] = req[f]
      BY <1>9 DEF Merged
    <2>3. QED BY <1>3, <2>1, <2>2
  <1>12. PICK tables, feedback : tables = db /\ feedback = db.execution_feedback
    OBVIOUS
  <1>13. /\ DOMAIN rows = RecentRows(feedback, next) /\ DOMAIN rows \subseteq DOMAIN feedback
         /\ IsFiniteSet(DOMAIN rows)
         /\ \A k \in DOMAIN rows : rows[k] = feedback[k] /\ rows[k].execution_id \in scope
    <2>1. IsFiniteSet(DOMAIN feedback) /\ Numbered(db)
      BY <1>12 DEF InsightsInv, Agree, GroundedInv
    <2>2. next.limit \in Nat /\ scope = ToSet(Names(next.listing))
      BY <1>3, <1>4, <1>11
    <2>3. rows = InScope(NewestFeedback(Pool(next.limit)), ToSet(Names(next.listing)))
      BY <1>6, <1>11, <2>2
    <2>4. QED BY <1>12, <2>1, <2>2, <2>3, PoolIsRecent
  <1>14. Rested(tables, next)
    <2>1. \A i \in answer.insights : Rests(rows, i)
      BY <1>7, AnswersRest
    <2>2. QED BY <1>11, <1>12, <1>13, <2>1 DEF Rested, Rests
  <1>15. ASSUME ~ changed PROVE Exact(tables, next)
    <2>1. Current(tables, next.listing)
      BY <1>1, <1>2, <1>11, <1>12, <1>15 DEF GroundedInv
    <2>2. summaries = SummariesOf(next.listing)
      BY <1>5, <1>11
    <2>3. \A k \in DOMAIN rows : rows[k] = feedback[k] /\ rows[k].execution_id \in ToSet(Names(next.listing))
      BY <1>4, <1>11, <1>13
    <2>4. next.answer = AnalyzeCrossExecution(rows, summaries) /\ feedback = tables.execution_feedback
      BY <1>7, <1>11, <1>12
    <2>5. QED BY <1>13, <2>1, <2>2, <2>3, <2>4, AnswerIsExact
  <1>16. db' = tables /\ request' = next /\ changed' = changed
    BY <1>10, <1>12 DEF Step
  <1>17. InsightsGrounded'
    <2>1. ~ changed' => Exact(db', request')
      BY <1>15, <1>16, Zenon
    <2>2. Rested(db', request')
      BY <1>14, <1>16
    <2>3. QED BY <2>1, <2>2, GroundedMeansThen, Zenon
  <1>18. Numbered(db')
    BY <1>12, <1>16 DEF GroundedInv
  <1>19. request'.pc # "feedback"
    BY <1>11, <1>16
  <1>20. QED BY <1>17, <1>18, <1>19, Zenon DEF GroundedInv
\* Once written, a feedback row stays as it is.
FeedbackKept(old, new) ==
  \A k \in DOMAIN old.execution_feedback :
    k \in DOMAIN new.execution_feedback /\ new.execution_feedback[k] = old.execution_feedback[k]

\* A write leaves what rests on feedback; what was listed need not be what is stored.
LEMMA WritersGround ==
  ASSUME GroundedInv, FeedbackKept(db, db'), Numbered(db'), request' = request, changed' = TRUE
  PROVE  GroundedInv'
  <1>1. AnsweredInsights(request') => Rested(db', request')
    <2>1. AnsweredInsights(request) => Rested(db, request)
      BY GroundedMeans DEF GroundedInv
    <2>2. Rested(db, request) => Rested(db', request)
      <3>1. ASSUME NEW i, Rests(db.execution_feedback, i) PROVE Rests(db'.execution_feedback, i)
        BY <3>1 DEF Rests, FeedbackKept
      <3>2. QED BY <3>1 DEF Rested
    <2>3. QED BY <2>1, <2>2
  <1>2. InsightsGrounded'
    BY <1>1, GroundedMeansThen, Zenon
  <1>3. QED BY <1>2, Zenon DEF GroundedInv

LEMMA OthersGround ==
  ASSUME GroundedInv, db' = db, request' = request, changed' = changed
  PROVE  GroundedInv'
  <1>1. InsightsGrounded'
    <2>1. AnsweredInsights(request) => Rested(db, request) /\ (~ changed => Exact(db, request))
      BY GroundedMeans DEF GroundedInv
    <2>2. AnsweredInsights(request') => Rested(db', request') /\ (~ changed' => Exact(db', request'))
      BY <2>1, Zenon
    <2>3. QED BY <2>2, GroundedMeansThen, Zenon
  <1>2. QED BY <1>1, Zenon DEF GroundedInv

\* A request that is not about insights, or not answered yet, claims nothing.
LEMMA RequestsGround ==
  ASSUME GroundedInv, db' = db, ~ AnsweredInsights(request'),
         request'.pc = "feedback" /\ ~ changed' => Current(db', request'.listing)
  PROVE  GroundedInv'
  <1>1. InsightsGrounded'
    BY GroundedMeansThen, Zenon
  <1>2. Numbered(db')
    BY DEF GroundedInv
  <1>3. QED BY <1>1, <1>2, Zenon DEF GroundedInv

LEMMA FeedbackTables ==
  "execution_feedback" \in DOMAIN ForeignKeys /\ "operator_feedback" \in DOMAIN ForeignKeys
  BY DEF ForeignKeys

LEMMA SameFeedback ==
  ASSUME NEW tables, NEW next, Numbered(tables), next.execution_feedback = tables.execution_feedback
  PROVE  FeedbackKept(tables, next) /\ Numbered(next)
  BY DEF FeedbackKept, Numbered

LEMMA DriveGrounds ==
  ASSUME InsightsInv, LearningInv, GroundedInv, NEW x \in Executions, Drive(x) PROVE GroundedInv'
  <1>1. PICK next, after : Advances(db, run, x, next, after) /\ db' = next /\ run' = after
    BY DriveWrites
  <1>2. request' = request
    BY DriveWrites
  <1>3. PICK tables, runs : tables = db /\ runs = run
    OBVIOUS
  <1>4. /\ Agree(tables, runs) /\ Written(tables, runs) /\ Advances(tables, runs, x, next, after)
    BY <1>1, <1>3 DEF InsightsInv, LearningInv
  <1>5. next.execution_feedback = tables.execution_feedback
    BY <1>4, WritingIsBetter
  <1>6. FeedbackKept(tables, next) /\ Numbered(next)
    BY <1>3, <1>5, SameFeedback DEF GroundedInv
  <1>7. changed' = TRUE
    BY Zenon DEF Drive
  <1>8. FeedbackKept(db, db') /\ Numbered(db')
    BY <1>1, <1>3, <1>6
  <1>9. QED BY <1>2, <1>7, <1>8, WritersGround

LEMMA SubmitFeedbackGrounds ==
  ASSUME InsightsInv, LearningInv, GroundedInv, NEW x \in Executions, SubmitFeedback(x) PROVE GroundedInv'
  <1>1. PICK label : /\ x \in DOMAIN db.executions
                     /\ TrySave(Write("operator_feedback", NextId("operator_feedback"),
                                      [execution_id |-> x, label |-> label]))
    BY DEF SubmitFeedback, Visible
  <1>2. PICK w : w = Write("operator_feedback", NextId("operator_feedback"), [execution_id |-> x, label |-> label])
    OBVIOUS
  <1>3. TrySave(w) /\ w.table = "operator_feedback" /\ w.row.execution_id = x
    BY <1>1, <1>2 DEF Write
  <1>4. PICK tables, runs : tables = db /\ runs = run
    OBVIOUS
  <1>5. PICK next : next = Stored(tables, w)
    OBVIOUS
  <1>6. db' = next
    BY <1>1, <1>3, <1>4, <1>5, FeedbackStored
  <1>7. Agree(tables, runs) /\ Written(tables, runs)
    BY <1>4 DEF InsightsInv, LearningInv
  <1>8. next.execution_feedback = tables.execution_feedback
    <2>1. \A t \in DOMAIN ForeignKeys : t # "operator_feedback" => next[t] = tables[t]
      BY <1>3, <1>5, <1>7, FeedbackIsBetter
    <2>2. QED BY <2>1, FeedbackTables
  <1>9. FeedbackKept(tables, next) /\ Numbered(next)
    BY <1>4, <1>8, SameFeedback DEF GroundedInv
  <1>10. changed' = TRUE
    BY Zenon DEF SubmitFeedback
  <1>11. request' = request
    BY DEF SubmitFeedback
  <1>12. FeedbackKept(db, db') /\ Numbered(db')
    BY <1>4, <1>6, <1>9
  <1>13. QED BY <1>10, <1>11, <1>12, WritersGround

LEMMA SaveAnalysisGrounds ==
  ASSUME InsightsInv, LearningInv, GroundedInv, SaveAnalysis PROVE GroundedInv'
  <1>1. PICK tables, runs, p : tables = db /\ runs = run /\ p = pipe
    OBVIOUS
  <1>2. PICK now : now = NextId("execution_feedback")
    OBVIOUS
  <1>3. PICK row : row = Analyze(p.x, p, now)
    OBVIOUS
  <1>4. PICK w : w = Write("execution_feedback", now, row)
    OBVIOUS
  <1>5. TrySave(w) /\ p.pc = "save" /\ request' = request
    BY <1>1, <1>2, <1>3, <1>4 DEF SaveAnalysis
  <1>6. w.table = "execution_feedback" /\ w.row = row /\ w.key = now
    BY <1>4 DEF Write
  <1>7. p.x \in DOMAIN tables.executions
    BY <1>1, <1>5 DEF InsightsInv, PipeInv
  <1>8. row.execution_id = p.x /\ row.created_at = now
    BY <1>3 DEF Analyze
  <1>9. Agree(tables, runs) /\ Written(tables, runs)
    BY <1>1 DEF InsightsInv, LearningInv
  <1>10. PICK next : next = Stored(tables, w)
    OBVIOUS
  <1>11. db' = next
    BY <1>1, <1>5, <1>6, <1>7, <1>8, <1>10, FeedbackStored
  <1>12. /\ DOMAIN next.execution_feedback = DOMAIN tables.execution_feedback \cup {now}
         /\ next.execution_feedback[now] = row
         /\ \A k \in DOMAIN tables.execution_feedback :
              k # now => next.execution_feedback[k] = tables.execution_feedback[k]
    BY <1>6, <1>9, <1>10, FeedbackIsBetter
  <1>13. PICK n : n = Cardinality(DOMAIN tables.execution_feedback)
    OBVIOUS
  <1>14. /\ n \in Nat /\ now = n + 1 /\ DOMAIN tables.execution_feedback = 1 .. n
         /\ \A k \in 1 .. n : tables.execution_feedback[k].created_at = k
    <2>1. IsFiniteSet(DOMAIN tables.execution_feedback)
      BY <1>9 DEF Agree
    <2>2. Numbered(tables)
      BY <1>1 DEF GroundedInv
    <2>3. QED BY <1>1, <1>2, <1>13, <2>1, <2>2, FS_CardinalityType DEF NextId, Numbered
  <1>15. FeedbackKept(tables, next)
    BY <1>12, <1>14 DEF FeedbackKept
  <1>16. Numbered(next)
    <2>1. DOMAIN next.execution_feedback = 1 .. now
      BY <1>12, <1>14
    <2>2. Cardinality(1 .. now) = now
      <3>1. PICK one \in Int : one = 1
        OBVIOUS
      <3>2. Cardinality(one .. now) = IF one > now THEN 0 ELSE now - one + 1
        BY <1>14, FS_Interval
      <3>3. QED BY <1>14, <3>1, <3>2
    <2>3. \A k \in 1 .. now : next.execution_feedback[k].created_at = k
      BY <1>8, <1>12, <1>14
    <2>4. QED BY <2>1, <2>2, <2>3 DEF Numbered
  <1>17. FeedbackKept(db, db') /\ Numbered(db')
    BY <1>1, <1>11, <1>15, <1>16
  <1>18. changed' = TRUE
    BY Zenon DEF SaveAnalysis
  <1>19. QED BY <1>5, <1>17, <1>18, WritersGround

LEMMA ReceiveGrounds ==
  ASSUME GroundedInv, NEW kind \in {"aggregated", "anomalies", "mukti"}, Receive(kind) PROVE GroundedInv'
  <1>1. PICK limit \in left.limits, workflow \in left.workflows :
          Ask(kind, [pc |-> "list", limit |-> limit, workflow |-> workflow])
    BY DEF Receive
  <1>2. PICK h \in Headers : \/ request' = Merged([kind |-> kind, id |-> Identity(h), code |-> 200],
                                           [pc |-> "list", limit |-> limit, workflow |-> workflow])
                             \/ request' = [pc |-> "done", kind |-> kind, id |-> Identity(h), code |-> 403]
    BY <1>1 DEF Ask
  <1>3. PICK id : id = Identity(h)
    OBVIOUS
  <1>4. ~ AnsweredInsights(request') /\ request'.pc # "feedback"
    <2>1. CASE request' = Merged([kind |-> kind, id |-> id, code |-> 200],
                                 [pc |-> "list", limit |-> limit, workflow |-> workflow])
      <3>1. request'.pc = "list"
        BY <2>1 DEF Merged
      <3>2. QED BY <3>1 DEF AnsweredInsights
    <2>2. CASE request' = [pc |-> "done", kind |-> kind, id |-> id, code |-> 403]
      BY <2>2 DEF AnsweredInsights
    <2>3. QED BY <1>2, <1>3, <2>1, <2>2
  <1>5. db' = db
    BY DEF Receive
  <1>6. QED BY <1>4, <1>5, RequestsGround

LEMMA ReceiveMetricsGrounds ==
  ASSUME GroundedInv, NEW x \in Executions, ReceiveMetrics(x) PROVE GroundedInv'
  <1>1. request'.kind = "metrics" /\ request'.pc # "feedback"
    <2>1. PICK h \in Headers :
            LET id == Identity(h)
                code == IF x \notin DOMAIN db.executions THEN 404
                        ELSE IF Visible(db, id, x) THEN 200 ELSE 403
            IN  request' = IF code = 200
                             THEN [kind |-> "metrics", id |-> id, code |-> code, pc |-> "metrics",
                                   todo |-> <<x>>, read |-> NoRead, per |-> <<>>, listing |-> <<>>]
                             ELSE [kind |-> "metrics", id |-> id, code |-> code, pc |-> "done"]
      BY DEF ReceiveMetrics
    <2>2. PICK next : next = request'
      OBVIOUS
    <2>3. next.kind = "metrics" /\ next.pc # "feedback"
      BY <2>1, <2>2
    <2>4. QED BY <2>2, <2>3
  <1>2. ~ AnsweredInsights(request') /\ db' = db
    BY <1>1 DEF AnsweredInsights, ReceiveMetrics
  <1>3. QED BY <1>1, <1>2, RequestsGround

LEMMA ListGrounds == ASSUME InsightsInv, GroundedInv, List PROVE GroundedInv'
  <1>1. PICK listing \in ListScope :
          Step(Merged(request, [listing |-> listing, todo |-> Names(listing), read |-> NoRead, per |-> <<>>,
                                pc |-> IF request.kind = "mukti" THEN "feedback" ELSE "metrics"]))
    BY DEF List
  <1>2. PICK req : req = request
    OBVIOUS
  <1>3. Rightful(req, Own(db, run, req.id)) /\ req.pc = "list"
    BY <1>2, Underway DEF List
  <1>4. Current(db, listing)
    <2>1. PICK rows : rows = [x \in DOMAIN db.executions |-> With(db.executions[x], "tenant", TenantOf(x))]
      OBVIOUS
    <2>2. PICK id : id = req.id
      OBVIOUS
    <2>3. PICK limit \in Int : limit = req.limit
      BY <1>3 DEF Rightful
    <2>4. PICK workflow : workflow = req.workflow
      OBVIOUS
    <2>5. listing \in ListExecutions("postgres", rows, id.tenant, workflow, "any", limit)
      BY <1>1, <1>2, <2>1, <2>2, <2>3, <2>4 DEF ListScope
    <2>6. id.tenant # "any" /\ Agree(db, run)
      BY <1>3, <2>2 DEF Rightful, InsightsInv
    <2>7. QED BY <2>1, <2>5, <2>6, ListedAreOwn
  <1>5. PICK pc : pc = IF req.kind = "mukti" THEN "feedback" ELSE "metrics"
    OBVIOUS
  <1>6. PICK todo : todo = Names(listing)
    OBVIOUS
  <1>7. PICK more : more = [listing |-> listing, todo |-> todo, read |-> NoRead, per |-> <<>>, pc |-> pc]
    OBVIOUS
  <1>8. PICK next : next = Merged(req, more)
    OBVIOUS
  <1>9. Step(next)
    BY <1>1, <1>2, <1>5, <1>6, <1>7, <1>8
  <1>10. next.listing = listing /\ next.pc = pc
    <2>1. DOMAIN more = {"listing", "todo", "read", "per", "pc"} /\ more.listing = listing /\ more.pc = pc
      BY <1>7
    <2>2. \A f \in DOMAIN more : next[f] = more[f]
      BY <1>8 DEF Merged
    <2>3. QED BY <2>1, <2>2
  <1>11. request' = next /\ db' = db
    BY <1>9 DEF Step
  <1>12. next.pc # "done" /\ Current(db', next.listing)
    BY <1>4, <1>5, <1>10, <1>11
  <1>13. QED BY <1>11, <1>12, RequestsGround DEF AnsweredInsights

\* The requests for metrics stay requests for metrics.
LEMMA MetricsGround ==
  ASSUME InsightsInv, GroundedInv, ReadMetrics \/ MetricsRead \/ LoadSteps \/ LoadTools \/ Rollup
  PROVE  GroundedInv'
  <1>1. PICK req : req = request
    OBVIOUS
  <1>2. Rightful(req, Own(db, run, req.id)) /\ req.pc \in {"metrics", "load", "tools"}
    BY <1>1, Underway DEF ReadMetrics, MetricsRead, LoadSteps, LoadTools, Rollup
  <1>3. /\ req = [f \in DOMAIN req |-> req[f]] /\ {"pc", "kind"} \subseteq DOMAIN req /\ req.kind # "mukti"
    BY <1>2 DEF Rightful
  <1>4. PICK next : /\ Step(next) /\ next.kind = req.kind
                    /\ next.pc \in {"metrics", "load", "tools", "list", "done"}
    <2>1. CASE ReadMetrics
      <3>1. PICK read, todo, per : \/ Step([request EXCEPT !.read = read])
                                   \/ Step([request EXCEPT !.read = read, !.todo = todo, !.per = per])
        BY <2>1 DEF ReadMetrics
      <3>2. CASE Step([request EXCEPT !.read = read])
        <4>1. PICK next : next = [req EXCEPT !.read = read]
          OBVIOUS
        <4>2. next.kind = req.kind /\ next.pc = req.pc
          BY <1>3, <4>1
        <4>3. QED BY <1>1, <1>2, <3>2, <4>1, <4>2
      <3>3. CASE Step([request EXCEPT !.read = read, !.todo = todo, !.per = per])
        <4>1. PICK next : next = [req EXCEPT !.read = read, !.todo = todo, !.per = per]
          OBVIOUS
        <4>2. next.kind = req.kind /\ next.pc = req.pc
          BY <1>3, <4>1
        <4>3. QED BY <1>1, <1>2, <3>3, <4>1, <4>2
      <3>4. QED BY <3>1, <3>2, <3>3
    <2>2. CASE MetricsRead
      <3>1. \/ Step([request EXCEPT !.pc = "done"])
            \/ Step(Merged(request, [loaded |-> <<>>, todo |-> Names(request.listing), pc |-> "load"]))
            \/ Step(Merged(request, [anomalies |-> DetectAnomalies(request.per, request.agg),
                                     score |-> EvaluationScore(request.per), pc |-> "done"]))
        BY <2>2 DEF MetricsRead
      <3>2. CASE Step([request EXCEPT !.pc = "done"])
        <4>1. PICK next : next = [req EXCEPT !.pc = "done"]
          OBVIOUS
        <4>2. next.kind = req.kind /\ next.pc = "done"
          BY <1>3, <4>1
        <4>3. QED BY <1>1, <3>2, <4>1, <4>2
      <3>3. ASSUME NEW more, NEW pc \in {"load", "done"}, more.pc = pc, "pc" \in DOMAIN more,
                   "kind" \notin DOMAIN more, Step(Merged(request, more))
            PROVE  \E next : /\ Step(next) /\ next.kind = req.kind
                             /\ next.pc \in {"metrics", "load", "tools", "list", "done"}
        <4>1. PICK next : next = Merged(req, more)
          OBVIOUS
        <4>2. next.kind = req.kind /\ next.pc = pc
          BY <1>3, <3>3, <4>1 DEF Merged
        <4>3. QED BY <1>1, <3>3, <4>1, <4>2
      <3>4. CASE Step(Merged(request, [loaded |-> <<>>, todo |-> Names(request.listing), pc |-> "load"]))
        <4>1. PICK more : more = [loaded |-> <<>>, todo |-> Names(request.listing), pc |-> "load"]
          OBVIOUS
        <4>2. DOMAIN more = {"loaded", "todo", "pc"} /\ more.pc = "load"
          BY <4>1
        <4>3. QED BY <3>3, <3>4, <4>1, <4>2
      <3>5. CASE Step(Merged(request, [anomalies |-> DetectAnomalies(request.per, request.agg),
                                       score |-> EvaluationScore(request.per), pc |-> "done"]))
        <4>1. PICK more : more = [anomalies |-> DetectAnomalies(request.per, request.agg),
                                  score |-> EvaluationScore(request.per), pc |-> "done"]
          OBVIOUS
        <4>2. DOMAIN more = {"anomalies", "score", "pc"} /\ more.pc = "done"
          BY <4>1
        <4>3. QED BY <3>3, <3>5, <4>1, <4>2
      <3>6. QED BY <3>1, <3>2, <3>4, <3>5
    <2>3. CASE LoadSteps
      <3>1. PICK next : /\ next = [req EXCEPT !.pc = "tools", !.read = [steps |-> StepsRead(Head(req.todo))]]
                        /\ Step(next)
        BY <1>1, <2>3 DEF LoadSteps
      <3>2. next.kind = req.kind /\ next.pc = "tools"
        BY <1>3, <3>1
      <3>3. QED BY <3>1, <3>2
    <2>4. CASE LoadTools
      <3>1. PICK todo, loaded :
              Step([req EXCEPT !.pc = "load", !.read = NoRead, !.todo = todo, !.loaded = loaded])
        BY <1>1, <2>4 DEF LoadTools
      <3>2. PICK next : next = [req EXCEPT !.pc = "load", !.read = NoRead, !.todo = todo, !.loaded = loaded]
        OBVIOUS
      <3>3. next.kind = req.kind /\ next.pc = "load"
        BY <1>3, <3>2
      <3>4. QED BY <3>1, <3>2, <3>3
    <2>5. CASE Rollup
      <3>1. PICK rest : rest = [k \in DOMAIN req \ {"loaded"} |-> req[k]]
        OBVIOUS
      <3>2. PICK agg : Step(Merged(rest, [agg |-> agg, pc |-> IF req.kind = "aggregated" THEN "done" ELSE "list"]))
        BY <1>1, <2>5, <3>1 DEF Rollup
      <3>3. PICK pc : pc = IF req.kind = "aggregated" THEN "done" ELSE "list"
        OBVIOUS
      <3>4. PICK next : next = Merged(rest, [agg |-> agg, pc |-> pc])
        OBVIOUS
      <3>5. next.kind = req.kind /\ next.pc = pc
        BY <1>3, <3>1, <3>4 DEF Merged
      <3>6. QED BY <3>2, <3>3, <3>4, <3>5
    <2>6. QED BY <2>1, <2>2, <2>3, <2>4, <2>5
  <1>5. request' = next /\ db' = db
    BY <1>4 DEF Step
  <1>6. ~ AnsweredInsights(request') /\ request'.pc # "feedback"
    BY <1>3, <1>4, <1>5 DEF AnsweredInsights
  <1>7. QED BY <1>5, <1>6, RequestsGround

LEMMA GroundedInit == Init => GroundedInv
  <1> SUFFICES ASSUME Init PROVE GroundedInv
    OBVIOUS
  <1>1. PICK w \in Workloads : db = FoldLeft(Stored, Empty, w.written) /\ request = NoRequest
    BY DEF Init
  <1>2. PICK tables : tables = FoldLeft(Stored, Empty, w.written)
    OBVIOUS
  <1>3. Numbered(tables)
    BY <1>2, WorkloadsAssumption
  <1>4. Numbered(db)
    BY <1>1, <1>2, <1>3
  <1>5. request.pc = "idle"
    BY <1>1 DEF NoRequest
  <1>6. InsightsGrounded
    BY <1>5, GroundedMeans DEF AnsweredInsights
  <1>7. QED BY <1>4, <1>5, <1>6 DEF GroundedInv

LEMMA GroundedSteps == InsightsInv /\ LearningInv /\ GroundedInv /\ [Next]_vars => GroundedInv'
  <1> SUFFICES ASSUME InsightsInv, LearningInv, GroundedInv, [Next]_vars PROVE GroundedInv'
    OBVIOUS
  <1>1. ASSUME UNCHANGED <<db, request, changed>> PROVE GroundedInv'
    BY <1>1, OthersGround
  <1>2. CASE UNCHANGED vars
    BY <1>1, <1>2 DEF vars
  <1>3. ASSUME NEW x \in Executions, Create(x) \/ Drive(x) \/ SubmitFeedback(x) \/ StartAnalysis(x)
        PROVE  GroundedInv'
    <2>1. CASE Create(x) \/ StartAnalysis(x)
      BY <1>1, <2>1 DEF Create, StartAnalysis
    <2>2. QED BY <1>3, <2>1, DriveGrounds, SubmitFeedbackGrounds
  <1>4. ASSUME ReadExecution \/ ReadSteps \/ ReadDecisions \/ ReadProposals \/ SaveAnalysis
        PROVE  GroundedInv'
    <2>1. CASE ReadExecution \/ ReadSteps \/ ReadDecisions \/ ReadProposals
      BY <1>1, <2>1 DEF ReadExecution, ReadSteps, ReadDecisions, ReadProposals, PipeReads
    <2>2. QED BY <1>4, <2>1, SaveAnalysisGrounds
  <1>5. ASSUME \/ \E kind \in {"aggregated", "anomalies", "mukti"} : Receive(kind)
               \/ \E x \in Executions : ReceiveMetrics(x)
        PROVE  GroundedInv'
    BY <1>5, ReceiveGrounds, ReceiveMetricsGrounds
  <1>6. ASSUME List \/ ReadFeedback \/ ReadMetrics \/ MetricsRead \/ LoadSteps \/ LoadTools \/ Rollup
        PROVE  GroundedInv'
    BY <1>6, ListGrounds, ReadFeedbackGrounds, MetricsGround
  <1>7. CASE Next
    BY <1>3, <1>4, <1>5, <1>6, <1>7 DEF Next
  <1>8. QED BY <1>2, <1>7

\* Every insight that is answered names only executions with stored feedback that reports
\* it, whoever writes in the meantime; and when nobody does, no failure type of the recent
\* rows is missing or miscounted, and a workflow is called unstable exactly when half of its
\* recent rows are of failed or cancelled executions.  Other kinds' counts are not stated.
THEOREM InsightsRestOnFeedback == Spec => []InsightsGrounded
  <1>1. Spec => []GroundedInv
    BY InsightsInvariance, LearningInvariance, GroundedInit, GroundedSteps, PTL DEF Spec
  <1>2. GroundedInv => InsightsGrounded
    BY DEF GroundedInv
  <1>3. QED BY <1>1, <1>2, PTL
(***************************************************************************)
(* Counting: rates, means and the score.                                   *)
(***************************************************************************)
LEMMA RatesAreRates ==
  ASSUME NEW part \in Nat, NEW whole \in Nat, part <= whole
  PROVE  IsRate(Rate(part, whole))
  <1>1. CASE whole = 0
    BY <1>1 DEF Rate, IsRate
  <1>2. CASE whole # 0
    <2>1. Unit \in Nat
      BY UnitAssumption
    <2>2. PICK n \in Nat : n = part * Unit
      BY <2>1
    <2>3. n <= whole * Unit
      BY <2>1, <2>2
    <2>4. n \div whole \in 0..Unit
      BY <1>2, <2>1, <2>2, <2>3, Quotients
    <2>5. QED BY <1>2, <2>2, <2>4 DEF Rate, IsRate
  <1>3. QED BY <1>1, <1>2

\* The mean of the rates that are known is one.
LEMMA MeanOfRates ==
  ASSUME NEW places, IsFiniteSet(places), NEW v, \A i \in places : IsRate(v[i]),
         NEW known, known = {i \in places : v[i] # NoRate}
  PROVE  IsRate(IF known = {} THEN NoRate ELSE Total([i \in known |-> v[i]]) \div Cardinality(known))
  <1>1. CASE known = {}
    BY <1>1 DEF IsRate
  <1>2. CASE known # {}
    <2>1. IsFiniteSet(known)
      BY FS_Subset
    <2>2. PICK m \in Nat : m = Cardinality(known) /\ m # 0
      BY <1>2, <2>1, FS_CardinalityType, FS_EmptySet
    <2>3. PICK f : f = [i \in known |-> v[i]]
      OBVIOUS
    <2>4. PICK u \in Nat : u = Unit
      BY UnitAssumption
    <2>5. DOMAIN f = known /\ \A k \in known : f[k] \in 0..u
      BY <2>3, <2>4 DEF IsRate
    <2>6. Total(f) \in Nat /\ Total(f) <= m * u
      <3>1. Cardinality(Pairs(f)) \in Nat /\ Cardinality(Pairs(f)) <= m * u
        BY <2>1, <2>2, <2>5, PairsAreBounded
      <3>2. QED BY <3>1 DEF Total, Pairs
    <2>7. Total(f) \div m \in 0..u
      BY <2>2, <2>6, Quotients
    <2>8. QED BY <1>2, <2>2, <2>3, <2>4, <2>7 DEF IsRate
  <1>3. QED BY <1>1, <1>2

\* The score of executions with rates is between 0 and 1.
LEMMA ScoreIsInRange ==
  ASSUME NEW per, IsSeq(per), \A i \in DOMAIN per : IsRate(per[i].fallback_rate) /\ IsRate(per[i].tool_rate)
  PROVE  EvaluationScore(per) = NoRate \/ EvaluationScore(per) \in 0..(20 * Unit)
  <1>1. PICK places : places = DOMAIN per
    OBVIOUS
  <1>2. IsFiniteSet(places) /\ Cardinality(places) = Len(per) /\ Len(per) \in Nat
    BY <1>1, PlacesAreFinite
  <1>3. PICK tools : tools = Mean(per, ToolRate)
    OBVIOUS
  <1>4. PICK fallback : fallback = Mean(per, FallbackRate)
    OBVIOUS
  <1>5. IsRate(tools)
    <2>1. PICK v : v = [i \in places |-> per[i].tool_rate]
      OBVIOUS
    <2>2. PICK known : known = {i \in places : v[i] # NoRate}
      OBVIOUS
    <2>3. \A i \in places : IsRate(v[i])
      BY <1>1, <2>1
    <2>4. IsRate(IF known = {} THEN NoRate ELSE Total([i \in known |-> v[i]]) \div Cardinality(known))
      BY <1>2, <2>2, <2>3, MeanOfRates
    <2>5. known = {i \in DOMAIN per : ToolRate(per[i]) # NoRate}
      BY <1>1, <2>1, <2>2 DEF ToolRate
    <2>6. [i \in known |-> v[i]] = [i \in known |-> ToolRate(per[i])]
      BY <2>1, <2>2 DEF ToolRate
    <2>7. QED BY <1>3, <2>4, <2>5, <2>6 DEF Mean
  <1>6. IsRate(fallback)
    <2>1. PICK v : v = [i \in places |-> per[i].fallback_rate]
      OBVIOUS
    <2>2. PICK known : known = {i \in places : v[i] # NoRate}
      OBVIOUS
    <2>3. \A i \in places : IsRate(v[i])
      BY <1>1, <2>1
    <2>4. IsRate(IF known = {} THEN NoRate ELSE Total([i \in known |-> v[i]]) \div Cardinality(known))
      BY <1>2, <2>2, <2>3, MeanOfRates
    <2>5. known = {i \in DOMAIN per : FallbackRate(per[i]) # NoRate}
      BY <1>1, <2>1, <2>2 DEF FallbackRate
    <2>6. [i \in known |-> v[i]] = [i \in known |-> FallbackRate(per[i])]
      BY <2>1, <2>2 DEF FallbackRate
    <2>7. QED BY <1>4, <2>4, <2>5, <2>6 DEF Mean
  <1>7. PICK u \in Nat : u = Unit
    BY UnitAssumption
  <1>8. PICK failed : failed = {i \in DOMAIN per : HasFailed(per[i])}
    OBVIOUS
  <1>9. Cardinality(failed) \in Nat /\ Cardinality(failed) <= Len(per)
    BY <1>1, <1>2, <1>8, CountIsBounded
  <1>10. PICK share : share = (Cardinality(failed) * u) \div Len(per)
    OBVIOUS
  <1>11. Len(per) # 0 => share \in 0..u
    <2>1. PICK n \in Nat : n = Cardinality(failed) * u
      BY <1>9
    <2>2. n <= Len(per) * u
      BY <1>2, <1>9, <2>1
    <2>3. QED BY <1>2, <1>10, <2>1, <2>2, Quotients
  <1>12. PICK score : score = EvaluationScore(per)
    OBVIOUS
  <1>13. score = IF per = <<>> \/ (tools = NoRate /\ fallback = NoRate) THEN NoRate
                 ELSE IF fallback = NoRate THEN 18 * tools + 2 * (u - share)
                 ELSE IF tools = NoRate THEN 18 * (u - fallback) + 2 * (u - share)
                 ELSE 9 * tools + 9 * (u - fallback) + 2 * (u - share)
    BY <1>3, <1>4, <1>7, <1>8, <1>10, <1>12 DEF EvaluationScore, Count
  <1>14. per # <<>> => Len(per) # 0
    BY SeqDomain
  <1>15. CASE per = <<>>
    BY <1>12, <1>13, <1>15
  <1>16. CASE per # <<>>
    <2>1. share \in 0..u
      BY <1>11, <1>14, <1>16
    <2>2. (tools = NoRate \/ tools \in 0..u) /\ (fallback = NoRate \/ fallback \in 0..u)
      BY <1>5, <1>6, <1>7 DEF IsRate
    <2>3. score = NoRate \/ score \in 0..(20 * u)
      BY <1>13, <1>16, <2>1, <2>2 DEF NoRate
    <2>4. QED BY <1>7, <1>12, <2>3
  <1>17. QED BY <1>15, <1>16

(***************************************************************************)
(* What metrics and rollups count.                                         *)
(***************************************************************************)
LEMMA MetricsOf ==
  ASSUME NEW x, NEW read, NEW m, m = ExecutionMetrics(x, read)
  PROVE  /\ m.execution_id = x /\ m.workflow_type = read.execution.workflow_type
         /\ m.status = read.execution.status /\ m.decisions = read.decisions
         /\ IsSeq(read.execution.trace_timeline) /\ IsFiniteSet(read.tools) =>
              IsRate(m.fallback_rate) /\ IsRate(m.tool_rate)
  <1>1. PICK timeline : timeline = read.execution.trace_timeline
    OBVIOUS
  <1>2. PICK events : events = {i \in DOMAIN timeline : IsReasoning(timeline[i])}
    OBVIOUS
  <1>3. PICK fallbacks : fallbacks = {i \in DOMAIN timeline : FellBack(timeline[i])}
    OBVIOUS
  <1>4. PICK tools : tools = read.tools
    OBVIOUS
  <1>5. PICK succeeded : succeeded = {t \in tools : t.status = "success"}
    OBVIOUS
  <1>6. PICK a, b, c, d : /\ a = ValidationSuccess(read.steps, read.results)
                          /\ b = LatencyFrom(read.execution, read.steps, read.results)
                          /\ c = Rate(Cardinality(fallbacks), Cardinality(events))
                          /\ d = Rate(Cardinality(succeeded), Cardinality(tools))
    OBVIOUS
  <1>7. m = [execution_id |-> x, workflow_type |-> read.execution.workflow_type,
             status |-> read.execution.status,
             model_events |-> Cardinality(events), fallback_events |-> Cardinality(fallbacks),
             fallback_rate |-> c, validation |-> a, decisions |-> read.decisions,
             tools |-> Cardinality(tools), tool_rate |-> d, latency |-> b]
    BY <1>1, <1>2, <1>3, <1>4, <1>5, <1>6 DEF ExecutionMetrics, Count
  <1>8. ASSUME IsSeq(timeline), IsFiniteSet(tools) PROVE IsRate(c) /\ IsRate(d)
    <2>1. IsFiniteSet(DOMAIN timeline)
      BY <1>8, PlacesAreFinite
    <2>2. fallbacks \subseteq events /\ events \subseteq DOMAIN timeline
      BY <1>2, <1>3 DEF FellBack
    <2>3. IsFiniteSet(events)
      BY <2>1, <2>2, CountIsBounded
    <2>4. /\ Cardinality(events) \in Nat /\ Cardinality(fallbacks) \in Nat
          /\ Cardinality(fallbacks) <= Cardinality(events)
      BY <2>2, <2>3, CountIsBounded
    <2>5. /\ Cardinality(tools) \in Nat /\ Cardinality(succeeded) \in Nat
          /\ Cardinality(succeeded) <= Cardinality(tools)
      BY <1>5, <1>8, CountIsBounded
    <2>6. QED BY <1>6, <2>4, <2>5, RatesAreRates
  <1>9. QED BY <1>1, <1>4, <1>7, <1>8

\* The rollup of a workflow counts its rows, and those of them that failed.
PlacesOf(per, w) == {i \in DOMAIN per : per[i].workflow_type = w}
FailedPlaces(per, w) == {i \in PlacesOf(per, w) : per[i].status = "failed"}

LEMMA RollupOf ==
  ASSUME NEW per, NEW agg, agg = ByWorkflow(per), NEW w
  PROVE  /\ w \in DOMAIN agg <=> PlacesOf(per, w) # {}
         /\ w \in DOMAIN agg => /\ agg[w].execution_count = Cardinality(PlacesOf(per, w))
                               /\ agg[w].failed = Cardinality(FailedPlaces(per, w))
  <1> DEFINE Rows(v) == [i \in PlacesOf(per, v) |-> per[i]]
  <1>1. agg = [v \in {per[i].workflow_type : i \in DOMAIN per} |-> WorkflowRollup(Rows(v))]
    BY DEF ByWorkflow, PlacesOf
  <1>2. w \in DOMAIN agg <=> PlacesOf(per, w) # {}
    BY <1>1 DEF PlacesOf
  <1>3. ASSUME w \in DOMAIN agg
        PROVE  /\ agg[w].execution_count = Cardinality(PlacesOf(per, w))
               /\ agg[w].failed = Cardinality(FailedPlaces(per, w))
    <2>1. PICK rows : rows = Rows(w)
      OBVIOUS
    <2>2. agg[w] = WorkflowRollup(rows)
      BY <1>1, <1>3, <2>1
    <2>3. agg[w].execution_count = Cardinality(DOMAIN rows) /\ agg[w].failed = Count(rows, HasFailed)
      BY <2>2 DEF WorkflowRollup
    <2>4. DOMAIN rows = PlacesOf(per, w)
      BY <2>1
    <2>5. {i \in DOMAIN rows : HasFailed(rows[i])} = FailedPlaces(per, w)
      BY <2>1, <2>4 DEF HasFailed, FailedPlaces
    <2>6. QED BY <2>3, <2>4, <2>5 DEF Count
  <1>4. QED BY <1>2, <1>3

\* Every workflow's failures are those of executions that have failed.
LEMMA FailuresHappened ==
  ASSUME NEW per, IsSeq(per), IsFiniteSet(DOMAIN db.executions),
         \A i, j \in DOMAIN per : per[i].execution_id = per[j].execution_id => i = j,
         \A i \in DOMAIN per : /\ per[i].execution_id \in DOMAIN db.executions
                               /\ per[i].workflow_type = Workflows[per[i].execution_id]
                               /\ per[i].status = "failed" => db.executions[per[i].execution_id].status = "failed",
         NEW agg, agg = ByWorkflow(per), NEW w \in DOMAIN agg
  PROVE  agg[w].failed \in 0..Cardinality(FailedRuns(w, DOMAIN db.executions))
  <1>1. PICK here : here = FailedPlaces(per, w)
    OBVIOUS
  <1>2. agg[w].failed = Cardinality(here)
    BY <1>1, RollupOf
  <1>3. PICK there : there = FailedRuns(w, DOMAIN db.executions)
    OBVIOUS
  <1>4. IsFiniteSet(there)
    BY <1>3, FS_Subset DEF FailedRuns, RunsOf
  <1>5. PICK f : f = [i \in here |-> per[i].execution_id]
    OBVIOUS
  <1>6. \A i \in here : f[i] \in there
    BY <1>1, <1>3, <1>5 DEF FailedRuns, RunsOf, FailedPlaces, PlacesOf
  <1>7. f \in Injection(here, there)
    BY <1>1, <1>5, <1>6 DEF Injection, IsInjective, FailedPlaces, PlacesOf
  <1>8. Cardinality(here) <= Cardinality(there)
    BY <1>4, <1>7, FS_Injection
  <1>9. IsFiniteSet(here)
    <2>1. IsFiniteSet(DOMAIN per) /\ here \subseteq DOMAIN per
      BY <1>1, PlacesAreFinite DEF FailedPlaces, PlacesOf
    <2>2. QED BY <2>1, FS_Subset
  <1>10. Cardinality(here) \in Nat /\ Cardinality(there) \in Nat
    BY <1>4, <1>9, FS_CardinalityType
  <1>11. QED BY <1>2, <1>3, <1>8, <1>10

\* Rows that are true of different executions are counted for them.
LEMMA WorkflowsCounted ==
  ASSUME NEW per, IsSeq(per),
         \A i, j \in DOMAIN per : per[i].execution_id = per[j].execution_id => i = j,
         \A i \in DOMAIN per : /\ per[i].workflow_type = Workflows[per[i].execution_id]
                               /\ per[i].status = db.executions[per[i].execution_id].status,
         NEW scope, \A x : x \in scope <=> \E i \in DOMAIN per : per[i].execution_id = x,
         NEW agg, agg = ByWorkflow(per), NEW x \in scope, NEW w, w = Workflows[x]
  PROVE  /\ w \in DOMAIN agg
         /\ agg[w].execution_count = Cardinality(RunsOf(w, scope))
         /\ agg[w].failed = Cardinality(FailedRuns(w, scope))
  <1>1. PICK i \in DOMAIN per : per[i].execution_id = x
    OBVIOUS
  <1>2. PICK all : all = PlacesOf(per, w)
    OBVIOUS
  <1>3. PICK bad : bad = FailedPlaces(per, w)
    OBVIOUS
  <1>4. all # {}
    BY <1>1, <1>2 DEF PlacesOf
  <1>5. /\ w \in DOMAIN agg
        /\ agg[w].execution_count = Cardinality(all) /\ agg[w].failed = Cardinality(bad)
    BY <1>2, <1>3, <1>4, RollupOf
  <1>6. IsFiniteSet(all) /\ IsFiniteSet(bad)
    <2>1. IsFiniteSet(DOMAIN per)
      BY PlacesAreFinite
    <2>2. QED BY <1>2, <1>3, <2>1, CountIsBounded DEF FailedPlaces, PlacesOf
  <1>7. PICK f : f = [j \in DOMAIN per |-> per[j].execution_id]
    OBVIOUS
  <1>8. \A j, k \in DOMAIN per : f[j] = f[k] => j = k
    BY <1>7
  <1>9. ASSUME NEW here, IsFiniteSet(here), here \subseteq DOMAIN per, NEW there,
               \A y : y \in there <=> \E j \in here : per[j].execution_id = y
        PROVE  Cardinality(here) = Cardinality(there)
    <2>1. PICK g : g = [j \in here |-> f[j]]
      OBVIOUS
    <2>2. DOMAIN g = here /\ \A j \in here : g[j] = per[j].execution_id
      BY <1>7, <1>9, <2>1
    <2>3. (\A j \in here : g[j] \in there) /\ \A y \in there : \E j \in here : y = g[j]
      BY <1>9, <2>2
    <2>4. \A j, k \in here : g[j] = g[k] => j = k
      BY <1>9, <2>2
    <2>5. IsFiniteSet(here) \/ IsFiniteSet(there)
      BY <1>9
    <2>6. QED BY ONLY <2>2, <2>3, <2>4, <2>5, OneForOne
  <1>10. PICK mine : mine = RunsOf(w, scope)
    OBVIOUS
  <1>11. PICK failed : failed = FailedRuns(w, scope)
    OBVIOUS
  <1>12. \A y : y \in mine <=> \E j \in all : per[j].execution_id = y
    BY <1>2, <1>10 DEF PlacesOf, RunsOf
  <1>13. \A y : y \in failed <=> \E j \in bad : per[j].execution_id = y
    BY <1>3, <1>11 DEF FailedRuns, RunsOf, FailedPlaces, PlacesOf
  <1>14. all \subseteq DOMAIN per /\ bad \subseteq DOMAIN per
    BY <1>2, <1>3 DEF FailedPlaces, PlacesOf
  <1>15. Cardinality(all) = Cardinality(mine)
    BY ONLY <1>6, <1>9, <1>12, <1>14
  <1>16. Cardinality(bad) = Cardinality(failed)
    BY ONLY <1>6, <1>9, <1>13, <1>14
  <1>17. QED BY <1>5, <1>10, <1>11, <1>15, <1>16

Deciding(scope, d) == {k \in DecisionsOf(scope) : db.evaluations[k].decision = d}

\* The decisions of different executions are counted once each.
LEMMA DecisionCounted ==
  ASSUME NEW per, IsFiniteSet(DOMAIN db.evaluations),
         \A i, j \in DOMAIN per : per[i].execution_id = per[j].execution_id => i = j,
         \A i \in DOMAIN per : per[i].decisions = VerdictsRead(per[i].execution_id),
         NEW scope, \A x : x \in scope <=> \E i \in DOMAIN per : per[i].execution_id = x,
         NEW d
  PROVE  /\ Cardinality(Decided(per, d)) = Cardinality(Deciding(scope, d))
         /\ d \in DOMAIN ByDecision(per) <=> Deciding(scope, d) # {}
  <1>1. PICK rows : rows = db.evaluations
    OBVIOUS
  <1>2. ASSUME NEW i \in DOMAIN per, NEW k
        PROVE  /\ k \in DOMAIN per[i].decisions <=>
                    k \in DOMAIN rows /\ rows[k].execution_id = per[i].execution_id
               /\ k \in DOMAIN per[i].decisions => per[i].decisions[k] = rows[k].decision
    <2>1. PICK v : v = per[i].decisions
      OBVIOUS
    <2>2. PICK x : x = per[i].execution_id
      OBVIOUS
    <2>3. v = VerdictsRead(x)
      BY <2>1, <2>2
    <2>4. v = [n \in {m \in DOMAIN rows : rows[m].execution_id = x} |-> rows[n].decision]
      BY <1>1, <2>3 DEF VerdictsRead, RowsOf
    <2>5. k \in DOMAIN v <=> k \in DOMAIN rows /\ rows[k].execution_id = x
      BY <2>4
    <2>6. k \in DOMAIN v => v[k] = rows[k].decision
      BY <2>4
    <2>7. QED BY <2>1, <2>2, <2>5, <2>6
  <1>3. PICK here : here = Decided(per, d)
    OBVIOUS
  <1>4. PICK there : there = Deciding(scope, d)
    OBVIOUS
  <1>5. \A p : p \in here <=> \E i \in DOMAIN per : \E k \in DOMAIN per[i].decisions :
                                p = <<i, k>> /\ per[i].decisions[k] = d
    BY <1>3 DEF Decided
  <1>6. \A k : k \in there <=> /\ k \in DOMAIN rows /\ rows[k].execution_id \in scope
                               /\ rows[k].decision = d
    BY <1>1, <1>4 DEF Deciding, DecisionsOf
  <1>7. PICK f : f = [p \in here |-> p[2]]
    OBVIOUS
  <1>8. DOMAIN f = here
    BY <1>7
  <1>9. \A p \in here : f[p] \in there
    BY <1>2, <1>5, <1>6, <1>7
  <1>10. ASSUME NEW p \in here, NEW q \in here, f[p] = f[q] PROVE p = q
    <2>1. PICK i \in DOMAIN per : \E k \in DOMAIN per[i].decisions : p = <<i, k>>
      BY <1>5
    <2>2. PICK k \in DOMAIN per[i].decisions : p = <<i, k>>
      BY <2>1
    <2>3. PICK j \in DOMAIN per : \E n \in DOMAIN per[j].decisions : q = <<j, n>>
      BY <1>5
    <2>4. PICK n \in DOMAIN per[j].decisions : q = <<j, n>>
      BY <2>3
    <2>5. k = n
      BY <1>7, <1>10, <2>2, <2>4
    <2>6. per[i].execution_id = per[j].execution_id
      BY <1>2, <2>5
    <2>7. QED BY <2>2, <2>4, <2>5, <2>6
  <1>11. ASSUME NEW k \in there PROVE \E p \in here : k = f[p]
    <2>1. PICK i \in DOMAIN per : per[i].execution_id = rows[k].execution_id
      BY <1>6
    <2>2. k \in DOMAIN per[i].decisions /\ per[i].decisions[k] = d
      BY <1>2, <1>6, <2>1
    <2>3. PICK p : p = <<i, k>>
      OBVIOUS
    <2>4. p \in here /\ p[2] = k
      BY <1>5, <2>2, <2>3
    <2>5. QED BY <1>7, <2>4
  <1>2x. IsFiniteSet(there)
    <2>1. there \subseteq DOMAIN rows
      BY <1>6
    <2>2. QED BY <1>1, <2>1, FS_Subset
  <1>13. Cardinality(here) = Cardinality(there)
    <2>1. IsFiniteSet(here) \/ IsFiniteSet(there)
      BY <1>2x
    <2>2. QED BY ONLY <1>8, <1>9, <1>10, <1>11, <2>1, OneForOne
  <1>14. d \in DOMAIN ByDecision(per) <=> here # {}
    <2>1. d \in DOMAIN ByDecision(per) <=>
            \E i \in DOMAIN per : \E k \in DOMAIN per[i].decisions : per[i].decisions[k] = d
      <3>1. PICK kinds : kinds = UNION {{per[i].decisions[k] : k \in DOMAIN per[i].decisions} : i \in DOMAIN per}
        OBVIOUS
      <3>2. DOMAIN ByDecision(per) = kinds
        BY <3>1 DEF ByDecision
      <3>3. d \in kinds <=>
              \E i \in DOMAIN per : \E k \in DOMAIN per[i].decisions : per[i].decisions[k] = d
        BY <3>1
      <3>4. QED BY <3>2, <3>3
    <2>2. ASSUME NEW i \in DOMAIN per, NEW k \in DOMAIN per[i].decisions, per[i].decisions[k] = d
          PROVE  here # {}
      <3>1. <<i, k>> \in here
        BY <1>5, <2>2
      <3>2. QED BY <3>1
    <2>3. QED BY <1>5, <2>1, <2>2
  <1>15. here # {} <=> there # {}
    BY <1>9, <1>11
  <1>16. QED BY <1>3, <1>4, <1>13, <1>14, <1>15

LEMMA DecisionsCounted ==
  ASSUME NEW per, IsFiniteSet(DOMAIN db.evaluations),
         \A i, j \in DOMAIN per : per[i].execution_id = per[j].execution_id => i = j,
         \A i \in DOMAIN per : per[i].decisions = VerdictsRead(per[i].execution_id),
         NEW scope, \A x : x \in scope <=> \E i \in DOMAIN per : per[i].execution_id = x
  PROVE  /\ Total(ByDecision(per)) = Cardinality(DecisionsOf(scope))
         /\ "deny" \in DOMAIN ByDecision(per) <=> DenialsOf(scope) # {}
         /\ "deny" \in DOMAIN ByDecision(per) => ByDecision(per)["deny"] = Cardinality(DenialsOf(scope))
  <1>1. ASSUME NEW d
        PROVE  /\ Cardinality(Decided(per, d)) = Cardinality(Deciding(scope, d))
               /\ d \in DOMAIN ByDecision(per) <=> Deciding(scope, d) # {}
    <2>1. Cardinality(Decided(per, d)) = Cardinality(Deciding(scope, d))
      BY DecisionCounted
    <2>2. d \in DOMAIN ByDecision(per) <=> Deciding(scope, d) # {}
      BY DecisionCounted
    <2>3. QED BY <2>1, <2>2
  <1>2. PICK agg : agg = ByDecision(per)
    OBVIOUS
  <1>3. ASSUME NEW d
         PROVE  /\ d \in DOMAIN agg <=> Deciding(scope, d) # {}
                /\ d \in DOMAIN agg => agg[d] = Cardinality(Deciding(scope, d))
    <2>1. d \in DOMAIN agg => agg[d] = Cardinality(Decided(per, d))
      BY <1>2 DEF ByDecision
    <2>2. QED BY <1>1, <1>2, <2>1
  <1>4. PICK all : all = DecisionsOf(scope)
    OBVIOUS
  <1>5. IsFiniteSet(all)
    BY <1>4, FS_Subset DEF DecisionsOf
  <1>6. PICK g : g = [k \in all |-> db.evaluations[k].decision]
    OBVIOUS
  <1>7. \A d : Deciding(scope, d) = Sharing(all, g, d)
    BY <1>4, <1>6 DEF Deciding, Sharing
  <1>8. \A d : d \in DOMAIN agg <=> \E s \in all : g[s] = d
    BY <1>3, <1>7 DEF Sharing
  <1>9. \A d \in DOMAIN agg : agg[d] = Cardinality(Sharing(all, g, d))
    BY <1>3, <1>7
  <1>10. Total(agg) = Cardinality(all)
    <2>1. Cardinality(Pairs(agg)) = Cardinality(all)
      BY ONLY <1>5, <1>8, <1>9, PairsAddUp
    <2>2. QED BY <2>1 DEF Total, Pairs
  <1>11. Deciding(scope, "deny") = DenialsOf(scope)
    BY DEF Deciding, DenialsOf
  <1>12. QED BY <1>2, <1>3, <1>4, <1>10, <1>11

\* Every tool call has the columns that are read, and a stored step of its execution.
CallsFit ==
  \A k \in DOMAIN db.tool_calls :
    LET call == db.tool_calls[k]
    IN  /\ {"step_id", "tool_name", "status"} \subseteq DOMAIN call
        /\ call.step_id \in DOMAIN db.steps /\ db.steps[call.step_id].execution_id = call.execution_id

LEMMA WithItsKey ==
  ASSUME NEW row, NEW k, NEW t, t = With(row, "id", k)
  PROVE  /\ t.id = k
         /\ \A c \in DOMAIN row : c # "id" => t[c] = row[c]
  BY DEF With, Merged

\* The tool calls that are read by way of an execution's steps are its own.
LEMMA ToolsReadOf ==
  ASSUME CallsFit, NEW x, NEW t
  PROVE  t \in ToolsRead(StepsRead(x)) <=>
           \E k \in DOMAIN db.tool_calls : /\ db.tool_calls[k].execution_id = x
                                           /\ t = With(db.tool_calls[k], "id", k)
  <1>1. PICK calls, rows : calls = db.tool_calls /\ rows = db.steps
    OBVIOUS
  <1>2. PICK steps : steps = StepsRead(x)
    OBVIOUS
  <1>3. \A s \in steps : s.id \in DOMAIN rows /\ rows[s.id].execution_id = x
    <2>1. ASSUME NEW s \in steps PROVE s.id \in DOMAIN rows /\ rows[s.id].execution_id = x
      <3>1. PICK k \in DOMAIN rows : rows[k].execution_id = x /\ s = With(rows[k], "id", k)
        BY <1>1, <1>2 DEF StepsRead, RowsOf
      <3>2. s.id = k
        BY <3>1, WithItsKey
      <3>3. QED BY <3>1, <3>2
    <2>2. QED BY <2>1
  <1>4. ASSUME NEW k \in DOMAIN rows, rows[k].execution_id = x PROVE \E s \in steps : s.id = k
    <2>1. PICK s : s = With(rows[k], "id", k)
      OBVIOUS
    <2>2. s \in steps
      BY <1>1, <1>2, <1>4, <2>1 DEF StepsRead, RowsOf
    <2>3. s.id = k
      BY <2>1, WithItsKey
    <2>4. QED BY <2>2, <2>3
  <1>5. ASSUME NEW k \in DOMAIN calls
        PROVE  (\E s \in steps : calls[k].step_id = s.id) <=> calls[k].execution_id = x
    <2>1. calls[k].step_id \in DOMAIN rows /\ rows[calls[k].step_id].execution_id = calls[k].execution_id
      BY <1>1 DEF CallsFit
    <2>2. QED BY <1>3, <1>4, <2>1
  <1>6. t \in ToolsRead(steps) <=>
          \E k \in DOMAIN calls : (\E s \in steps : calls[k].step_id = s.id) /\ t = With(calls[k], "id", k)
    BY <1>1 DEF ToolsRead
  <1>7. QED BY <1>1, <1>2, <1>5, <1>6

LEMMA ToolsAreFinite ==
  ASSUME IsFiniteSet(DOMAIN db.tool_calls), NEW steps
  PROVE  IsFiniteSet(ToolsRead(steps))
  <1>1. PICK keys : keys = {c \in DOMAIN db.tool_calls : \E s \in steps : db.tool_calls[c].step_id = s.id}
    OBVIOUS
  <1>2. PICK f : f = [k \in keys |-> With(db.tool_calls[k], "id", k)]
    OBVIOUS
  <1>3. IsFiniteSet(keys)
    BY <1>1, FS_Subset
  <1>4. PICK tools : tools = ToolsRead(steps)
    OBVIOUS
  <1>5. tools = {With(db.tool_calls[k], "id", k) : k \in keys}
    BY <1>1, <1>4 DEF ToolsRead
  <1>6. f \in Surjection(keys, tools)
    BY <1>2, <1>5 DEF Surjection
  <1>7. IsFiniteSet(tools)
    BY <1>3, <1>6, FS_Surjection
  <1>8. QED BY <1>4, <1>7

AllTools(loaded) == UNION {loaded[x].tools : x \in DOMAIN loaded}
Invocations(loaded, n) == {t \in AllTools(loaded) : t.tool_name = n}
Failures(loaded, n) == {t \in AllTools(loaded) : t.tool_name = n /\ t.status # "success"}

LEMMA ByToolOf ==
  ASSUME NEW loaded, NEW agg, agg = ByTool(loaded), NEW n
  PROVE  /\ n \in DOMAIN agg <=> Invocations(loaded, n) # {}
         /\ n \in DOMAIN agg => /\ agg[n].invocations = Cardinality(Invocations(loaded, n))
                                /\ agg[n].failures = Cardinality(Failures(loaded, n))
  <1>1. PICK all : all = AllTools(loaded)
    OBVIOUS
  <1>2. agg = [m \in {t.tool_name : t \in all} |->
                 [invocations |-> Cardinality({t \in all : t.tool_name = m}),
                  failures |-> Cardinality({t \in all : t.tool_name = m /\ t.status # "success"})]]
    BY <1>1 DEF ByTool, AllTools
  <1>3. n \in DOMAIN agg <=> Invocations(loaded, n) # {}
    BY <1>1, <1>2 DEF Invocations
  <1>4. ASSUME n \in DOMAIN agg
        PROVE  /\ agg[n].invocations = Cardinality(Invocations(loaded, n))
               /\ agg[n].failures = Cardinality(Failures(loaded, n))
    <2>1. agg[n] = [invocations |-> Cardinality({t \in all : t.tool_name = n}),
                    failures |-> Cardinality({t \in all : t.tool_name = n /\ t.status # "success"})]
      BY <1>2, <1>4
    <2>2. QED BY <1>1, <2>1 DEF Invocations, Failures
  <1>5. QED BY <1>3, <1>4

\* The tool calls of the executions that were loaded are counted once each.
LEMMA ToolsCounted ==
  ASSUME CallsFit, IsFiniteSet(DOMAIN db.tool_calls),
         NEW loaded, \A x \in DOMAIN loaded : loaded[x].tools = ToolsRead(StepsRead(x)),
         NEW agg, agg = ByTool(loaded), NEW scope, scope = DOMAIN loaded, NEW n
  PROVE  /\ n \in DOMAIN agg <=> CallsOf(n, scope) # {}
         /\ n \in DOMAIN agg => /\ agg[n].invocations = Cardinality(CallsOf(n, scope))
                                /\ agg[n].failures = Cardinality(FailuresOf(n, scope))
  <1>1. PICK calls : calls = db.tool_calls
    OBVIOUS
  <1>2. ASSUME NEW t
        PROVE  t \in AllTools(loaded) <=>
                 \E k \in DOMAIN calls : calls[k].execution_id \in scope /\ t = With(calls[k], "id", k)
    <2>1. t \in AllTools(loaded) <=> \E x \in scope : t \in ToolsRead(StepsRead(x))
      BY DEF AllTools
    <2>2. ASSUME NEW x \in scope
          PROVE  t \in ToolsRead(StepsRead(x)) <=>
                   \E k \in DOMAIN calls : calls[k].execution_id = x /\ t = With(calls[k], "id", k)
      BY <1>1, ToolsReadOf
    <2>3. QED BY <2>1, <2>2
  <1>3. PICK f : f = [k \in DOMAIN calls |-> With(calls[k], "id", k)]
    OBVIOUS
  <1>4. ASSUME NEW k \in DOMAIN calls
        PROVE  f[k].id = k /\ f[k].tool_name = calls[k].tool_name /\ f[k].status = calls[k].status
    <2>1. PICK row, t : row = calls[k] /\ t = f[k]
      OBVIOUS
    <2>2. {"tool_name", "status"} \subseteq DOMAIN row
      BY <1>1, <2>1 DEF CallsFit
    <2>3. t = With(row, "id", k)
      BY <1>3, <2>1
    <2>4. t.id = k /\ \A c \in DOMAIN row : c # "id" => t[c] = row[c]
      BY <2>3, WithItsKey
    <2>5. QED BY <2>1, <2>2, <2>4
  <1>5. ASSUME NEW here, here \subseteq DOMAIN calls, NEW there,
               \A t : t \in there <=> \E k \in here : t = f[k]
        PROVE  Cardinality(there) = Cardinality(here)
    <2>1. PICK g : g = [k \in here |-> f[k]]
      OBVIOUS
    <2>2. DOMAIN g = here /\ \A k \in here : g[k] \in there
      BY <1>5, <2>1
    <2>3. \A j, k \in here : g[j] = g[k] => j = k
      BY <1>4, <1>5, <2>1
    <2>4. \A t \in there : \E k \in here : t = g[k]
      BY <1>5, <2>1
    <2>5. IsFiniteSet(here)
      BY <1>1, <1>5, FS_Subset
    <2>6. IsFiniteSet(here) \/ IsFiniteSet(there)
      BY <2>5
    <2>7. QED BY ONLY <2>2, <2>3, <2>4, <2>6, OneForOne
  <1>6. PICK mine, failed : mine = CallsOf(n, scope) /\ failed = FailuresOf(n, scope)
    OBVIOUS
  <1>7. PICK invoked, lost : invoked = Invocations(loaded, n) /\ lost = Failures(loaded, n)
    OBVIOUS
  <1>8. \A k : k \in mine <=> k \in DOMAIN calls /\ calls[k].execution_id \in scope /\ calls[k].tool_name = n
    BY <1>1, <1>6 DEF CallsOf
  <1>9. \A k : k \in failed <=> k \in mine /\ calls[k].status # "success"
    BY <1>1, <1>6 DEF FailuresOf
  <1>10. \A t : t \in invoked <=> \E k \in mine : t = f[k]
    <2>1. ASSUME NEW t PROVE t \in invoked <=> \E k \in mine : t = f[k]
      <3>1. t \in invoked <=> t \in AllTools(loaded) /\ t.tool_name = n
        BY <1>7 DEF Invocations
      <3>2. t \in AllTools(loaded) <=> \E k \in DOMAIN calls : calls[k].execution_id \in scope /\ t = f[k]
        BY <1>2, <1>3
      <3>3. QED BY <1>4, <1>8, <3>1, <3>2
    <2>2. QED BY <2>1
  <1>11. \A t : t \in lost <=> \E k \in failed : t = f[k]
    <2>1. ASSUME NEW t PROVE t \in lost <=> \E k \in failed : t = f[k]
      <3>1. t \in lost <=> t \in invoked /\ t.status # "success"
        BY <1>7 DEF Failures, Invocations
      <3>2. QED BY <1>4, <1>8, <1>9, <1>10, <3>1
    <2>2. QED BY <2>1
  <1>12. mine \subseteq DOMAIN calls /\ failed \subseteq DOMAIN calls
    BY <1>8, <1>9
  <1>13. Cardinality(invoked) = Cardinality(mine)
    BY ONLY <1>5, <1>10, <1>12
  <1>14. Cardinality(lost) = Cardinality(failed)
    BY ONLY <1>5, <1>11, <1>12
  <1>15. invoked # {} <=> mine # {}
    BY <1>10
  <1>16. n \in DOMAIN agg <=> invoked # {}
    BY <1>7, ByToolOf
  <1>17. n \in DOMAIN agg => agg[n].invocations = Cardinality(invoked) /\ agg[n].failures = Cardinality(lost)
    BY <1>7, ByToolOf
  <1>18. QED BY <1>6, <1>13, <1>14, <1>15, <1>16, <1>17

\* Metrics and dimensions that are true of the same executions make rollups that are.
LEMMA RollupsTell ==
  ASSUME CallsFit, IsFiniteSet(DOMAIN db.tool_calls), IsFiniteSet(DOMAIN db.evaluations),
         NEW per, IsSeq(per),
         \A i, j \in DOMAIN per : per[i].execution_id = per[j].execution_id => i = j,
         \A i \in DOMAIN per : /\ per[i].workflow_type = Workflows[per[i].execution_id]
                               /\ per[i].status = db.executions[per[i].execution_id].status
                               /\ per[i].decisions = VerdictsRead(per[i].execution_id),
         NEW loaded, \A x \in DOMAIN loaded : loaded[x].tools = ToolsRead(StepsRead(x)),
         NEW scope, scope = DOMAIN loaded,
         \A x : x \in scope <=> \E i \in DOMAIN per : per[i].execution_id = x,
         NEW listing, NEW agg, agg = Aggregate(per, listing, loaded)
  PROVE  Tells(agg, scope)
  <1>1. /\ agg.by_workflow = ByWorkflow(per) /\ agg.by_decision = ByDecision(per)
        /\ agg.by_tool = ByTool(loaded)
    BY DEF Aggregate
  <1>2. PICK workflows, decisions, tools :
          workflows = agg.by_workflow /\ decisions = agg.by_decision /\ tools = agg.by_tool
    OBVIOUS
  <1>3. ASSUME NEW x \in scope, NEW w, w = Workflows[x]
        PROVE  /\ w \in DOMAIN workflows
               /\ workflows[w].execution_count = Cardinality(RunsOf(w, scope))
               /\ workflows[w].failed = Cardinality(FailedRuns(w, scope))
    <2>1. workflows = ByWorkflow(per)
      BY <1>1, <1>2
    <2>2. \A i \in DOMAIN per : /\ per[i].workflow_type = Workflows[per[i].execution_id]
                                /\ per[i].status = db.executions[per[i].execution_id].status
      OBVIOUS
    <2>3. w \in DOMAIN workflows
      BY <1>3, <2>1, <2>2, WorkflowsCounted
    <2>4. workflows[w].execution_count = Cardinality(RunsOf(w, scope))
      BY <1>3, <2>1, <2>2, WorkflowsCounted
    <2>5. workflows[w].failed = Cardinality(FailedRuns(w, scope))
      <3>1. PICK all : all = ByWorkflow(per)
        OBVIOUS
      <3>2. all[w].failed = Cardinality(FailedRuns(w, scope))
        BY <1>3, <2>2, <3>1, WorkflowsCounted
      <3>3. QED BY <2>1, <3>1, <3>2
    <2>6. QED BY <2>3, <2>4, <2>5
  <1>4. /\ Total(decisions) = Cardinality(DecisionsOf(scope))
        /\ "deny" \in DOMAIN decisions <=> DenialsOf(scope) # {}
        /\ DenialsOf(scope) # {} => decisions["deny"] = Cardinality(DenialsOf(scope))
    <2>1. decisions = ByDecision(per)
      BY <1>1, <1>2
    <2>2. \A i \in DOMAIN per : per[i].decisions = VerdictsRead(per[i].execution_id)
      OBVIOUS
    <2>3. Total(ByDecision(per)) = Cardinality(DecisionsOf(scope))
      BY <2>2, DecisionsCounted
    <2>4. "deny" \in DOMAIN ByDecision(per) <=> DenialsOf(scope) # {}
      BY <2>2, DecisionsCounted
    <2>5. "deny" \in DOMAIN ByDecision(per) => ByDecision(per)["deny"] = Cardinality(DenialsOf(scope))
      BY <2>2, DecisionsCounted
    <2>6. QED BY <2>1, <2>3, <2>4, <2>5
  <1>5. ASSUME NEW t
        PROVE  /\ t \in DOMAIN tools <=> CallsOf(t, scope) # {}
               /\ CallsOf(t, scope) # {} =>
                    /\ tools[t].invocations = Cardinality(CallsOf(t, scope))
                    /\ tools[t].failures = Cardinality(FailuresOf(t, scope))
    <2>1. tools = ByTool(loaded)
      BY <1>1, <1>2
    <2>2. t \in DOMAIN tools <=> CallsOf(t, scope) # {}
      BY <2>1, ToolsCounted
    <2>3. t \in DOMAIN tools => tools[t].invocations = Cardinality(CallsOf(t, scope))
      BY <2>1, ToolsCounted
    <2>4. t \in DOMAIN tools => tools[t].failures = Cardinality(FailuresOf(t, scope))
      BY <2>1, ToolsCounted
    <2>5. QED BY <2>2, <2>3, <2>4
  <1>6. \A x \in scope :
          LET w == Workflows[x]
          IN  /\ w \in DOMAIN agg.by_workflow
              /\ agg.by_workflow[w].execution_count = Cardinality(RunsOf(w, scope))
              /\ agg.by_workflow[w].failed = Cardinality(FailedRuns(w, scope))
    <2>1. ASSUME NEW x \in scope, NEW w, w = Workflows[x]
          PROVE  /\ w \in DOMAIN agg.by_workflow
                 /\ agg.by_workflow[w].execution_count = Cardinality(RunsOf(w, scope))
                 /\ agg.by_workflow[w].failed = Cardinality(FailedRuns(w, scope))
      BY <1>2, <1>3, <2>1
    <2>2. QED BY <2>1
  <1>7. \A t \in {db.tool_calls[k].tool_name : k \in DOMAIN db.tool_calls} :
          /\ t \in DOMAIN agg.by_tool <=> CallsOf(t, scope) # {}
          /\ CallsOf(t, scope) # {} =>
               /\ agg.by_tool[t].invocations = Cardinality(CallsOf(t, scope))
               /\ agg.by_tool[t].failures = Cardinality(FailuresOf(t, scope))
    BY <1>2, <1>5, Zenon
  <1>8. /\ Total(agg.by_decision) = Cardinality(DecisionsOf(scope))
        /\ "deny" \in DOMAIN agg.by_decision <=> DenialsOf(scope) # {}
        /\ DenialsOf(scope) # {} => agg.by_decision["deny"] = Cardinality(DenialsOf(scope))
    BY <1>2, <1>4
  <1>9. QED BY <1>6, <1>7, <1>8, Zenon DEF Tells

\* What is flagged when the rollups count the rows of some executions.
LEMMA AnomaliesAreExact ==
  ASSUME IsFiniteSet(DOMAIN db.tool_calls), IsFiniteSet(DOMAIN db.evaluations),
         NEW per, NEW agg, NEW scope, Tells(agg, scope), NEW flags, flags = DetectAnomalies(per, agg)
  PROVE  FlagsAreExact(flags, scope)
  <1>1. PICK workflows, decisions, tools :
          workflows = agg.by_workflow /\ decisions = agg.by_decision /\ tools = agg.by_tool
    OBVIOUS
  <1>2. /\ \A w : <<"elevated_execution_failure_rate", w>> \in flags <=>
                    w \in DOMAIN workflows /\ ElevatedFailures(workflows[w])
        /\ <<"high_policy_deny_share", "deny">> \in flags <=>
             "deny" \in DOMAIN decisions /\ HighDenyShare(decisions)
        /\ \A t : <<"repeated_tool_failures", t>> \in flags <=>
                    t \in DOMAIN tools /\ RepeatedFailures(tools[t])
    <2>1. PICK one, two, three, four :
            /\ one = {<<"high_model_fallback_single_execution", m.execution_id>> :
                        m \in {n \in ToSet(per) : HighFallback(n)}}
            /\ two = {<<"elevated_execution_failure_rate", w>> :
                        w \in {v \in DOMAIN workflows : ElevatedFailures(workflows[v])}}
            /\ three = {<<"high_policy_deny_share", d>> :
                          d \in {"deny"} \cap {e \in DOMAIN decisions : HighDenyShare(decisions)}}
            /\ four = {<<"repeated_tool_failures", n>> :
                         n \in {t \in DOMAIN tools : RepeatedFailures(tools[t])}}
      OBVIOUS
    <2>2. flags = one \cup two \cup three \cup four
      BY <1>1, <2>1 DEF DetectAnomalies
    <2>3. /\ \A p \in one : p[1] = "high_model_fallback_single_execution"
          /\ \A p \in two : p[1] = "elevated_execution_failure_rate"
          /\ \A p \in three : p[1] = "high_policy_deny_share"
          /\ \A p \in four : p[1] = "repeated_tool_failures"
      BY <2>1
    <2>4. ASSUME NEW w
          PROVE  <<"elevated_execution_failure_rate", w>> \in flags <=>
                   w \in DOMAIN workflows /\ ElevatedFailures(workflows[w])
      <3>1. PICK p : p = <<"elevated_execution_failure_rate", w>>
        OBVIOUS
      <3>2. p \in flags <=> p \in two
        BY <2>2, <2>3, <3>1
      <3>3. p \in two <=> w \in DOMAIN workflows /\ ElevatedFailures(workflows[w])
        BY <2>1, <3>1
      <3>4. QED BY <3>1, <3>2, <3>3
    <2>5. <<"high_policy_deny_share", "deny">> \in flags <=>
            "deny" \in DOMAIN decisions /\ HighDenyShare(decisions)
      <3>1. PICK p : p = <<"high_policy_deny_share", "deny">>
        OBVIOUS
      <3>2. p \in flags <=> p \in three
        BY <2>2, <2>3, <3>1
      <3>3. p \in three <=> "deny" \in DOMAIN decisions /\ HighDenyShare(decisions)
        BY <2>1, <3>1
      <3>4. QED BY <3>1, <3>2, <3>3
    <2>6. ASSUME NEW t
          PROVE  <<"repeated_tool_failures", t>> \in flags <=>
                   t \in DOMAIN tools /\ RepeatedFailures(tools[t])
      <3>1. PICK p : p = <<"repeated_tool_failures", t>>
        OBVIOUS
      <3>2. p \in flags <=> p \in four
        BY <2>2, <2>3, <3>1
      <3>3. p \in four <=> t \in DOMAIN tools /\ RepeatedFailures(tools[t])
        BY <2>1, <3>1
      <3>4. QED BY <3>1, <3>2, <3>3
    <2>7. QED BY <2>4, <2>5, <2>6
  <1>3. ASSUME NEW x \in scope
        PROVE  <<"elevated_execution_failure_rate", Workflows[x]>> \in flags <=>
                 /\ Cardinality(RunsOf(Workflows[x], scope)) >= MinExecutions
                 /\ 20 * Cardinality(FailedRuns(Workflows[x], scope))
                      >= 7 * Cardinality(RunsOf(Workflows[x], scope))
    <2>1. PICK w : w = Workflows[x]
      OBVIOUS
    <2>2. PICK all : all = Cardinality(RunsOf(w, scope))
      OBVIOUS
    <2>3. PICK failed : failed = Cardinality(FailedRuns(w, scope))
      OBVIOUS
    <2>4. w \in DOMAIN workflows /\ workflows[w].execution_count = all /\ workflows[w].failed = failed
      BY <1>1, <2>1, <2>2, <2>3 DEF Tells
    <2>5. ElevatedFailures(workflows[w]) <=> all >= MinExecutions /\ 20 * failed >= 7 * all
      BY <2>4 DEF ElevatedFailures
    <2>6. QED BY <1>2, <2>1, <2>2, <2>3, <2>4, <2>5
  <1>4. <<"high_policy_deny_share", "deny">> \in flags <=>
          /\ Cardinality(DenialsOf(scope)) > 0 /\ Cardinality(DecisionsOf(scope)) >= MinEvaluations
          /\ 4 * Cardinality(DenialsOf(scope)) >= Cardinality(DecisionsOf(scope))
    <2>1. PICK all, denied : all = DecisionsOf(scope) /\ denied = DenialsOf(scope)
      OBVIOUS
    <2>2. IsFiniteSet(denied)
      <3>1. denied \subseteq DOMAIN db.evaluations
        BY <2>1 DEF DenialsOf, DecisionsOf
      <3>2. QED BY <3>1, FS_Subset
    <2>3. Cardinality(denied) > 0 <=> denied # {}
      BY <2>2, FS_EmptySet, FS_CardinalityType
    <2>4. /\ Total(decisions) = Cardinality(all)
          /\ "deny" \in DOMAIN decisions <=> denied # {}
          /\ denied # {} => decisions["deny"] = Cardinality(denied)
      BY <1>1, <2>1 DEF Tells
    <2>5. "deny" \in DOMAIN decisions =>
            (HighDenyShare(decisions) <=>
               Cardinality(all) >= MinEvaluations /\ 4 * Cardinality(denied) >= Cardinality(all))
      <3>1. PICK total, share : total = Total(decisions) /\ share = decisions["deny"]
        OBVIOUS
      <3>2. HighDenyShare(decisions) <=> "deny" \in DOMAIN decisions /\ total >= MinEvaluations /\ 4 * share >= total
        BY <3>1, Zenon DEF HighDenyShare
      <3>3. total = Cardinality(all) /\ ("deny" \in DOMAIN decisions => share = Cardinality(denied))
        BY <2>4, <3>1
      <3>4. QED BY <3>2, <3>3, Zenon
    <2>6. <<"high_policy_deny_share", "deny">> \in flags <=> denied # {} /\ HighDenyShare(decisions)
      BY <1>2, <2>4, Zenon
    <2>7. <<"high_policy_deny_share", "deny">> \in flags <=>
            denied # {} /\ Cardinality(all) >= MinEvaluations /\ 4 * Cardinality(denied) >= Cardinality(all)
      BY <2>4, <2>5, <2>6, Zenon
    <2>8. QED BY <2>1, <2>3, <2>7, Zenon
  <1>5. ASSUME NEW t \in {db.tool_calls[k].tool_name : k \in DOMAIN db.tool_calls}
        PROVE  <<"repeated_tool_failures", t>> \in flags <=>
                 /\ Cardinality(CallsOf(t, scope)) >= MinInvocations
                 /\ 2 * Cardinality(FailuresOf(t, scope)) >= Cardinality(CallsOf(t, scope))
    <2>1. PICK all, failed : all = CallsOf(t, scope) /\ failed = FailuresOf(t, scope)
      OBVIOUS
    <2>2. IsFiniteSet(all)
      <3>1. all \subseteq DOMAIN db.tool_calls
        BY <2>1 DEF CallsOf
      <3>2. QED BY <3>1, FS_Subset
    <2>3. Cardinality(all) >= MinInvocations => all # {}
      <3>1. MinInvocations \in Nat /\ MinInvocations # 0
        BY ThresholdAssumption
      <3>2. QED BY <3>1, FS_EmptySet
    <2>4. /\ t \in DOMAIN tools <=> all # {}
          /\ all # {} => tools[t].invocations = Cardinality(all) /\ tools[t].failures = Cardinality(failed)
      BY <1>1, <2>1 DEF Tells
    <2>5. t \in DOMAIN tools =>
            (RepeatedFailures(tools[t]) <=>
               Cardinality(all) >= MinInvocations /\ 2 * Cardinality(failed) >= Cardinality(all))
      BY <2>4 DEF RepeatedFailures
    <2>6. QED BY <1>2, <2>1, <2>3, <2>4, <2>5
  <1>6. QED BY <1>3, <1>4, <1>5, Zenon DEF FlagsAreExact

(***************************************************************************)
(* What the tables tell: as many rows as were written, each of its own     *)
(* execution.                                                              *)
(***************************************************************************)
WrittenTables == {"executions", "steps", "tool_calls", "evaluations", "proposals"}

\* The write that a row is from: it fits, and what it refers to is stored.
LEMMA RowIsTold ==
  ASSUME NEW tables, NEW runs, Agree(tables, runs), Written(tables, runs), NEW t \in WrittenTables,
         NEW k \in DOMAIN tables[t], NEW row, row = tables[t][k]
  PROVE  \E x, w, known :
           /\ x \in Executions /\ w.table = t /\ w.key = k /\ w.row = row
           /\ Fits(w, x, runs[x].tenant, known) /\ \A id \in known : Has(tables, id)
  <1>1. PICK x \in Executions : \E i \in DOMAIN Program(x, runs[x]) :
          LET w == Program(x, runs[x])[i]
          IN  i < runs[x].at /\ w.table = t /\ w.key = k /\ w.row = tables[t][k]
    BY DEF Written, WrittenTables
  <1>2. PICK told : told = Program(x, runs[x])
    OBVIOUS
  <1>3. PICK i \in DOMAIN told : i < runs[x].at /\ told[i].table = t /\ told[i].key = k /\ told[i].row = row
    BY <1>1, <1>2
  <1>4. PICK at : at = runs[x].at
    OBVIOUS
  <1>5. Closed(told, x, runs[x].tenant, {}) /\ DOMAIN told = 1 .. Len(told) /\ Len(told) \in Nat /\ at \in Nat
    BY <1>2, <1>4, RunTells
  <1>6. PICK known : known = {} \cup {Id(told[j]) : j \in 1 .. i - 1}
    OBVIOUS
  <1>7. Fits(told[i], x, runs[x].tenant, known)
    BY <1>3, <1>5, <1>6 DEF Closed
  <1>8. \A j \in DOMAIN told : j < at => told[j].key \in DOMAIN tables[told[j].table]
    BY <1>2, <1>4 DEF Agree
  <1>9. \A j \in 1 .. i - 1 : j \in DOMAIN told /\ j < at
    BY <1>3, <1>4, <1>5
  <1>10. \A j \in 1 .. i - 1 : Has(tables, Id(told[j]))
    BY <1>8, <1>9 DEF Has, Id
  <1>11. \A id \in known : Has(tables, id)
    BY <1>6, <1>10
  <1>12. QED BY <1>3, <1>7, <1>11

LEMMA RowsAreFinite ==
  ASSUME NEW tables, NEW runs, Agree(tables, runs), Written(tables, runs), NEW t \in WrittenTables
  PROVE  IsFiniteSet(DOMAIN tables[t])
  <1>1. PICK keys : keys = [x \in Executions |-> {Program(x, runs[x])[i].key : i \in 1 .. Len(Program(x, runs[x]))}]
    OBVIOUS
  <1>2. ASSUME NEW x \in Executions PROVE IsFiniteSet(keys[x])
    <2>1. PICK told : told = Program(x, runs[x])
      OBVIOUS
    <2>2. PICK n \in Nat : n = Len(told)
      BY <2>1, RunTells
    <2>3. PICK f : f = [i \in 1 .. n |-> told[i].key]
      OBVIOUS
    <2>4. IsFiniteSet(1 .. n)
      <3>1. PICK one \in Int : one = 1
        OBVIOUS
      <3>2. IsFiniteSet(one .. n)
        BY FS_Interval
      <3>3. QED BY <3>1, <3>2
    <2>5. PICK mine : mine = keys[x]
      OBVIOUS
    <2>6. DOMAIN f = 1 .. n /\ \A k \in mine : \E i \in 1 .. n : k = f[i]
      BY <1>1, <2>1, <2>2, <2>3, <2>5
    <2>7. IsFiniteSet(mine)
      BY ONLY <2>4, <2>6, ImageIsFinite
    <2>8. QED BY <2>5, <2>7
  <1>3. PICK sets : sets = {keys[x] : x \in Executions}
    OBVIOUS
  <1>4. IsFiniteSet(sets)
    <2>1. IsFiniteSet(Executions) /\ DOMAIN keys = Executions
      BY <1>1, ExecutionsAssumption
    <2>2. \A s \in sets : \E x \in Executions : s = keys[x]
      BY <1>3
    <2>3. QED BY ONLY <2>1, <2>2, ImageIsFinite
  <1>5. \A s \in sets : IsFiniteSet(s)
    BY <1>2, <1>3
  <1>6. IsFiniteSet(UNION sets)
    BY <1>4, <1>5, FS_UNION
  <1>7. DOMAIN tables[t] \subseteq UNION sets
    <2>1. ASSUME NEW k \in DOMAIN tables[t] PROVE k \in UNION sets
      <3>1. PICK x \in Executions : \E i \in DOMAIN Program(x, runs[x]) :
              LET w == Program(x, runs[x])[i]
              IN  i < runs[x].at /\ w.table = t /\ w.key = k /\ w.row = tables[t][k]
        BY DEF Written, WrittenTables
      <3>2. PICK told : told = Program(x, runs[x])
        OBVIOUS
      <3>3. DOMAIN told = 1 .. Len(told)
        BY <3>2, RunTells
      <3>4. PICK i \in 1 .. Len(told) : told[i].key = k
        BY <3>1, <3>2, <3>3
      <3>5. keys[x] = {told[j].key : j \in 1 .. Len(told)}
        BY <1>1, <3>2
      <3>6. k \in keys[x]
        BY <3>4, <3>5
      <3>7. QED BY <1>3, <3>6
    <2>2. QED BY <2>1
  <1>8. QED BY <1>6, <1>7, FS_Subset

LEMMA RecordIsTold ==
  ASSUME NEW tables, NEW runs, Agree(tables, runs), Written(tables, runs), NEW x \in DOMAIN tables.executions,
         NEW ex, ex = tables.executions[x]
  PROVE  /\ x \in Executions /\ ex.execution_id = x /\ ex.workflow_type = Workflows[x] /\ ex.created_at = Born[x]
         /\ {"execution_id", "workflow_type", "status", "created_at"} \subseteq DOMAIN ex
         /\ IsSeq(ex.trace_timeline)
  <1>1. "executions" \in WrittenTables /\ x \in DOMAIN tables["executions"] /\ ex = tables["executions"][x]
    BY DEF WrittenTables
  <1>2. PICK y, w, known :
          /\ y \in Executions /\ w.table = "executions" /\ w.key = x /\ w.row = ex
          /\ Fits(w, y, runs[y].tenant, known)
    BY <1>1, RowIsTold
  <1>3. /\ x = y /\ ex.execution_id = x /\ ex.workflow_type = Workflows[x] /\ ex.created_at = Born[x]
        /\ {"execution_id", "workflow_type", "status", "created_at"} \subseteq DOMAIN ex
    BY <1>2 DEF Fits
  <1>4. IsSeq(ex.trace_timeline)
    BY ExecutionTells
  <1>5. QED BY <1>2, <1>3, <1>4

LEMMA StepIsTold ==
  ASSUME NEW tables, NEW runs, Agree(tables, runs), Written(tables, runs), NEW k \in DOMAIN tables.steps
  PROVE  \E x, n : x \in Executions /\ tables.steps[k].execution_id = x /\ k = StepId(x, n)
  <1>1. "steps" \in WrittenTables /\ k \in DOMAIN tables["steps"]
    BY DEF WrittenTables
  <1>2. PICK row : row = tables["steps"][k]
    OBVIOUS
  <1>3. PICK x, w, known :
          /\ x \in Executions /\ w.table = "steps" /\ w.key = k /\ w.row = row
          /\ Fits(w, x, runs[x].tenant, known)
    BY <1>1, <1>2, RowIsTold
  <1>4. row.execution_id = x /\ \E n : k = StepId(x, n)
    BY <1>3 DEF Fits
  <1>5. PICK n : k = StepId(x, n)
    BY <1>4
  <1>6. x \in Executions /\ tables.steps[k].execution_id = x
    BY <1>2, <1>3, <1>4
  <1>7. QED BY <1>5, <1>6

LEMMA CallIsTold ==
  ASSUME NEW tables, NEW runs, Agree(tables, runs), Written(tables, runs), NEW k \in DOMAIN tables.tool_calls,
         NEW call, call = tables.tool_calls[k]
  PROVE  /\ {"step_id", "tool_name", "status"} \subseteq DOMAIN call
         /\ call.step_id \in DOMAIN tables.steps
         /\ tables.steps[call.step_id].execution_id = call.execution_id
  <1>1. "tool_calls" \in WrittenTables /\ k \in DOMAIN tables["tool_calls"] /\ call = tables["tool_calls"][k]
    BY DEF WrittenTables
  <1>2. PICK x, w, known :
          /\ x \in Executions /\ w.table = "tool_calls" /\ w.key = k /\ w.row = call
          /\ Fits(w, x, runs[x].tenant, known) /\ \A id \in known : Has(tables, id)
    BY ONLY Agree(tables, runs), Written(tables, runs), <1>1, RowIsTold
  <1>3. call.execution_id = x /\ {"step_id", "tool_name", "status"} \subseteq DOMAIN call
    BY <1>2 DEF Fits
  <1>4. PICK n : call.step_id = StepId(x, n)
    BY <1>2 DEF Fits
  <1>5. call.step_id \in DOMAIN tables.steps
    <2>1. PICK fk : fk = <<"step_id", "steps">>
      OBVIOUS
    <2>2. fk \in ForeignKeys["tool_calls"] /\ fk[1] = "step_id" /\ fk[2] = "steps"
      BY <2>1 DEF ForeignKeys
    <2>3. <<fk[2], call[fk[1]]>> \in known
      BY <1>2, <1>3, <2>2 DEF Fits
    <2>4. PICK id : id = <<"steps", call.step_id>>
      OBVIOUS
    <2>5. id \in known /\ id[1] = "steps" /\ id[2] = call.step_id
      BY <2>2, <2>3, <2>4
    <2>6. Has(tables, id)
      BY <1>2, <2>5
    <2>7. QED BY <2>5, <2>6 DEF Has
  <1>6. PICK z, m :
          z \in Executions /\ tables.steps[call.step_id].execution_id = z /\ call.step_id = StepId(z, m)
    BY <1>5, StepIsTold
  <1>7. z = x
    BY <1>4, <1>6 DEF StepId
  <1>8. QED BY <1>3, <1>5, <1>6, <1>7

(***************************************************************************)
(* When no two executions are created at the same time, a listing can come *)
(* out in one way only.                                                    *)
(***************************************************************************)
BornApart == Born \in [Executions -> Int] /\ \A x, y \in Executions : Born[x] = Born[y] => x = y

LEMMA OneListing ==
  ASSUME NEW rows, NEW wanted, IsFiniteSet(wanted),
         \A x \in wanted : rows[x].created_at \in Int,
         \A x, y \in wanted : rows[x].created_at = rows[y].created_at => x = y
  PROVE  \E n \in Nat : \E p :
           /\ p \in [1 .. n -> wanted] /\ \A i, j \in 1 .. n : p[i] = p[j] => i = j
           /\ \A all \in Listings("postgres", rows, wanted, Newer) : all = [i \in 1 .. n |-> rows[p[i]]]
  <1>1. PICK n \in Nat : n = Cardinality(wanted)
    BY FS_CardinalityType
  <1>2. PICK v : v = [x \in wanted |-> rows[x].created_at]
    OBVIOUS
  <1>3. v \in [wanted -> Int] /\ \A x, y \in wanted : v[x] = v[y] => x = y
    BY <1>2
  <1>4. ASSUME NEW all \in Listings("postgres", rows, wanted, Newer)
        PROVE  \E p : Falling(p, n, wanted, v) /\ all = [i \in 1 .. n |-> rows[p[i]]]
    <2>1. PICK p \in Bijection(1 .. n, wanted) :
            /\ all = [i \in 1 .. n |-> rows[p[i]]]
            /\ \A i, j \in 1 .. n : i < j => \/ Newer(rows[p[i]], rows[p[j]])
                                            \/ ~ Newer(rows[p[j]], rows[p[i]])
      BY <1>1 DEF Listings
    <2>2. /\ p \in [1 .. n -> wanted] /\ \A i, j \in 1 .. n : p[i] = p[j] => i = j
          /\ \A x \in wanted : \E j \in 1 .. n : p[j] = x
      <3>1. p \in Injection(1 .. n, wanted) /\ p \in Surjection(1 .. n, wanted)
        BY DEF Bijection
      <3>2. p \in [1 .. n -> wanted] /\ \A i, j \in 1 .. n : p[i] = p[j] => i = j
        BY <3>1 DEF Injection, IsInjective
      <3>3. \A x \in wanted : \E j \in 1 .. n : p[j] = x
        BY <3>1 DEF Surjection
      <3>4. QED BY <3>2, <3>3
    <2>3. ASSUME NEW i \in 1 .. n, NEW j \in 1 .. n, i < j PROVE v[p[j]] < v[p[i]]
      <3>1. PICK x \in wanted, y \in wanted : x = p[i] /\ y = p[j]
        BY <2>2
      <3>2. x # y
        BY <2>2, <2>3, <3>1
      <3>3. PICK a \in Int, b \in Int : a = v[x] /\ b = v[y] /\ a # b
        BY <1>3, <3>2
      <3>4. rows[x].created_at = a /\ rows[y].created_at = b
        BY <1>2, <3>3
      <3>5. Newer(rows[x], rows[y]) \/ ~ Newer(rows[y], rows[x])
        BY <2>1, <2>3, <3>1
      <3>6. b < a \/ ~ (a < b)
        BY <3>4, <3>5 DEF Newer
      <3>7. QED BY <3>1, <3>3, <3>6
    <2>4. QED BY <2>1, <2>2, <2>3 DEF Falling
  <1>5. ASSUME NEW p, NEW q, Falling(p, n, wanted, v), Falling(q, n, wanted, v) PROVE p = q
    BY <1>3, <1>5, OneOrder
  <1>6. CASE \E p : Falling(p, n, wanted, v)
    <2>1. PICK p : Falling(p, n, wanted, v)
      BY <1>6
    <2>2. ASSUME NEW all \in Listings("postgres", rows, wanted, Newer) PROVE all = [i \in 1 .. n |-> rows[p[i]]]
      BY <1>4, <1>5, <2>1
    <2>3. p \in [1 .. n -> wanted] /\ \A i, j \in 1 .. n : p[i] = p[j] => i = j
      BY <2>1 DEF Falling
    <2>4. QED BY <2>2, <2>3
  <1>7. CASE ~ \E p : Falling(p, n, wanted, v)
    <2>1. Listings("postgres", rows, wanted, Newer) = {}
      BY <1>4, <1>7
    <2>2. PICK m \in Nat : m = 0
      OBVIOUS
    <2>3. PICK none : none = [i \in 1 .. m |-> CHOOSE x \in wanted : TRUE]
      OBVIOUS
    <2>4. \A i \in 1 .. m : FALSE
      BY <2>2
    <2>5. none \in [1 .. m -> wanted] /\ \A i, j \in 1 .. m : none[i] = none[j] => i = j
      BY <2>3, <2>4
    <2>6. QED BY <2>1, <2>5
  <1>8. QED BY <1>6, <1>7

\* The names of what a request lists.
OnlyListed(names) ==
  /\ IsSeq(names) /\ \A i, j \in DOMAIN names : names[i] = names[j] => i = j
  /\ \A x \in ToSet(names) : x \in DOMAIN db.executions
  /\ \A a \in ListScope : IsSeq(a) /\ Names(a) = names
  /\ \A a, b \in ListScope : a = b

\* A request lists each execution once, and again the same ones while nothing is written.
LEMMA ScopeIsOne ==
  ASSUME BornApart, Agree(db, run), Written(db, run), NEW limit \in Int, limit = request.limit
  PROVE  \E names : OnlyListed(names)
  <1>1. PICK rows : rows = [x \in DOMAIN db.executions |-> With(db.executions[x], "tenant", TenantOf(x))]
    OBVIOUS
  <1>2. PICK tenant, workflow : tenant = request.id.tenant /\ workflow = request.workflow
    OBVIOUS
  <1>3. PICK wanted : wanted = {x \in DOMAIN rows : /\ tenant \in {"any", rows[x].tenant}
                                                  /\ workflow \in {"any", rows[x].workflow_type}
                                                  /\ "any" \in {"any", rows[x].status}}
    OBVIOUS
  <1>4. \A listing \in ListScope : \E all \in Listings("postgres", rows, wanted, Newer) : listing = Limited(all, limit)
    BY <1>1, <1>2, <1>3 DEF ListScope, ListExecutions
  <1>5. PICK tables, runs : tables = db /\ runs = run
    OBVIOUS
  <1>6. Agree(tables, runs) /\ Written(tables, runs)
    BY <1>5
  <1>7. wanted \subseteq DOMAIN db.executions /\ DOMAIN db.executions \subseteq Executions
    BY <1>1, <1>3, <1>5, <1>6, ExecutionsKnown
  <1>8. IsFiniteSet(wanted)
    <2>1. wanted \subseteq Executions
      BY <1>7
    <2>2. QED BY <2>1, ExecutionsAssumption, FS_Subset
  <1>9. ASSUME NEW x \in wanted PROVE rows[x].created_at = Born[x] /\ rows[x].execution_id = x
    <2>1. PICK ex, whose : ex = tables.executions[x] /\ whose = TenantOf(x)
      OBVIOUS
    <2>2. rows[x] = With(ex, "tenant", whose)
      BY <1>1, <1>5, <1>7, <2>1
    <2>3. ex.execution_id = x /\ ex.created_at = Born[x] /\ {"execution_id", "created_at"} \subseteq DOMAIN ex
      <3>1. x \in DOMAIN tables.executions
        BY <1>5, <1>7
      <3>2. QED BY <1>6, <2>1, <3>1, RecordIsTold
    <2>4. \A f \in DOMAIN ex \ {"tenant"} : With(ex, "tenant", whose)[f] = ex[f]
      BY DEF With, Merged
    <2>5. QED BY <2>2, <2>3, <2>4
  <1>10. /\ \A x \in wanted : rows[x].created_at \in Int
         /\ \A x, y \in wanted : rows[x].created_at = rows[y].created_at => x = y
    BY <1>7, <1>9 DEF BornApart
  <1>11. PICK n \in Nat : \E p :
           /\ p \in [1 .. n -> wanted] /\ \A i, j \in 1 .. n : p[i] = p[j] => i = j
           /\ \A all \in Listings("postgres", rows, wanted, Newer) : all = [i \in 1 .. n |-> rows[p[i]]]
    BY <1>8, <1>10, OneListing
  <1>12. PICK p, whole :
           /\ p \in [1 .. n -> wanted] /\ \A i, j \in 1 .. n : p[i] = p[j] => i = j
           /\ \A all \in Listings("postgres", rows, wanted, Newer) : all = [i \in 1 .. n |-> rows[p[i]]]
           /\ whole = [i \in 1 .. n |-> rows[p[i]]]
    BY <1>11
  <1>13. PICK m \in 0 .. n : Limited(whole, limit) = [i \in 1 .. m |-> whole[i]]
    <2>1. PICK least \in Nat : least = 1
      OBVIOUS
    <2>2. PICK upper \in Int : upper = 500
      OBVIOUS
    <2>3. PICK m : m = Min({n, Max({least, Min({limit, upper})})})
      OBVIOUS
    <2>4. m \in 0 .. n
      BY <2>3, Bounds
    <2>5. Len(whole) = n /\ SubSeq(whole, 1, m) = [i \in 1 .. m |-> whole[i]]
      <3>1. whole = [i \in 1 .. n |-> whole[i]]
        BY <1>12
      <3>2. QED BY <2>4, <3>1, FirstPart
    <2>6. Limited(whole, limit) = SubSeq(whole, 1, m)
      BY <2>1, <2>2, <2>3, <2>5 DEF Limited
    <2>7. QED BY <2>4, <2>5, <2>6
  <1>14. PICK listing : listing = [i \in 1 .. m |-> whole[i]]
    OBVIOUS
  <1>15. \A a \in ListScope : a = listing
    BY <1>4, <1>12, <1>13, <1>14
  <1>16. m \in Nat /\ \A i \in 1 .. m : i \in 1 .. n
    OBVIOUS
  <1>17. IsSeq(listing) /\ DOMAIN listing = 1 .. m
    <2>1. listing = [i \in 1 .. m |-> listing[i]]
      BY <1>14
    <2>2. QED BY <1>16, <2>1, SeqByPlaces
  <1>18. PICK names : names = Names(listing)
    OBVIOUS
  <1>19. names = [i \in 1 .. m |-> names[i]] /\ \A i \in 1 .. m : names[i] = p[i] /\ p[i] \in wanted
    BY <1>9, <1>12, <1>14, <1>16, <1>17, <1>18 DEF Names
  <1>20. IsSeq(names) /\ DOMAIN names = 1 .. m /\ Len(names) = m
    BY <1>16, <1>19, SeqByPlaces
  <1>21. \A i, j \in 1 .. m : names[i] = names[j] => i = j
    BY <1>12, <1>16, <1>19
  <1>22. \A x \in ToSet(names) : x \in DOMAIN db.executions
    BY <1>7, <1>19, <1>20 DEF ToSet
  <1>23. \A a \in ListScope : IsSeq(a) /\ Names(a) = names
    BY <1>15, <1>17, <1>18
  <1>24. \A a, b \in ListScope : a = b
    BY <1>15
  <1>25. OnlyListed(names)
    BY <1>20, <1>21, <1>22, <1>23, <1>24 DEF OnlyListed
  <1>26. QED BY <1>25

(***************************************************************************)
(* What is said of a request as long as nothing is written.                *)
(***************************************************************************)
Untouched == db' = db /\ changed' = changed

LEMMA SameReads ==
  ASSUME Untouched
  PROVE  /\ \A x : StepsRead(x)' = StepsRead(x) /\ VerdictsRead(x)' = VerdictsRead(x)
         /\ \A steps : ResultsRead(steps)' = ResultsRead(steps) /\ ToolsRead(steps)' = ToolsRead(steps)
         /\ \A x : PartsOf(x)' = PartsOf(x)
  <1>1. ASSUME NEW x PROVE StepsRead(x)' = StepsRead(x)
    BY DEF Untouched, StepsRead, RowsOf
  <1>2. ASSUME NEW x PROVE VerdictsRead(x)' = VerdictsRead(x)
    BY DEF Untouched, VerdictsRead, RowsOf
  <1>3. ASSUME NEW steps PROVE ResultsRead(steps)' = ResultsRead(steps)
    BY DEF Untouched, ResultsRead
  <1>4. ASSUME NEW steps PROVE ToolsRead(steps)' = ToolsRead(steps)
    BY DEF Untouched, ToolsRead
  <1>5. ASSUME NEW x PROVE PartsOf(x)' = PartsOf(x)
    <2>1. PICK steps : steps = StepsRead(x)
      OBVIOUS
    <2>2. PICK now : now = PartsOf(x)
      OBVIOUS
    <2>3. now = [execution |-> db.executions[x], steps |-> steps, results |-> ResultsRead(steps),
                 tools |-> ToolsRead(steps), decisions |-> VerdictsRead(x)]
      BY <2>1, <2>2 DEF PartsOf
    <2>4. PartsOf(x)' = [execution |-> db.executions[x], steps |-> steps, results |-> ResultsRead(steps),
                         tools |-> ToolsRead(steps), decisions |-> VerdictsRead(x)]'
      <3>1. StepsRead(x)' = steps
        BY <1>1, <2>1
      <3>2. QED BY <3>1 DEF PartsOf
    <2>5. [execution |-> db.executions[x], steps |-> steps, results |-> ResultsRead(steps),
           tools |-> ToolsRead(steps), decisions |-> VerdictsRead(x)]' = now
      BY <1>2, <1>3, <1>4, <2>3 DEF Untouched
    <2>6. QED BY <2>2, <2>4, <2>5
  <1>6. QED BY <1>1, <1>2, <1>3, <1>4, <1>5

LEMMA SameRows ==
  ASSUME Untouched
  PROVE  /\ \A scope : DecisionsOf(scope)' = DecisionsOf(scope) /\ DenialsOf(scope)' = DenialsOf(scope)
         /\ \A tool, scope : CallsOf(tool, scope)' = CallsOf(tool, scope)
         /\ \A tool, scope : FailuresOf(tool, scope)' = FailuresOf(tool, scope)
         /\ \A w, scope : FailedRuns(w, scope)' = FailedRuns(w, scope)
  <1>1. ASSUME NEW scope PROVE DecisionsOf(scope)' = DecisionsOf(scope)
    BY DEF Untouched, DecisionsOf
  <1>2. ASSUME NEW scope PROVE DenialsOf(scope)' = DenialsOf(scope)
    BY DEF Untouched, DenialsOf, DecisionsOf
  <1>3. ASSUME NEW tool, NEW scope PROVE CallsOf(tool, scope)' = CallsOf(tool, scope)
    BY DEF Untouched, CallsOf
  <1>4. ASSUME NEW tool, NEW scope PROVE FailuresOf(tool, scope)' = FailuresOf(tool, scope)
    BY DEF Untouched, FailuresOf, CallsOf
  <1>5. ASSUME NEW w, NEW scope PROVE FailedRuns(w, scope)' = FailedRuns(w, scope)
    BY DEF Untouched, FailedRuns, RunsOf
  <1>6. QED BY <1>1, <1>2, <1>3, <1>4, <1>5

LEMMA SameTelling ==
  ASSUME Untouched, NEW agg, NEW scope, Tells(agg, scope)
  PROVE  Tells(agg, scope)'
  <1>1. PICK calls : calls = db.tool_calls
    OBVIOUS
  <1>2. db'.tool_calls = calls
    BY <1>1 DEF Untouched
  <1>3. \A x \in scope :
       LET w == Workflows[x]
       IN  /\ w \in DOMAIN agg.by_workflow
           /\ agg.by_workflow[w].execution_count = Cardinality(RunsOf(w, scope))
           /\ agg.by_workflow[w].failed = Cardinality(FailedRuns(w, scope)')
    BY SameRows, Zenon DEF Tells
  <1>4. /\ Total(agg.by_decision) = Cardinality(DecisionsOf(scope)')
        /\ "deny" \in DOMAIN agg.by_decision <=> DenialsOf(scope)' # {}
        /\ DenialsOf(scope)' # {} => agg.by_decision["deny"] = Cardinality(DenialsOf(scope)')
    BY SameRows, Zenon DEF Tells
  <1>5. \A t \in {calls[k].tool_name : k \in DOMAIN calls} :
       /\ t \in DOMAIN agg.by_tool <=> CallsOf(t, scope)' # {}
       /\ CallsOf(t, scope)' # {} =>
            /\ agg.by_tool[t].invocations = Cardinality(CallsOf(t, scope)')
            /\ agg.by_tool[t].failures = Cardinality(FailuresOf(t, scope)')
    <2>1. ASSUME NEW t \in {calls[k].tool_name : k \in DOMAIN calls}
          PROVE  /\ t \in DOMAIN agg.by_tool <=> CallsOf(t, scope)' # {}
                 /\ CallsOf(t, scope)' # {} =>
                      /\ agg.by_tool[t].invocations = Cardinality(CallsOf(t, scope)')
                      /\ agg.by_tool[t].failures = Cardinality(FailuresOf(t, scope)')
      <3>1. PICK all, failed : all = CallsOf(t, scope) /\ failed = FailuresOf(t, scope)
        OBVIOUS
      <3>2. CallsOf(t, scope)' = all /\ FailuresOf(t, scope)' = failed
        BY <3>1, SameRows
      <3>3. /\ t \in DOMAIN agg.by_tool <=> all # {}
            /\ all # {} => /\ agg.by_tool[t].invocations = Cardinality(all)
                           /\ agg.by_tool[t].failures = Cardinality(failed)
        BY <1>1, <3>1 DEF Tells
      <3>4. QED BY <3>2, <3>3, Zenon
    <2>2. QED BY <2>1
  <1>6. QED BY <1>2, <1>3, <1>4, <1>5, Zenon DEF Tells

LEMMA SameRead ==
  ASSUME Untouched, NEW x, NEW read, ReadIsTrue(x, read)
  PROVE  ReadIsTrue(x, read)'
  <1>1. PICK parts : parts = PartsOf(x)
    OBVIOUS
  <1>2. PartsOf(x)' = parts
    BY <1>1, SameReads
  <1>3. db'.executions[x].status = db.executions[x].status /\ changed' = changed
    BY DEF Untouched
  <1>4. ~ changed => \A part \in ReadBefore[read.part] : read[part] = parts[part]
    BY <1>1, Zenon DEF ReadIsTrue
  <1>5. QED BY <1>2, <1>3, <1>4, Zenon DEF ReadIsTrue

LEMMA SameMetrics ==
  ASSUME Untouched, NEW m, MetricsAreTrue(m)
  PROVE  MetricsAreTrue(m)'
  <1>1. PICK parts : parts = PartsOf(m.execution_id)
    OBVIOUS
  <1>2. PartsOf(m.execution_id)' = parts
    BY <1>1, SameReads
  <1>3. db'.executions[m.execution_id].status = db.executions[m.execution_id].status /\ changed' = changed
    BY DEF Untouched
  <1>4. ~ changed => m = ExecutionMetrics(m.execution_id, parts)
    BY <1>1, Zenon DEF MetricsAreTrue
  <1>5. QED BY <1>2, <1>3, <1>4, Zenon DEF MetricsAreTrue

LEMMA SameLoaded ==
  ASSUME Untouched, NEW req, LoadedIsTrue(req)
  PROVE  LoadedIsTrue(req)'
  <1>1. /\ req.pc \in {"load", "tools"} /\ ~ changed' =>
             \A x \in DOMAIN req.loaded :
               req.loaded[x].steps = StepsRead(x)' /\ req.loaded[x].tools = (ToolsRead(StepsRead(x)))'
    <2>1. ASSUME NEW x PROVE StepsRead(x)' = StepsRead(x) /\ (ToolsRead(StepsRead(x)))' = ToolsRead(StepsRead(x))
      <3>1. PICK steps : steps = StepsRead(x)
        OBVIOUS
      <3>2. StepsRead(x)' = steps /\ ToolsRead(steps)' = ToolsRead(steps)
        BY <3>1, SameReads
      <3>3. (ToolsRead(StepsRead(x)))' = ToolsRead(steps)'
        BY <3>2 DEF ToolsRead
      <3>4. QED BY <3>1, <3>2, <3>3
    <2>2. QED BY <2>1 DEF LoadedIsTrue, Untouched
  <1>2. req.pc = "tools" => "steps" \in DOMAIN req.read
    BY DEF LoadedIsTrue
  <1>3. req.pc = "tools" /\ ~ changed' => req.read.steps = StepsRead(Head(req.todo))'
    <2>1. PICK x : x = Head(req.todo)
      OBVIOUS
    <2>2. req.pc = "tools" /\ ~ changed => req.read.steps = StepsRead(x)
      BY <2>1 DEF LoadedIsTrue
    <2>3. StepsRead(x)' = StepsRead(x)
      BY SameReads
    <2>4. QED BY <2>1, <2>2, <2>3 DEF Untouched
  <1>4. QED BY <1>1, <1>2, <1>3, Zenon DEF LoadedIsTrue

LEMMA SameFailures ==
  ASSUME Untouched, NEW agg, FailuresAreStored(agg)
  PROVE  FailuresAreStored(agg)'
  <1>1. PICK all : all = DOMAIN db.executions
    OBVIOUS
  <1>2. \A w : FailedRuns(w, all)' = FailedRuns(w, all)
    BY SameRows
  <1>3. DOMAIN db'.executions = all
    BY <1>1 DEF Untouched
  <1>4. \A w : FailedRuns(w, DOMAIN db.executions)' = FailedRuns(w, all)'
    BY <1>3 DEF FailedRuns
  <1>5. QED BY <1>1, <1>2, <1>4 DEF FailuresAreStored

LEMMA SameRollup ==
  ASSUME Untouched, NEW agg, NEW scope, RollupIsTrue(agg, scope)
  PROVE  RollupIsTrue(agg, scope)'
  <1>1. FailuresAreStored(agg)'
    BY SameFailures DEF RollupIsTrue
  <1>2. ~ changed' => \E rows \in scope : Tells(agg, ToSet(Names(rows)))'
    BY SameTelling DEF RollupIsTrue, Untouched
  <1>3. QED BY <1>1, <1>2, Zenon DEF RollupIsTrue

LEMMA SameSummary ==
  ASSUME Untouched, NEW req, NEW scope, SummaryIsTrue(req, scope)
  PROVE  SummaryIsTrue(req, scope)'
  <1>1. changed' = changed
    BY DEF Untouched
  <1>2. \A i \in DOMAIN req.per : MetricsAreTrue(req.per[i]) => MetricsAreTrue(req.per[i])'
    BY SameMetrics
  <1>3. ReadIsTrue(Head(req.todo), req.read) => ReadIsTrue(Head(req.todo), req.read)'
    BY SameRead
  <1>4. LoadedIsTrue(req)'
    BY SameLoaded DEF SummaryIsTrue
  <1>5. "agg" \in DOMAIN req => RollupIsTrue(req.agg, scope)'
    BY SameRollup DEF SummaryIsTrue
  <1>6. QED BY <1>1, <1>2, <1>3, <1>4, <1>5, Zenon DEF SummaryIsTrue

\* The listings to come are those of the same caller and filters.
LEMMA SameScope ==
  ASSUME Untouched, NEW req, request = req, NEW next, request' = next,
         next.id = req.id, next.workflow = req.workflow, next.limit = req.limit
  PROVE  ListScope' = ListScope
  BY DEF Untouched, ListScope, TenantOf

(***************************************************************************)
(* What an anomaly report claims.                                          *)
(***************************************************************************)
IsReport(req) == req.pc = "done" /\ req.code = 200 /\ req.kind = "anomalies"

LEMMA SoundMeans == EvaluationIsSound <=> (IsReport(request) => ReportIsTrue(request))
  BY DEF EvaluationIsSound, Answered, IsReport

LEMMA SoundMeansThen ==
  ASSUME NEW next, request' = next, IsReport(next) => ReportIsTrue(next)'
  PROVE  EvaluationIsSound'
  <1>1. EvaluationIsSound' <=> (IsReport(request') => ReportIsTrue(request)')
    BY DEF EvaluationIsSound, Answered, IsReport
  <1>2. ReportIsTrue(next)' => ReportIsTrue(request)'
    BY DEF ReportIsTrue
  <1>3. QED BY <1>1, <1>2

LEMMA SameReport ==
  ASSUME Untouched, NEW req, ReportIsTrue(req)
  PROVE  ReportIsTrue(req)'
  <1>1. PICK scope, flags, agg : scope = InReport(req) /\ flags = req.anomalies /\ agg = req.agg
    OBVIOUS
  <1>2. \A w \in DOMAIN agg.by_workflow :
          agg.by_workflow[w].failed <= Cardinality(FailedRuns(w, DOMAIN db.executions)')
    <2>1. PICK all : all = DOMAIN db.executions
      OBVIOUS
    <2>2. \A w : FailedRuns(w, all)' = FailedRuns(w, all)
      BY SameRows
    <2>3. DOMAIN db'.executions = all
      BY <2>1 DEF Untouched
    <2>4. \A w : FailedRuns(w, DOMAIN db.executions)' = FailedRuns(w, all)'
      BY <2>3 DEF FailedRuns
    <2>5. QED BY <1>1, <2>1, <2>2, <2>4 DEF ReportIsTrue
  <1>3. FlagsAreExact(flags, scope) => FlagsAreExact(flags, scope)'
    <2>1. PICK denials, decisions : denials = DenialsOf(scope) /\ decisions = DecisionsOf(scope)
      OBVIOUS
    <2>2. DenialsOf(scope)' = denials /\ DecisionsOf(scope)' = decisions
      BY <2>1, SameRows
    <2>3. \A w : FailedRuns(w, scope)' = FailedRuns(w, scope)
      BY SameRows
    <2>4. \A t : CallsOf(t, scope)' = CallsOf(t, scope) /\ FailuresOf(t, scope)' = FailuresOf(t, scope)
      BY SameRows
    <2>5. PICK tools : tools = db.tool_calls
      OBVIOUS
    <2>6. db'.tool_calls = tools
      BY <2>5 DEF Untouched
    <2> SUFFICES ASSUME FlagsAreExact(flags, scope) PROVE FlagsAreExact(flags, scope)'
      OBVIOUS
    <2>7. \A x \in scope :
            <<"elevated_execution_failure_rate", Workflows[x]>> \in flags <=>
              /\ Cardinality(RunsOf(Workflows[x], scope)) >= MinExecutions
              /\ 20 * Cardinality(FailedRuns(Workflows[x], scope)') >= 7 * Cardinality(RunsOf(Workflows[x], scope))
      BY <2>3, Zenon DEF FlagsAreExact
    <2>8. <<"high_policy_deny_share", "deny">> \in flags <=>
            /\ Cardinality(DenialsOf(scope)') > 0 /\ Cardinality(DecisionsOf(scope)') >= MinEvaluations
            /\ 4 * Cardinality(DenialsOf(scope)') >= Cardinality(DecisionsOf(scope)')
      BY <2>1, <2>2, Zenon DEF FlagsAreExact
    <2>9. \A t \in {tools[k].tool_name : k \in DOMAIN tools} :
            <<"repeated_tool_failures", t>> \in flags <=>
              /\ Cardinality(CallsOf(t, scope)') >= MinInvocations
              /\ 2 * Cardinality(FailuresOf(t, scope)') >= Cardinality(CallsOf(t, scope)')
      <3>1. ASSUME NEW t \in {tools[k].tool_name : k \in DOMAIN tools}
            PROVE  <<"repeated_tool_failures", t>> \in flags <=>
                     /\ Cardinality(CallsOf(t, scope)') >= MinInvocations
                     /\ 2 * Cardinality(FailuresOf(t, scope)') >= Cardinality(CallsOf(t, scope)')
        <4>1. PICK all, failed : all = CallsOf(t, scope) /\ failed = FailuresOf(t, scope)
          OBVIOUS
        <4>2. CallsOf(t, scope)' = all /\ FailuresOf(t, scope)' = failed
          BY <2>4, <4>1
        <4>3. <<"repeated_tool_failures", t>> \in flags <=>
                Cardinality(all) >= MinInvocations /\ 2 * Cardinality(failed) >= Cardinality(all)
          BY <2>5, <4>1, Zenon DEF FlagsAreExact
        <4>4. QED BY <4>2, <4>3, Zenon
      <3>2. QED BY <3>1
    <2>10. QED BY <2>6, <2>7, <2>8, <2>9, Zenon DEF FlagsAreExact
  <1>4. QED BY <1>1, <1>2, <1>3, Zenon DEF ReportIsTrue, Untouched

\* A request that is about a summary, and one that answers with one.
IsSummary(req) == req.pc # "idle" /\ req.code = 200 /\ req.kind \in {"aggregated", "anomalies"}

LEMMA EvaluationMeans ==
  EvaluationInv <=> /\ IsSummary(request) => SummaryIsTrue(request, ListScope)
                    /\ IsReport(request) => ReportIsTrue(request)
  BY SoundMeans DEF EvaluationInv, IsSummary

LEMMA EvaluationMeansThen ==
  ASSUME NEW next, request' = next, NEW scope, ListScope' = scope,
         IsSummary(next) => SummaryIsTrue(next, scope)', IsReport(next) => ReportIsTrue(next)'
  PROVE  EvaluationInv'
  <1>1. EvaluationIsSound'
    BY SoundMeansThen
  <1>2. SummaryIsTrue(next, scope)' => SummaryIsTrue(request, ListScope)'
    BY DEF SummaryIsTrue, LoadedIsTrue
  <1>3. QED BY <1>1, <1>2 DEF EvaluationInv, IsSummary

LEMMA OnwardsEvaluates ==
  ASSUME Untouched, NEW req, request = req, NEW next, request' = next,
         IsSummary(next) => /\ SummaryIsTrue(next, ListScope)
                            /\ next.id = req.id /\ next.workflow = req.workflow /\ next.limit = req.limit,
         IsReport(next) => ReportIsTrue(next)
  PROVE  EvaluationInv'
  <1>1. IsReport(next) => ReportIsTrue(next)'
    BY SameReport
  <1>2. PICK scope, after : scope = ListScope /\ after = ListScope'
    OBVIOUS
  <1>3. IsSummary(next) => SummaryIsTrue(next, after)'
    <2>1. CASE IsSummary(next)
      <3>1. after = scope
        BY <1>2, <2>1, SameScope
      <3>2. SummaryIsTrue(next, scope)
        BY <1>2, <2>1
      <3>3. QED BY <3>1, <3>2, SameSummary
    <2>2. QED BY <2>1
  <1>4. QED BY <1>1, <1>2, <1>3, EvaluationMeansThen

LEMMA OthersEvaluate ==
  ASSUME EvaluationInv, Untouched, request' = request
  PROVE  EvaluationInv'
  <1>1. PICK req : req = request
    OBVIOUS
  <1>2. /\ IsSummary(req) => SummaryIsTrue(req, ListScope)
        /\ IsReport(req) => ReportIsTrue(req)
    BY <1>1, EvaluationMeans
  <1>3. QED BY <1>1, <1>2, OnwardsEvaluates

\* A request that is about something else claims nothing.
LEMMA OtherRequestsEvaluate ==
  ASSUME NEW next, request' = next, ~ IsSummary(next)
  PROVE  EvaluationInv'
  <1>1. ~ IsReport(next)
    BY DEF IsReport, IsSummary
  <1>2. PICK scope : scope = ListScope'
    OBVIOUS
  <1>3. QED BY <1>1, <1>2, EvaluationMeansThen

(***************************************************************************)
(* A write: what failed has still failed.                                  *)
(***************************************************************************)
LEMMA FailuresStay ==
  ASSUME Better(db, db'), DOMAIN db'.executions \subseteq Executions, NEW w
  PROVE  /\ Cardinality(FailedRuns(w, DOMAIN db.executions)) <= Cardinality(FailedRuns(w, DOMAIN db.executions)')
         /\ Cardinality(FailedRuns(w, DOMAIN db.executions)) \in Nat
         /\ Cardinality(FailedRuns(w, DOMAIN db.executions)') \in Nat
  <1>1. PICK before : before = FailedRuns(w, DOMAIN db.executions)
    OBVIOUS
  <1>2. PICK after : after = FailedRuns(w, DOMAIN db.executions)'
    OBVIOUS
  <1>3. before \subseteq after
    <2>1. ASSUME NEW x \in before PROVE x \in after
      <3>1. x \in DOMAIN db.executions /\ Workflows[x] = w /\ db.executions[x].status = "failed"
        BY <1>1, <2>1 DEF FailedRuns, RunsOf
      <3>2. x \in DOMAIN db'.executions /\ db'.executions[x].status = "failed"
        BY <3>1 DEF Better, Final
      <3>3. QED BY <1>2, <3>1, <3>2 DEF FailedRuns, RunsOf
    <2>2. QED BY <2>1
  <1>4. IsFiniteSet(after)
    <2>1. after \subseteq Executions
      BY <1>2 DEF FailedRuns, RunsOf
    <2>2. QED BY <2>1, ExecutionsAssumption, FS_Subset
  <1>5. QED BY <1>1, <1>2, <1>3, <1>4, FS_Subset, FS_CardinalityType

LEMMA RollupsStay ==
  ASSUME Better(db, db'), DOMAIN db'.executions \subseteq Executions, NEW agg, FailuresAreStored(agg)
  PROVE  FailuresAreStored(agg)'
  <1>1. ASSUME NEW w \in DOMAIN agg.by_workflow
        PROVE  agg.by_workflow[w].failed \in 0..Cardinality(FailedRuns(w, DOMAIN db.executions)')
    <2>1. PICK b \in Nat, c \in Nat :
            /\ b = Cardinality(FailedRuns(w, DOMAIN db.executions))
            /\ c = Cardinality(FailedRuns(w, DOMAIN db.executions)') /\ b <= c
      BY FailuresStay
    <2>2. agg.by_workflow[w].failed \in 0..b
      BY <2>1 DEF FailuresAreStored
    <2>3. 0..b \subseteq 0..c
      BY <2>1
    <2>4. QED BY <2>1, <2>2, <2>3
  <1>2. QED BY <1>1, Zenon DEF FailuresAreStored

\* A write is after whatever was read, and nothing need be up to date any more.
LEMMA WritersEvaluate ==
  ASSUME EvaluationInv, Better(db, db'), DOMAIN db'.executions \subseteq Executions,
         NEW req, request = req, request' = req, changed' = TRUE,
         NEW own, IsSummary(req) => Rightful(req, own), own \subseteq DOMAIN db.executions
  PROVE  EvaluationInv'
  <1>1. PICK after : after = ListScope'
    OBVIOUS
  <1>2. CASE ~ IsSummary(req)
    BY <1>2, OtherRequestsEvaluate
  <1>3. CASE IsSummary(req)
    <2>1. SummaryIsTrue(req, ListScope) /\ Rightful(req, own)
      BY <1>3, EvaluationMeans
    <2>2. ASSUME NEW x \in own PROVE db.executions[x].status = "failed" => db'.executions[x].status = "failed"
      BY DEF Better, Final
    <2>3. ASSUME req.pc # "list", NEW i \in DOMAIN req.per PROVE MetricsAreTrue(req.per[i])'
      <3>1. MetricsAreTrue(req.per[i]) /\ req.per[i].execution_id \in own
        BY <1>3, <2>1, <2>3 DEF SummaryIsTrue, Rightful, RowsOwn, IsSummary
      <3>2. QED BY <2>2, <3>1, Zenon DEF MetricsAreTrue
    <2>4. ASSUME req.pc = "metrics", req.todo # <<>> PROVE ReadIsTrue(Head(req.todo), req.read)'
      <3>1. PICK x : x = Head(req.todo)
        OBVIOUS
      <3>2. x \in own
        <4>1. req.todo \in Seq(own)
          BY <1>3, <2>1, <2>4 DEF Rightful, IsSummary
        <4>2. QED BY <2>4, <3>1, <4>1
      <3>3. ReadIsTrue(x, req.read)
        BY <2>1, <2>4, <3>1 DEF SummaryIsTrue
      <3>4. ReadIsTrue(x, req.read)'
        BY <2>2, <3>2, <3>3, Zenon DEF ReadIsTrue
      <3>5. QED BY <3>1, <3>4
    <2>5. LoadedIsTrue(req)'
      BY <2>1 DEF SummaryIsTrue, LoadedIsTrue
    <2>6. "agg" \in DOMAIN req => RollupIsTrue(req.agg, after)'
      <3>1. "agg" \in DOMAIN req => FailuresAreStored(req.agg)'
        BY <2>1, RollupsStay DEF SummaryIsTrue, RollupIsTrue
      <3>2. QED BY <3>1, Zenon DEF RollupIsTrue
    <2>7. SummaryIsTrue(req, after)'
      BY <2>1, <2>3, <2>4, <2>5, <2>6, Zenon DEF SummaryIsTrue
    <2>8. IsReport(req) => ReportIsTrue(req)'
      <3>1. SUFFICES ASSUME IsReport(req) PROVE ReportIsTrue(req)'
        OBVIOUS
      <3>2. ReportIsTrue(req) /\ FailuresAreStored(req.agg)'
        BY <2>1, <2>6, <3>1, EvaluationMeans DEF IsReport, SummaryIsTrue, RollupIsTrue
      <3>3. PICK agg : agg = req.agg
        OBVIOUS
      <3>4. ASSUME NEW w \in DOMAIN agg.by_workflow
            PROVE  agg.by_workflow[w].failed <= Cardinality(FailedRuns(w, DOMAIN db.executions)')
        <4>1. PICK c : c = Cardinality(FailedRuns(w, DOMAIN db.executions)')
          OBVIOUS
        <4>2. agg.by_workflow[w].failed \in 0..c
          BY <3>2, <3>3, <4>1 DEF FailuresAreStored
        <4>3. QED BY <4>1, <4>2
      <3>5. QED BY <3>2, <3>3, <3>4, Zenon DEF ReportIsTrue
    <2>9. QED BY <1>1, <2>7, <2>8, EvaluationMeansThen
  <1>4. QED BY <1>2, <1>3

LEMMA SummariesAreRightful ==
  ASSUME InsightsInv, NEW req, request = req, IsSummary(req), NEW own, own = Own(db, run, req.id)
  PROVE  Rightful(req, own)
  BY DEF InsightsInv, RequestInv, IsSummary

LEMMA ExecutionsAreNamed ==
  ASSUME InsightsInv'
  PROVE  DOMAIN db'.executions \subseteq Executions
  <1>1. PICK tables, runs : tables = db' /\ runs = run'
    OBVIOUS
  <1>2. Agree(tables, runs)
    BY <1>1 DEF InsightsInv
  <1>3. QED BY <1>1, <1>2, ExecutionsKnown

LEMMA BetterEvaluates ==
  ASSUME InsightsInv, InsightsInv', EvaluationInv, Better(db, db'), request' = request, changed' = TRUE
  PROVE  EvaluationInv'
  <1>1. PICK req : req = request
    OBVIOUS
  <1>2. PICK own : own = Own(db, run, req.id)
    OBVIOUS
  <1>3. IsSummary(req) => Rightful(req, own)
    BY <1>1, <1>2, SummariesAreRightful
  <1>4. own \subseteq DOMAIN db.executions
    BY <1>2 DEF Own
  <1>5. DOMAIN db'.executions \subseteq Executions
    BY ExecutionsAreNamed
  <1>6. QED BY <1>1, <1>3, <1>4, <1>5, WritersEvaluate

LEMMA DriveEvaluates ==
  ASSUME InsightsInv, InsightsInv', LearningInv, EvaluationInv, NEW x \in Executions, Drive(x)
  PROVE  EvaluationInv'
  <1>1. PICK next, after : Advances(db, run, x, next, after) /\ db' = next /\ run' = after
    BY DriveWrites
  <1>2. request' = request
    BY DriveWrites
  <1>3. PICK tables, runs : tables = db /\ runs = run
    OBVIOUS
  <1>4. /\ Agree(tables, runs) /\ Written(tables, runs) /\ Advances(tables, runs, x, next, after)
    BY <1>1, <1>3 DEF InsightsInv, LearningInv
  <1>5. Better(tables, next)
    BY <1>4, WritingIsBetter
  <1>6. changed' = TRUE
    BY Zenon DEF Drive
  <1>7. Better(db, db')
    BY <1>1, <1>3, <1>5
  <1>8. QED BY <1>2, <1>6, <1>7, BetterEvaluates

LEMMA SubmitFeedbackEvaluates ==
  ASSUME InsightsInv, InsightsInv', LearningInv, EvaluationInv, NEW x \in Executions, SubmitFeedback(x)
  PROVE  EvaluationInv'
  <1>1. PICK label : /\ x \in DOMAIN db.executions
                     /\ TrySave(Write("operator_feedback", NextId("operator_feedback"),
                                      [execution_id |-> x, label |-> label]))
    BY DEF SubmitFeedback, Visible
  <1>2. PICK w : w = Write("operator_feedback", NextId("operator_feedback"), [execution_id |-> x, label |-> label])
    OBVIOUS
  <1>3. TrySave(w) /\ w.table = "operator_feedback" /\ w.row.execution_id = x
    BY <1>1, <1>2 DEF Write
  <1>4. PICK tables, runs : tables = db /\ runs = run
    OBVIOUS
  <1>5. PICK next : next = Stored(tables, w)
    OBVIOUS
  <1>6. db' = next
    BY <1>1, <1>3, <1>4, <1>5, FeedbackStored
  <1>7. Agree(tables, runs) /\ Written(tables, runs)
    BY <1>4 DEF InsightsInv, LearningInv
  <1>8. Better(tables, next)
    BY <1>3, <1>5, <1>7, FeedbackIsBetter
  <1>9. changed' = TRUE
    BY Zenon DEF SubmitFeedback
  <1>10. request' = request
    BY DEF SubmitFeedback
  <1>11. Better(db, db')
    BY <1>4, <1>6, <1>8
  <1>12. QED BY <1>9, <1>10, <1>11, BetterEvaluates

LEMMA SaveAnalysisEvaluates ==
  ASSUME InsightsInv, InsightsInv', LearningInv, EvaluationInv, SaveAnalysis
  PROVE  EvaluationInv'
  <1>1. PICK tables, runs, p : tables = db /\ runs = run /\ p = pipe
    OBVIOUS
  <1>2. PICK row : row = Analyze(p.x, p, NextId("execution_feedback"))
    OBVIOUS
  <1>3. PICK w : w = Write("execution_feedback", NextId("execution_feedback"), row)
    OBVIOUS
  <1>4. TrySave(w) /\ p.pc = "save" /\ request' = request
    BY <1>1, <1>2, <1>3 DEF SaveAnalysis
  <1>5. w.table = "execution_feedback" /\ w.row = row
    BY <1>3 DEF Write
  <1>6. p.x \in DOMAIN tables.executions
    BY <1>1, <1>4 DEF InsightsInv, PipeInv
  <1>7. row.execution_id = p.x
    BY <1>2 DEF Analyze
  <1>8. Agree(tables, runs) /\ Written(tables, runs)
    BY <1>1 DEF InsightsInv, LearningInv
  <1>9. PICK next : next = Stored(tables, w)
    OBVIOUS
  <1>10. db' = next
    BY <1>1, <1>4, <1>5, <1>6, <1>7, <1>9, FeedbackStored
  <1>11. Better(tables, next)
    BY <1>5, <1>8, <1>9, FeedbackIsBetter
  <1>12. changed' = TRUE
    BY Zenon DEF SaveAnalysis
  <1>13. Better(db, db')
    BY <1>1, <1>10, <1>11
  <1>14. QED BY <1>4, <1>12, <1>13, BetterEvaluates

(***************************************************************************)
(* The steps of a request.                                                 *)
(***************************************************************************)
LEMMA ReceiveEvaluates ==
  ASSUME NEW kind \in {"aggregated", "anomalies", "mukti"}, Receive(kind)
  PROVE  EvaluationInv'
  <1>1. PICK limit \in left.limits, workflow \in left.workflows :
          Ask(kind, [pc |-> "list", limit |-> limit, workflow |-> workflow])
    BY DEF Receive
  <1>2. PICK h \in Headers : \/ request' = Merged([kind |-> kind, id |-> Identity(h), code |-> 200],
                                           [pc |-> "list", limit |-> limit, workflow |-> workflow])
                             \/ request' = [pc |-> "done", kind |-> kind, id |-> Identity(h), code |-> 403]
    BY <1>1 DEF Ask
  <1>3. PICK id : id = Identity(h)
    OBVIOUS
  <1>4. CASE request' = [pc |-> "done", kind |-> kind, id |-> id, code |-> 403]
    <2>1. PICK next : next = [pc |-> "done", kind |-> kind, id |-> id, code |-> 403]
      OBVIOUS
    <2>2. ~ IsSummary(next)
      BY <2>1 DEF IsSummary
    <2>3. QED BY <1>4, <2>1, <2>2, OtherRequestsEvaluate
  <1>5. CASE request' = Merged([kind |-> kind, id |-> id, code |-> 200],
                               [pc |-> "list", limit |-> limit, workflow |-> workflow])
    <2>1. PICK next : next = Merged([kind |-> kind, id |-> id, code |-> 200],
                                    [pc |-> "list", limit |-> limit, workflow |-> workflow])
      OBVIOUS
    <2>2. next.pc = "list" /\ "workflow" \in DOMAIN next /\ "agg" \notin DOMAIN next
      BY <2>1 DEF Merged
    <2>3. PICK scope : scope = ListScope'
      OBVIOUS
    <2>4. LoadedIsTrue(next)'
      BY <2>2 DEF LoadedIsTrue
    <2>5. SummaryIsTrue(next, scope)'
      BY <2>2, <2>4, Zenon DEF SummaryIsTrue
    <2>6. ~ IsReport(next)
      BY <2>2 DEF IsReport
    <2>7. QED BY <1>5, <2>1, <2>3, <2>5, <2>6, EvaluationMeansThen
  <1>6. QED BY <1>2, <1>3, <1>4, <1>5

LEMMA ReceiveMetricsEvaluates ==
  ASSUME NEW x \in Executions, ReceiveMetrics(x) PROVE EvaluationInv'
  <1>1. PICK h \in Headers :
          LET id == Identity(h)
              code == IF x \notin DOMAIN db.executions THEN 404
                      ELSE IF Visible(db, id, x) THEN 200 ELSE 403
          IN  request' = IF code = 200
                           THEN [kind |-> "metrics", id |-> id, code |-> code, pc |-> "metrics",
                                 todo |-> <<x>>, read |-> NoRead, per |-> <<>>, listing |-> <<>>]
                           ELSE [kind |-> "metrics", id |-> id, code |-> code, pc |-> "done"]
    BY DEF ReceiveMetrics
  <1>2. PICK next : next = request'
    OBVIOUS
  <1>3. next.kind = "metrics"
    BY <1>1, <1>2
  <1>4. QED BY <1>2, <1>3, OtherRequestsEvaluate DEF IsSummary

\* A step of a request leaves the tables, the caller and the filters alone.
LEMMA StepEvaluates ==
  ASSUME NEW req, request = req, NEW next, Step(next), req.pc # "idle",
         next.kind = req.kind, next.code = req.code,
         IsSummary(req) => /\ SummaryIsTrue(next, ListScope)
                           /\ next.id = req.id /\ next.workflow = req.workflow /\ next.limit = req.limit,
         IsSummary(req) /\ IsReport(next) => ReportIsTrue(next)
  PROVE  EvaluationInv'
  <1>1. Untouched /\ request' = next
    BY DEF Step, Untouched
  <1>2. IsSummary(next) => IsSummary(req)
    BY DEF IsSummary
  <1>3. IsReport(next) => IsSummary(next)
    BY DEF IsReport, IsSummary
  <1>4. QED BY <1>1, <1>2, <1>3, OnwardsEvaluates

\* What is known of a request for a summary.
LEMMA SummaryKnown ==
  ASSUME InsightsInv, EvaluationInv, NEW req, request = req, IsSummary(req),
         NEW own, own = Own(db, run, req.id)
  PROVE  /\ SummaryIsTrue(req, ListScope) /\ Rightful(req, own)
         /\ req = [f \in DOMAIN req |-> req[f]] /\ req.kind # "mukti" /\ req.kind # "metrics" /\ req.limit \in Nat
         /\ {"pc", "kind", "id", "code", "limit", "workflow"} \subseteq DOMAIN req
         /\ own \subseteq DOMAIN db.executions
         /\ req.pc # "list" => {"listing", "todo", "per", "read"} \subseteq DOMAIN req
  <1>1. SummaryIsTrue(req, ListScope)
    BY EvaluationMeans
  <1>2. Rightful(req, own)
    BY SummariesAreRightful
  <1>3. own \subseteq DOMAIN db.executions
    BY DEF Own
  <1>4. req.kind # "mukti" /\ req.kind # "metrics"
    BY DEF IsSummary
  <1>5. req = [f \in DOMAIN req |-> req[f]] /\ req.limit \in Nat /\ {"pc", "kind", "id", "code", "limit"} \subseteq DOMAIN req
    BY <1>2, <1>4 DEF Rightful
  <1>6. "workflow" \in DOMAIN req
    BY <1>1 DEF SummaryIsTrue
  <1>7. req.pc # "list" => {"listing", "todo", "per", "read"} \subseteq DOMAIN req
    BY <1>2, <1>4 DEF Rightful
  <1>8. QED BY <1>1, <1>2, <1>3, <1>4, <1>5, <1>6, <1>7

LEMMA ListedNames ==
  ASSUME BornApart, InsightsInv, LearningInv, request.limit \in Nat
  PROVE  \E names : OnlyListed(names)
  <1>1. Agree(db, run) /\ Written(db, run)
    BY DEF InsightsInv, LearningInv
  <1>2. PICK limit \in Int : limit = request.limit
    OBVIOUS
  <1>3. QED BY <1>1, <1>2, ScopeIsOne

LEMMA NothingBefore ==
  ASSUME NEW names, IsSeq(names), NEW per, per = <<>>
  PROVE  Names(per) \o names = names
  <1>1. PICK S : names \in Seq(S)
    BY DEF IsSeq
  <1>2. Names(per) = <<>>
    BY DEF Names
  <1>3. <<>> \o names = names
    BY <1>1
  <1>4. QED BY <1>2, <1>3

LEMMA ListEvaluates ==
  ASSUME BornApart, InsightsInv, LearningInv, EvaluationInv, List PROVE EvaluationInv'
  <1>1. PICK listing \in ListScope :
          Step(Merged(request, [listing |-> listing, todo |-> Names(listing), read |-> NoRead, per |-> <<>>,
                                pc |-> IF request.kind = "mukti" THEN "feedback" ELSE "metrics"]))
    BY DEF List
  <1>2. PICK req : req = request
    OBVIOUS
  <1>3. Rightful(req, Own(db, run, req.id)) /\ req.pc = "list"
    BY <1>2, Underway DEF List
  <1>4. PICK pc : pc = IF req.kind = "mukti" THEN "feedback" ELSE "metrics"
    OBVIOUS
  <1>5. PICK todo : todo = Names(listing)
    OBVIOUS
  <1>6. PICK per : per = <<>>
    OBVIOUS
  <1>7. PICK more : more = [listing |-> listing, todo |-> todo, read |-> NoRead, per |-> per, pc |-> pc]
    OBVIOUS
  <1>8. PICK next : next = Merged(req, more)
    OBVIOUS
  <1>9. Step(next)
    BY <1>1, <1>2, <1>4, <1>5, <1>6, <1>7, <1>8
  <1>10. /\ DOMAIN more = {"listing", "todo", "read", "per", "pc"} /\ more.listing = listing
         /\ more.todo = todo /\ more.per = per /\ more.pc = pc /\ more.read = NoRead
    BY <1>7
  <1>11. /\ DOMAIN next = DOMAIN req \cup DOMAIN more /\ \A f \in DOMAIN more : next[f] = more[f]
         /\ \A f \in DOMAIN req \ DOMAIN more : next[f] = req[f]
    BY <1>8 DEF Merged
  <1>12. {"kind", "code"} \subseteq DOMAIN req
    BY <1>3 DEF Rightful
  <1>13. /\ next.listing = listing /\ next.todo = todo /\ next.per = per /\ next.pc = pc
         /\ next.read = NoRead /\ next.kind = req.kind /\ next.code = req.code
    BY <1>10, <1>11, <1>12
  <1>14. ASSUME IsSummary(req)
         PROVE  /\ SummaryIsTrue(next, ListScope) /\ next.id = req.id
                /\ next.workflow = req.workflow /\ next.limit = req.limit
    <2>1. /\ SummaryIsTrue(req, ListScope) /\ req.kind # "mukti" /\ req.limit \in Nat
          /\ {"pc", "kind", "id", "code", "limit", "workflow"} \subseteq DOMAIN req
      BY <1>2, <1>14, SummaryKnown
    <2>2. /\ next.id = req.id /\ next.workflow = req.workflow /\ next.limit = req.limit
          /\ "workflow" \in DOMAIN next
          /\ "agg" \in DOMAIN next => "agg" \in DOMAIN req /\ next.agg = req.agg
      BY <1>10, <1>11, <2>1
    <2>3. next.pc = "metrics"
      BY <1>4, <1>13, <2>1
    <2>4. request.limit \in Nat
      BY <1>2, <2>1
    <2>5. PICK names : OnlyListed(names)
      BY <2>4, ListedNames
    <2>6. todo = names
      BY <1>5, <2>5 DEF OnlyListed
    <2>7. IsSeq(names)
      BY <2>5 DEF OnlyListed
    <2>8. InTurn(next)
      <3>1. Names(next.listing) = names
        BY <1>13, <2>5 DEF OnlyListed
      <3>2. Names(next.per) \o next.todo = names
        BY <1>6, <1>13, <2>6, <2>7, NothingBefore
      <3>3. QED BY <2>3, <2>5, <3>1, <3>2 DEF InTurn, OnlyListed
    <2>9. ReadIsTrue(Head(next.todo), next.read)
      BY <1>13 DEF ReadIsTrue, NoRead, ReadBefore
    <2>10. LoadedIsTrue(next)
      BY <2>3 DEF LoadedIsTrue
    <2>11. "agg" \in DOMAIN next => RollupIsTrue(next.agg, ListScope)
      BY <2>1, <2>2 DEF SummaryIsTrue
    <2>12. \A i \in DOMAIN next.per : MetricsAreTrue(next.per[i])
      BY <1>6, <1>13
    <2>13. next.listing \in ListScope
      BY <1>13
    <2>14. SummaryIsTrue(next, ListScope)
      BY <2>2, <2>3, <2>8, <2>9, <2>10, <2>11, <2>12, <2>13, Zenon DEF SummaryIsTrue
    <2>15. QED BY <2>2, <2>14
  <1>15. ~ IsReport(next)
    BY <1>4, <1>13 DEF IsReport
  <1>16. QED BY <1>2, <1>3, <1>9, <1>13, <1>14, <1>15, StepEvaluates

LEMMA ReadFeedbackEvaluates ==
  ASSUME InsightsInv, ReadFeedback PROVE EvaluationInv'
  <1>1. PICK answer : Step(Merged(request, [answer |-> answer, pc |-> "done"]))
    BY DEF ReadFeedback
  <1>2. PICK req : req = request
    OBVIOUS
  <1>3. Rightful(req, Own(db, run, req.id)) /\ req.pc = "feedback"
    BY <1>2, Underway DEF ReadFeedback
  <1>4. req.kind = "mukti" /\ "kind" \in DOMAIN req
    BY <1>3 DEF Rightful
  <1>5. PICK more : more = [answer |-> answer, pc |-> "done"]
    OBVIOUS
  <1>6. PICK next : next = Merged(req, more)
    OBVIOUS
  <1>7. DOMAIN more = {"answer", "pc"}
    BY <1>5
  <1>8. next.kind = "mukti"
    BY <1>4, <1>6, <1>7 DEF Merged
  <1>9. request' = next
    BY <1>1, <1>2, <1>5, <1>6 DEF Step
  <1>10. QED BY <1>8, <1>9, OtherRequestsEvaluate DEF IsSummary

(***************************************************************************)
(* The reading of one execution, part by part.                             *)
(***************************************************************************)
Known(x, read, seen) ==
  /\ seen \subseteq DOMAIN read
  /\ "execution" \in seen =>
       /\ read.execution.trace_timeline \in Seq(ToSet(read.execution.trace_timeline))
       /\ read.execution.workflow_type = Workflows[x]
       /\ read.execution.status = "failed" => db.executions[x].status = "failed"
  /\ "tools" \in seen => IsFiniteSet(read.tools)
  /\ ~ changed => \A part \in seen : read[part] = PartsOf(x)[part]

LEMMA KnownMeans ==
  ASSUME NEW x, NEW read
  PROVE  ReadIsTrue(x, read) <=> read.part \in DOMAIN ReadBefore /\ Known(x, read, ReadBefore[read.part])
  BY Zenon DEF ReadIsTrue, Known

AllParts == {"execution", "steps", "results", "tools", "decisions"}

LEMMA PartsInOrder ==
  ASSUME NEW part \in AllParts, NEW i, i = CHOOSE j \in DOMAIN Parts : Parts[j] = part
  PROVE  /\ i \in 1 .. 5 /\ Len(Parts) = 5
         /\ i < 5 => Parts[i + 1] \in AllParts /\ ReadBefore[Parts[i + 1]] = ReadBefore[part] \cup {part}
         /\ ~ (i < 5) => ReadBefore[part] \cup {part} = AllParts
  <1>1. DOMAIN Parts = 1 .. 5 /\ Len(Parts) = 5
    BY DEF Parts
  <1>2. /\ Parts[1] = "execution" /\ Parts[2] = "steps" /\ Parts[3] = "results" /\ Parts[4] = "tools"
        /\ Parts[5] = "decisions"
    BY DEF Parts
  <1>3. \E j \in 1 .. 5 : Parts[j] = part
    BY <1>2 DEF AllParts
  <1>4. i \in 1 .. 5 /\ Parts[i] = part
    BY <1>1, <1>3
  <1>5. /\ ReadBefore["execution"] = {} /\ ReadBefore["steps"] = {"execution"}
        /\ ReadBefore["results"] = {"execution", "steps"}
        /\ ReadBefore["tools"] = {"execution", "steps", "results"}
        /\ ReadBefore["decisions"] = {"execution", "steps", "results", "tools"}
    BY DEF ReadBefore
  <1>6. i = 1 \/ i = 2 \/ i = 3 \/ i = 4 \/ i = 5
    BY <1>4
  <1>7. CASE i = 1
    BY <1>1, <1>2, <1>4, <1>5, <1>7 DEF AllParts
  <1>8. CASE i = 2
    BY <1>1, <1>2, <1>4, <1>5, <1>8 DEF AllParts
  <1>9. CASE i = 3
    BY <1>1, <1>2, <1>4, <1>5, <1>9 DEF AllParts
  <1>10. CASE i = 4
    BY <1>1, <1>2, <1>4, <1>5, <1>10 DEF AllParts
  <1>11. CASE i = 5
    BY <1>1, <1>2, <1>4, <1>5, <1>11 DEF AllParts
  <1>12. QED BY <1>6, <1>7, <1>8, <1>9, <1>10, <1>11

LEMMA BeforeOf ==
  /\ DOMAIN ReadBefore = AllParts
  /\ \A part \in AllParts : ReadBefore[part] \subseteq AllParts \ {part}
  /\ "steps" \in ReadBefore["results"] /\ "steps" \in ReadBefore["tools"]
  BY DEF ReadBefore, AllParts

\* What one more read adds.
Added(x, part, read) ==
  CASE part = "execution" -> db.executions[x]
    [] part = "steps" -> StepsRead(x)
    [] part = "results" -> ResultsRead(read.steps)
    [] part = "tools" -> ToolsRead(read.steps)
    [] part = "decisions" -> VerdictsRead(x)

LEMMA PartOf ==
  ASSUME NEW x, NEW part \in AllParts, NEW read, NEW more, more = Part(x, part, read)
  PROVE  DOMAIN more = {part} /\ more[part] = Added(x, part, read)
  <1>1. CASE part = "execution"
    BY <1>1 DEF Part, Added
  <1>2. CASE part = "steps"
    BY <1>2 DEF Part, Added
  <1>3. CASE part = "results"
    BY <1>3 DEF Part, Added
  <1>4. CASE part = "tools"
    BY <1>4 DEF Part, Added
  <1>5. CASE part = "decisions"
    BY <1>5 DEF Part, Added
  <1>6. QED BY <1>1, <1>2, <1>3, <1>4, <1>5 DEF AllParts

LEMMA AddedIsStored ==
  ASSUME NEW x, NEW part \in AllParts, NEW read, Known(x, read, ReadBefore[part]), ~ changed
  PROVE  Added(x, part, read) = PartsOf(x)[part]
  <1>1. PICK steps : steps = StepsRead(x)
    OBVIOUS
  <1>2. PICK parts : parts = PartsOf(x)
    OBVIOUS
  <1>3. /\ parts.execution = db.executions[x] /\ parts.steps = steps /\ parts.results = ResultsRead(steps)
        /\ parts.tools = ToolsRead(steps) /\ parts.decisions = VerdictsRead(x)
    BY <1>1, <1>2 DEF PartsOf
  <1>4. part \in {"results", "tools"} => read.steps = steps
    <2>1. SUFFICES ASSUME part \in {"results", "tools"} PROVE read.steps = steps
      OBVIOUS
    <2>2. "steps" \in ReadBefore[part]
      BY <2>1, BeforeOf
    <2>3. read["steps"] = PartsOf(x)["steps"]
      BY <2>2 DEF Known
    <2>4. QED BY <1>2, <1>3, <2>3
  <1>5. CASE part = "execution"
    BY <1>2, <1>3, <1>5 DEF Added
  <1>6. CASE part = "steps"
    BY <1>1, <1>2, <1>3, <1>6 DEF Added
  <1>7. CASE part = "results"
    BY <1>2, <1>3, <1>4, <1>7 DEF Added
  <1>8. CASE part = "tools"
    BY <1>2, <1>3, <1>4, <1>8 DEF Added
  <1>9. CASE part = "decisions"
    BY <1>2, <1>3, <1>9 DEF Added
  <1>10. QED BY <1>5, <1>6, <1>7, <1>8, <1>9 DEF AllParts

LEMMA PartIsKnown ==
  ASSUME InsightsInv, LearningInv, NEW x \in DOMAIN db.executions, NEW part \in AllParts,
         NEW old, Known(x, old, ReadBefore[part]), NEW read, read = Merged(old, Part(x, part, old))
  PROVE  Known(x, read, ReadBefore[part] \cup {part})
  <1>1. PICK seen : seen = ReadBefore[part]
    OBVIOUS
  <1>2. PICK more : more = Part(x, part, old)
    OBVIOUS
  <1>3. PICK new : new = Added(x, part, old)
    OBVIOUS
  <1>4. DOMAIN more = {part} /\ more[part] = new
    BY <1>2, <1>3, PartOf
  <1>5. part \notin seen /\ Known(x, old, seen)
    BY <1>1, BeforeOf
  <1>6. /\ DOMAIN read = DOMAIN old \cup {part} /\ read[part] = new
        /\ \A f \in DOMAIN old \ {part} : read[f] = old[f]
    BY <1>2, <1>4 DEF Merged
  <1>7. seen \subseteq DOMAIN old
    BY <1>5 DEF Known
  <1>8. \A f \in seen : read[f] = old[f]
    BY <1>5, <1>6, <1>7
  <1>9. PICK tables, runs : tables = db /\ runs = run
    OBVIOUS
  <1>10. Agree(tables, runs) /\ Written(tables, runs)
    BY <1>9 DEF InsightsInv, LearningInv
  <1>11. "execution" \in seen \cup {part} =>
           /\ read.execution.trace_timeline \in Seq(ToSet(read.execution.trace_timeline))
           /\ read.execution.workflow_type = Workflows[x]
           /\ read.execution.status = "failed" => db.executions[x].status = "failed"
    <2>1. CASE "execution" \in seen
      BY <1>5, <1>8, <2>1 DEF Known
    <2>2. CASE part = "execution"
      <3>1. PICK ex : ex = tables.executions[x]
        OBVIOUS
      <3>2. ex.workflow_type = Workflows[x] /\ IsSeq(ex.trace_timeline)
        BY <1>9, <1>10, <3>1, RecordIsTold
      <3>3. read.execution = ex
        BY <1>3, <1>6, <1>9, <2>2, <3>1 DEF Added
      <3>4. QED BY <1>9, <3>1, <3>2, <3>3 DEF IsSeq
    <2>3. QED BY <2>1, <2>2
  <1>12. "tools" \in seen \cup {part} => IsFiniteSet(read.tools)
    <2>1. CASE "tools" \in seen
      BY <1>5, <1>8, <2>1 DEF Known
    <2>2. CASE part = "tools"
      <3>1. PICK steps : steps = old.steps
        OBVIOUS
      <3>2. "tool_calls" \in WrittenTables
        BY DEF WrittenTables
      <3>3. IsFiniteSet(DOMAIN tables["tool_calls"])
        BY <1>10, <3>2, RowsAreFinite
      <3>4. IsFiniteSet(DOMAIN db.tool_calls)
        BY <1>9, <3>3
      <3>5. IsFiniteSet(ToolsRead(steps))
        BY <3>4, ToolsAreFinite
      <3>6. read.tools = ToolsRead(steps)
        BY <1>3, <1>6, <2>2, <3>1 DEF Added
      <3>7. QED BY <3>5, <3>6
    <2>3. QED BY <2>1, <2>2
  <1>13. ~ changed => \A f \in seen \cup {part} : read[f] = PartsOf(x)[f]
    <2>1. SUFFICES ASSUME ~ changed PROVE \A f \in seen \cup {part} : read[f] = PartsOf(x)[f]
      OBVIOUS
    <2>2. new = PartsOf(x)[part]
      BY <1>3, <2>1, AddedIsStored
    <2>3. \A f \in seen : read[f] = PartsOf(x)[f]
      BY <1>5, <1>8, <2>1 DEF Known
    <2>4. QED BY <1>6, <2>2, <2>3
  <1>14. Known(x, read, seen \cup {part})
    BY <1>6, <1>7, <1>11, <1>12, <1>13, Zenon DEF Known
  <1>15. QED BY <1>1, <1>14

\* The metrics look at nothing but the parts.
LEMMA MetricsOfParts ==
  ASSUME NEW x, NEW a, NEW b, \A part \in AllParts : a[part] = b[part]
  PROVE  ExecutionMetrics(x, a) = ExecutionMetrics(x, b)
  <1> DEFINE F(execution, steps, results, tools, decisions) ==
        ExecutionMetrics(x, [execution |-> execution, steps |-> steps, results |-> results,
                             tools |-> tools, decisions |-> decisions])
  <1>1. ASSUME NEW r
        PROVE  ExecutionMetrics(x, r) = F(r.execution, r.steps, r.results, r.tools, r.decisions)
    BY DEF ExecutionMetrics
  <1>2. /\ a.execution = b.execution /\ a.steps = b.steps /\ a.results = b.results
        /\ a.tools = b.tools /\ a.decisions = b.decisions
    BY DEF AllParts
  <1> HIDE DEF F
  <1>3. F(a.execution, a.steps, a.results, a.tools, a.decisions)
          = F(b.execution, b.steps, b.results, b.tools, b.decisions)
    BY <1>2
  <1>4. QED BY <1>1, <1>3

LEMMA RowIsTrue ==
  ASSUME NEW x, NEW read, Known(x, read, AllParts), NEW m, m = ExecutionMetrics(x, read)
  PROVE  MetricsAreTrue(m) /\ m.execution_id = x
  <1>1. /\ read.execution.trace_timeline \in Seq(ToSet(read.execution.trace_timeline))
        /\ read.execution.workflow_type = Workflows[x]
        /\ read.execution.status = "failed" => db.executions[x].status = "failed"
    BY DEF Known, AllParts
  <1>2. IsFiniteSet(read.tools)
    BY DEF Known, AllParts
  <1>3. IsSeq(read.execution.trace_timeline)
    BY <1>1 DEF IsSeq
  <1>4. /\ m.execution_id = x /\ m.workflow_type = read.execution.workflow_type
        /\ m.status = read.execution.status
    BY MetricsOf
  <1>5. IsRate(m.fallback_rate) /\ IsRate(m.tool_rate)
    BY <1>2, <1>3, MetricsOf
  <1>6. ~ changed => m = ExecutionMetrics(x, PartsOf(x))
    <2>1. SUFFICES ASSUME ~ changed PROVE m = ExecutionMetrics(x, PartsOf(x))
      OBVIOUS
    <2>2. PICK parts : parts = PartsOf(x)
      OBVIOUS
    <2>3. \A part \in AllParts : read[part] = parts[part]
      BY <2>1, <2>2 DEF Known
    <2>4. ExecutionMetrics(x, read) = ExecutionMetrics(x, parts)
      BY <2>3, MetricsOfParts
    <2>5. QED BY <2>2, <2>4
  <1>7. QED BY <1>1, <1>4, <1>5, <1>6 DEF MetricsAreTrue

\* The next execution's metrics take the place of its name.
LEMMA TurnMoves ==
  ASSUME NEW per, IsSeq(per), NEW S, NEW todo \in Seq(S), todo # <<>>,
         NEW m, m.execution_id = Head(todo), NEW names, Names(per) \o todo = names
  PROVE  Names(Append(per, m)) \o Tail(todo) = names
  <1>1. PICK n \in Nat : n = Len(per) /\ DOMAIN per = 1 .. n
    BY SeqDomain
  <1>2. PICK x : x = Head(todo)
    OBVIOUS
  <1>3. PICK more : more = Append(per, m)
    OBVIOUS
  <1>4. Len(per) = n
    BY <1>1, SeqDomain
  <1>5. DOMAIN more = 1 .. n + 1 /\ more[n + 1] = m /\ \A i \in 1 .. n : more[i] = per[i]
    BY <1>3, <1>4, Appending
  <1>6. PICK done : done = Names(per)
    OBVIOUS
  <1>7. done = [i \in 1 .. n |-> per[i].execution_id]
    BY <1>1, <1>6 DEF Names
  <1>8. PICK after : after = Names(more)
    OBVIOUS
  <1>9. after = [i \in 1 .. n + 1 |-> more[i].execution_id]
    BY <1>5, <1>8 DEF Names
  <1>10. IsSeq(done) /\ Len(done) = n /\ DOMAIN done = 1 .. n
    BY <1>7, SeqByPlaces
  <1>11. PICK V : V = ToSet(done) \cup S
    OBVIOUS
  <1>12. done \in Seq(V) /\ todo \in Seq(V) /\ x \in V
    <2>1. done \in Seq(ToSet(done)) /\ ToSet(done) \subseteq V /\ S \subseteq V
      BY <1>10, <1>11 DEF IsSeq
    <2>2. x \in S
      BY <1>2
    <2>3. QED BY <2>1, <2>2
  <1>13. after = Append(done, x)
    <2>1. PICK whole : whole = Append(done, x)
      OBVIOUS
    <2>2. /\ IsSeq(whole) /\ Len(whole) = n + 1
          /\ whole[n + 1] = x /\ \A i \in 1 .. n : whole[i] = done[i]
      BY <1>10, <2>1, Appending
    <2>3. whole = [i \in 1 .. n + 1 |-> whole[i]]
      BY <2>2, SeqDomain
    <2>4. ASSUME NEW i \in 1 .. n + 1 PROVE after[i] = whole[i]
      <3>1. CASE i = n + 1
        BY <1>2, <1>5, <1>9, <2>2, <3>1
      <3>2. CASE i \in 1 .. n
        BY <1>5, <1>7, <1>9, <2>2, <3>2
      <3>3. i = n + 1 \/ i \in 1 .. n
        OBVIOUS
      <3>4. QED BY <3>1, <3>2, <3>3
    <2>5. after = whole
      BY <1>9, <2>3, <2>4
    <2>6. QED BY <2>1, <2>5
  <1>14. Append(done, x) \o Tail(todo) = done \o todo
    BY <1>2, <1>12
  <1>15. QED BY <1>3, <1>6, <1>8, <1>13, <1>14

LEMMA ReadMetricsEvaluates ==
  ASSUME InsightsInv, LearningInv, EvaluationInv, ReadMetrics PROVE EvaluationInv'
  <1>1. PICK req : req = request
    OBVIOUS
  <1>2. req.pc = "metrics" /\ req.todo # <<>>
    BY <1>1 DEF ReadMetrics
  <1>3. /\ req = [f \in DOMAIN req |-> req[f]]
        /\ {"pc", "kind", "id", "code", "todo", "per", "read"} \subseteq DOMAIN req
    BY <1>1, <1>2, MetricsFields
  <1>4. PICK x, rest, part : x = Head(req.todo) /\ rest = Tail(req.todo) /\ part = req.read.part
    OBVIOUS
  <1>5. PICK read : read = Merged(req.read, Part(x, part, req.read))
    OBVIOUS
  <1>6. PICK i : i = CHOOSE j \in DOMAIN Parts : Parts[j] = part
    OBVIOUS
  <1>7. PICK row, per : row = ExecutionMetrics(x, read) /\ per = Append(req.per, row)
    OBVIOUS
  <1>8. PICK longer : longer = With(read, "part", Parts[i + 1])
    OBVIOUS
  <1>9. \/ i < Len(Parts) /\ Step([req EXCEPT !.read = longer])
        \/ ~ (i < Len(Parts)) /\ Step([req EXCEPT !.read = NoRead, !.todo = rest, !.per = per])
    BY <1>1, <1>4, <1>5, <1>6, <1>7, <1>8 DEF ReadMetrics
  <1>10. PICK own : own = Own(db, run, req.id)
    OBVIOUS
  <1>11. ASSUME IsSummary(req)
         PROVE  /\ SummaryIsTrue(req, ListScope) /\ {"workflow", "limit"} \subseteq DOMAIN req
                /\ x \in DOMAIN db.executions /\ req.todo \in Seq(own) /\ IsSeq(req.per)
                /\ Known(x, req.read, ReadBefore[part]) /\ part \in AllParts
                /\ Known(x, read, ReadBefore[part] \cup {part})
    <2>1. /\ SummaryIsTrue(req, ListScope) /\ Rightful(req, own) /\ req.kind # "mukti"
          /\ {"limit", "workflow"} \subseteq DOMAIN req /\ own \subseteq DOMAIN db.executions
      BY <1>1, <1>10, <1>11, SummaryKnown
    <2>2. req.todo \in Seq(own) /\ RowsOwn(req.per, own)
      BY <1>2, <2>1 DEF Rightful
    <2>3. x \in own /\ IsSeq(req.per)
      BY <1>2, <1>4, <2>2 DEF RowsOwn, IsSeq
    <2>4. ReadIsTrue(x, req.read)
      BY <1>2, <1>4, <2>1 DEF SummaryIsTrue
    <2>5. part \in AllParts /\ Known(x, req.read, ReadBefore[part])
      BY <1>4, <2>4, KnownMeans, BeforeOf
    <2>6. x \in DOMAIN db.executions
      BY <2>1, <2>3
    <2>7. Known(x, read, ReadBefore[part] \cup {part})
      <3>1. PICK old : old = req.read
        OBVIOUS
      <3>2. QED BY <1>5, <2>5, <2>6, <3>1, PartIsKnown
    <2>8. QED BY <2>1, <2>2, <2>3, <2>5, <2>6, <2>7
  <1>12. CASE i < Len(Parts) /\ Step([req EXCEPT !.read = longer])
    <2>1. PICK next : next = [req EXCEPT !.read = longer]
      OBVIOUS
    <2>2. Step(next)
      BY <1>12, <2>1
    <2>3. /\ DOMAIN next = DOMAIN req /\ next.read = longer
          /\ \A f \in DOMAIN req \ {"read"} : next[f] = req[f]
      BY <1>3, <2>1
    <2>4. /\ next.kind = req.kind /\ next.code = req.code /\ next.pc = "metrics"
          /\ next.todo = req.todo /\ next.per = req.per
      BY <1>2, <1>3, <2>3
    <2>5. ~ IsReport(next)
      BY <2>4 DEF IsReport
    <2>6. ASSUME IsSummary(req)
          PROVE  /\ SummaryIsTrue(next, ListScope) /\ next.id = req.id
                 /\ next.workflow = req.workflow /\ next.limit = req.limit
      <3>1. /\ SummaryIsTrue(req, ListScope) /\ {"workflow", "limit"} \subseteq DOMAIN req
            /\ part \in AllParts /\ Known(x, read, ReadBefore[part] \cup {part})
        BY <1>11, <2>6
      <3>2. PICK more : more = Parts[i + 1]
        OBVIOUS
      <3>3. more \in AllParts /\ ReadBefore[more] = ReadBefore[part] \cup {part}
        BY <1>6, <1>12, <3>1, <3>2, PartsInOrder
      <3>4. PICK seen : seen = ReadBefore[more]
        OBVIOUS
      <3>5. /\ DOMAIN longer = DOMAIN read \cup {"part"} /\ longer.part = more
            /\ \A f \in DOMAIN read \ {"part"} : longer[f] = read[f]
        BY <1>8, <3>2 DEF With, Merged
      <3>6. Known(x, read, seen) /\ seen \subseteq AllParts
        BY <3>1, <3>3, <3>4, BeforeOf
      <3>7. "part" \notin seen
        BY <3>6 DEF AllParts
      <3>8. seen \subseteq DOMAIN longer /\ \A f \in seen : longer[f] = read[f]
        BY <3>5, <3>6, <3>7 DEF Known
      <3>9. Known(x, longer, seen)
        <4>1. "execution" \in seen =>
                /\ longer.execution.trace_timeline \in Seq(ToSet(longer.execution.trace_timeline))
                /\ longer.execution.workflow_type = Workflows[x]
                /\ longer.execution.status = "failed" => db.executions[x].status = "failed"
          BY <3>6, <3>8 DEF Known
        <4>2. "tools" \in seen => IsFiniteSet(longer.tools)
          BY <3>6, <3>8 DEF Known
        <4>3. ~ changed => \A f \in seen : longer[f] = PartsOf(x)[f]
          BY <3>6, <3>8 DEF Known
        <4>4. QED BY <3>8, <4>1, <4>2, <4>3, Zenon DEF Known
      <3>10. ReadIsTrue(x, longer)
        BY <3>3, <3>4, <3>5, <3>9, KnownMeans, BeforeOf
      <3>11. next.id = req.id /\ next.workflow = req.workflow /\ next.limit = req.limit
             /\ "workflow" \in DOMAIN next
        BY <1>3, <2>3, <3>1
      <3>12. next.listing = req.listing
        <4>1. "listing" \in DOMAIN req
          BY <1>1, <1>2, <1>10, <2>6, SummaryKnown
        <4>2. QED BY <2>3, <4>1
      <3>13. InTurn(next)
        BY <1>2, <2>4, <3>1, <3>12 DEF SummaryIsTrue, InTurn
      <3>14. LoadedIsTrue(next)
        BY <2>4 DEF LoadedIsTrue
      <3>15. "agg" \in DOMAIN next => RollupIsTrue(next.agg, ListScope)
        BY <2>3, <3>1 DEF SummaryIsTrue
      <3>16. \A k \in DOMAIN next.per : MetricsAreTrue(next.per[k])
        BY <1>2, <2>4, <3>1 DEF SummaryIsTrue
      <3>17. ~ changed => next.listing \in ListScope
        BY <1>2, <3>1, <3>12 DEF SummaryIsTrue
      <3>18. ReadIsTrue(Head(next.todo), next.read)
        BY <1>4, <2>3, <2>4, <3>10
      <3>19. SummaryIsTrue(next, ListScope)
        BY <2>4, <3>11, <3>13, <3>14, <3>15, <3>16, <3>17, <3>18, Zenon DEF SummaryIsTrue
      <3>20. QED BY <3>11, <3>19
    <2>7. QED BY <1>1, <1>2, <2>2, <2>4, <2>5, <2>6, StepEvaluates
  <1>13. CASE ~ (i < Len(Parts)) /\ Step([req EXCEPT !.read = NoRead, !.todo = rest, !.per = per])
    <2>1. PICK next : next = [req EXCEPT !.read = NoRead, !.todo = rest, !.per = per]
      OBVIOUS
    <2>2. Step(next)
      BY <1>13, <2>1
    <2>3. /\ DOMAIN next = DOMAIN req /\ next.read = NoRead /\ next.todo = rest /\ next.per = per
          /\ \A f \in DOMAIN req \ {"read", "todo", "per"} : next[f] = req[f]
      BY <1>3, <2>1
    <2>4. next.kind = req.kind /\ next.code = req.code /\ next.pc = "metrics"
      BY <1>2, <1>3, <2>3
    <2>5. ~ IsReport(next)
      BY <2>4 DEF IsReport
    <2>6. ASSUME IsSummary(req)
          PROVE  /\ SummaryIsTrue(next, ListScope) /\ next.id = req.id
                 /\ next.workflow = req.workflow /\ next.limit = req.limit
      <3>1. /\ SummaryIsTrue(req, ListScope) /\ {"workflow", "limit"} \subseteq DOMAIN req
            /\ req.todo \in Seq(own) /\ IsSeq(req.per) /\ part \in AllParts
            /\ Known(x, read, ReadBefore[part] \cup {part})
        BY <1>11, <2>6
      <3>2. ReadBefore[part] \cup {part} = AllParts
        <4>1. part \in AllParts
          BY <3>1
        <4>2. i \in 1 .. 5 /\ Len(Parts) = 5
          BY <1>6, <4>1, PartsInOrder
        <4>3. ~ (i < 5)
          BY <1>13, <4>2
        <4>4. QED BY <1>6, <4>1, <4>3, PartsInOrder
      <3>3. MetricsAreTrue(row) /\ row.execution_id = x
        BY <1>7, <3>1, <3>2, RowIsTrue
      <3>4. next.id = req.id /\ next.workflow = req.workflow /\ next.limit = req.limit
            /\ "workflow" \in DOMAIN next
        BY <1>3, <2>3, <3>1
      <3>5. next.listing = req.listing
        <4>1. "listing" \in DOMAIN req
          BY <1>1, <1>2, <1>10, <2>6, SummaryKnown
        <4>2. QED BY <2>3, <4>1
      <3>6. InTurn(next)
        <4>1. PICK names : names = Names(req.listing)
          OBVIOUS
        <4>2. Names(req.per) \o req.todo = names
          BY <1>2, <3>1, <4>1 DEF SummaryIsTrue, InTurn
        <4>3. PICK before, todo : before = req.per /\ todo = req.todo
          OBVIOUS
        <4>4. Names(Append(before, row)) \o Tail(todo) = names
          <5>1. IsSeq(before) /\ todo \in Seq(own) /\ todo # <<>> /\ row.execution_id = Head(todo)
            BY <1>2, <1>4, <3>1, <3>3, <4>3
          <5>2. Names(before) \o todo = names
            BY <4>2, <4>3
          <5>3. QED BY ONLY <5>1, <5>2, TurnMoves
        <4>5. Names(next.per) \o next.todo = names
          BY <1>4, <1>7, <2>3, <4>3, <4>4
        <4>6. QED BY <2>4, <3>1, <3>5, <4>1, <4>5, <1>2 DEF SummaryIsTrue, InTurn
      <3>7. LoadedIsTrue(next)
        BY <2>4 DEF LoadedIsTrue
      <3>8. "agg" \in DOMAIN next => RollupIsTrue(next.agg, ListScope)
        BY <2>3, <3>1 DEF SummaryIsTrue
      <3>9. \A k \in DOMAIN next.per : MetricsAreTrue(next.per[k])
        <4>1. PICK before : before = req.per
          OBVIOUS
        <4>2. IsSeq(before) /\ \A k \in DOMAIN before : MetricsAreTrue(before[k])
          BY <1>2, <3>1, <4>1 DEF SummaryIsTrue
        <4>3. PICK n \in Nat : n = Len(before) /\ DOMAIN before = 1 .. n
          BY <4>2, SeqDomain
        <4>4. Len(before) = n
          BY <4>3
        <4>5. per = Append(before, row)
          BY <1>7, <4>1
        <4>6. DOMAIN per = 1 .. n + 1 /\ per[n + 1] = row /\ \A k \in 1 .. n : per[k] = before[k]
          BY <4>2, <4>4, <4>5, Appending
        <4>7. ASSUME NEW k \in 1 .. n + 1 PROVE MetricsAreTrue(per[k])
          <5>1. CASE k = n + 1
            BY <3>3, <4>6, <5>1
          <5>2. CASE k \in 1 .. n
            BY <4>2, <4>3, <4>6, <5>2
          <5>3. k = n + 1 \/ k \in 1 .. n
            OBVIOUS
          <5>4. QED BY <5>1, <5>2, <5>3
        <4>8. QED BY <2>3, <4>6, <4>7
      <3>10. ~ changed => next.listing \in ListScope
        BY <1>2, <3>1, <3>5 DEF SummaryIsTrue
      <3>11. ReadIsTrue(Head(next.todo), next.read)
        BY <2>3 DEF ReadIsTrue, NoRead, ReadBefore
      <3>12. SummaryIsTrue(next, ListScope)
        BY <2>4, <3>4, <3>6, <3>7, <3>8, <3>9, <3>10, <3>11, Zenon DEF SummaryIsTrue
      <3>13. QED BY <3>4, <3>12
    <2>7. QED BY <1>1, <1>2, <2>2, <2>4, <2>5, <2>6, StepEvaluates
  <1>14. QED BY <1>9, <1>12, <1>13

LEMMA NamesOfRows ==
  ASSUME NEW per, IsSeq(per)
  PROVE  /\ IsSeq(Names(per)) /\ Len(Names(per)) = Len(per) /\ DOMAIN Names(per) = DOMAIN per
         /\ \A i \in DOMAIN per : Names(per)[i] = per[i].execution_id
         /\ \A x : x \in ToSet(Names(per)) <=> \E i \in DOMAIN per : per[i].execution_id = x
  <1>1. PICK n \in Nat : n = Len(per) /\ DOMAIN per = 1 .. n
    BY SeqDomain
  <1>2. PICK names : names = Names(per)
    OBVIOUS
  <1>3. names = [i \in 1 .. n |-> per[i].execution_id]
    BY <1>1, <1>2 DEF Names
  <1>4. names = [i \in 1 .. n |-> names[i]]
    BY <1>3
  <1>5. IsSeq(names) /\ Len(names) = n /\ DOMAIN names = 1 .. n
    BY <1>4, SeqByPlaces
  <1>6. \A x : x \in ToSet(names) <=> \E i \in 1 .. n : per[i].execution_id = x
    BY <1>3, <1>5 DEF ToSet
  <1>7. QED BY <1>1, <1>2, <1>3, <1>5, <1>6

LEMMA ReportedAreListed ==
  ASSUME NEW req, IsSeq(req.per)
  PROVE  InReport(req) = ToSet(Names(req.per))
  <1>1. PICK per, all : per = req.per /\ all = ToSet(Names(per))
    OBVIOUS
  <1>2. \A x : x \in all <=> \E i \in DOMAIN per : per[i].execution_id = x
    BY <1>1, NamesOfRows
  <1>3. \A m : m \in ToSet(per) <=> \E i \in DOMAIN per : m = per[i]
    BY DEF ToSet
  <1>4. \A x : x \in InReport(req) <=> \E m \in ToSet(per) : x = m.execution_id
    BY <1>1 DEF InReport
  <1>5. \A x : x \in InReport(req) <=> x \in all
    BY <1>2, <1>3, <1>4
  <1>6. QED BY <1>1, <1>5

LEMMA NothingAfter ==
  ASSUME NEW per, IsSeq(per), NEW todo, todo = <<>>, NEW names, Names(per) \o todo = names
  PROVE  Names(per) = names
  <1>1. PICK done : done = Names(per)
    OBVIOUS
  <1>2. IsSeq(done)
    BY <1>1, NamesOfRows
  <1>3. PICK S : done \in Seq(S)
    BY <1>2 DEF IsSeq
  <1>4. done \o <<>> = done
    BY <1>3
  <1>5. QED BY <1>1, <1>4

LEMMA TablesAreFinite ==
  ASSUME InsightsInv, LearningInv
  PROVE  /\ IsFiniteSet(DOMAIN db.executions) /\ IsFiniteSet(DOMAIN db.tool_calls)
         /\ IsFiniteSet(DOMAIN db.evaluations) /\ CallsFit
  <1>1. PICK tables, runs : tables = db /\ runs = run
    OBVIOUS
  <1>2. Agree(tables, runs) /\ Written(tables, runs)
    BY <1>1 DEF InsightsInv, LearningInv
  <1>3. ASSUME NEW t \in WrittenTables PROVE IsFiniteSet(DOMAIN tables[t])
    BY <1>2, RowsAreFinite
  <1>4. {"executions", "tool_calls", "evaluations"} \subseteq WrittenTables
    BY DEF WrittenTables
  <1>5. /\ IsFiniteSet(DOMAIN tables["executions"]) /\ IsFiniteSet(DOMAIN tables["tool_calls"])
        /\ IsFiniteSet(DOMAIN tables["evaluations"])
    BY <1>3, <1>4
  <1>6. ASSUME NEW k \in DOMAIN tables.tool_calls, NEW call, call = tables.tool_calls[k]
        PROVE  /\ {"step_id", "tool_name", "status"} \subseteq DOMAIN call
               /\ call.step_id \in DOMAIN tables.steps
               /\ tables.steps[call.step_id].execution_id = call.execution_id
    <2>1. {"step_id", "tool_name", "status"} \subseteq DOMAIN call
      BY <1>2, <1>6, CallIsTold
    <2>2. call.step_id \in DOMAIN tables.steps
      BY <1>2, <1>6, CallIsTold
    <2>3. tables.steps[call.step_id].execution_id = call.execution_id
      BY <1>2, <1>6, CallIsTold
    <2>4. QED BY <2>1, <2>2, <2>3
  <1>7. CallsFit
    BY <1>1, <1>6 DEF CallsFit
  <1>8. QED BY <1>1, <1>5, <1>7

LEMMA ReportIsMade ==
  ASSUME BornApart, InsightsInv, LearningInv, NEW req, request = req, req.limit \in Nat, IsSeq(req.per),
         \A i \in DOMAIN req.per : MetricsAreTrue(req.per[i]), Names(req.per) = Names(req.listing),
         ~ changed => req.listing \in ListScope, RollupIsTrue(req.agg, ListScope),
         NEW next, next.per = req.per, next.agg = req.agg,
         next.score = EvaluationScore(req.per), next.anomalies = DetectAnomalies(req.per, req.agg)
  PROVE  ReportIsTrue(next)
  <1>1. PICK per, agg, flags, score : per = req.per /\ agg = req.agg /\ flags = next.anomalies /\ score = next.score
    OBVIOUS
  <1>2. score = NoRate \/ score \in 0..(20 * Unit)
    <2>1. \A i \in DOMAIN per : IsRate(per[i].fallback_rate) /\ IsRate(per[i].tool_rate)
      BY <1>1 DEF MetricsAreTrue
    <2>2. IsSeq(per)
      BY <1>1
    <2>3. EvaluationScore(per) = NoRate \/ EvaluationScore(per) \in 0..(20 * Unit)
      BY <2>1, <2>2, ScoreIsInRange
    <2>4. QED BY <1>1, <2>3
  <1>3. ASSUME NEW w \in DOMAIN agg.by_workflow
        PROVE  agg.by_workflow[w].failed <= Cardinality(FailedRuns(w, DOMAIN db.executions))
    <2>1. PICK c : c = Cardinality(FailedRuns(w, DOMAIN db.executions))
      OBVIOUS
    <2>2. agg.by_workflow[w].failed \in 0..c
      BY <1>1, <2>1 DEF RollupIsTrue, FailuresAreStored
    <2>3. QED BY <2>1, <2>2
  <1>4. ASSUME ~ changed PROVE FlagsAreExact(flags, InReport(next))
    <2>1. PICK scope : scope = InReport(next)
      OBVIOUS
    <2>2. scope = ToSet(Names(per))
      BY <1>1, <2>1, ReportedAreListed
    <2>3. PICK rows \in ListScope : Tells(agg, ToSet(Names(rows)))
      BY <1>1, <1>4 DEF RollupIsTrue
    <2>4. PICK names : OnlyListed(names)
      <3>1. request.limit \in Nat
        OBVIOUS
      <3>2. QED BY <3>1, ListedNames
    <2>5. rows = req.listing
      BY <1>4, <2>3, <2>4 DEF OnlyListed
    <2>6. Names(rows) = Names(per)
      BY <1>1, <2>5
    <2>7. Tells(agg, scope)
      BY <2>2, <2>3, <2>6
    <2>8. flags = DetectAnomalies(per, agg)
      BY <1>1
    <2>9. IsFiniteSet(DOMAIN db.tool_calls) /\ IsFiniteSet(DOMAIN db.evaluations)
      BY TablesAreFinite
    <2>10. FlagsAreExact(flags, scope)
      BY <2>7, <2>8, <2>9, AnomaliesAreExact
    <2>11. QED BY <2>1, <2>10
  <1>5. \A w \in DOMAIN next.agg.by_workflow :
          next.agg.by_workflow[w].failed <= Cardinality(FailedRuns(w, DOMAIN db.executions))
    BY <1>1, <1>3
  <1>6. QED BY <1>1, <1>2, <1>4, <1>5, Zenon DEF ReportIsTrue

\* What a request for a summary has read and listed.
LEMMA SummaryHolds ==
  ASSUME InsightsInv, EvaluationInv, NEW req, request = req, IsSummary(req), req.pc # "list",
         NEW own, own = Own(db, run, req.id)
  PROVE  /\ SummaryIsTrue(req, ListScope) /\ InTurn(req) /\ req.limit \in Nat
         /\ {"workflow", "limit", "id", "listing"} \subseteq DOMAIN req
         /\ req.todo \in Seq(own) /\ own \subseteq DOMAIN db.executions
         /\ IsSeq(req.per) /\ IsSeq(req.listing)
         /\ \A i \in DOMAIN req.per : MetricsAreTrue(req.per[i]) /\ req.per[i].execution_id \in DOMAIN db.executions
         /\ ~ changed => req.listing \in ListScope
  <1>1. /\ SummaryIsTrue(req, ListScope) /\ Rightful(req, own) /\ req.kind # "mukti" /\ req.kind # "metrics"
        /\ req.limit \in Nat /\ {"pc", "kind", "id", "code", "limit", "workflow"} \subseteq DOMAIN req
        /\ own \subseteq DOMAIN db.executions /\ {"listing", "todo", "per", "read"} \subseteq DOMAIN req
    BY SummaryKnown
  <1>2. req.todo \in Seq(own) /\ RowsOwn(req.per, own) /\ RowsOwn(req.listing, own)
    BY <1>1 DEF Rightful
  <1>3. InTurn(req) /\ \A i \in DOMAIN req.per : MetricsAreTrue(req.per[i])
    BY <1>1 DEF SummaryIsTrue
  <1>4. ~ changed => req.listing \in ListScope
    BY <1>1 DEF SummaryIsTrue
  <1>5. IsSeq(req.per) /\ IsSeq(req.listing) /\ \A i \in DOMAIN req.per : req.per[i].execution_id \in own
    BY <1>2 DEF RowsOwn, IsSeq
  <1>6. QED BY <1>1, <1>2, <1>3, <1>4, <1>5

LEMMA MetricsReadEvaluates ==
  ASSUME BornApart, InsightsInv, LearningInv, EvaluationInv, MetricsRead PROVE EvaluationInv'
  <1>1. PICK req : req = request
    OBVIOUS
  <1>2. req.pc = "metrics" /\ req.todo = <<>>
    BY <1>1 DEF MetricsRead
  <1>3. /\ req = [f \in DOMAIN req |-> req[f]]
        /\ {"pc", "kind", "id", "code", "todo", "per", "read"} \subseteq DOMAIN req
    BY <1>1, <1>2, MetricsFields
  <1>4. \/ req.kind = "metrics" /\ Step([req EXCEPT !.pc = "done"])
        \/ /\ "agg" \notin DOMAIN req
           /\ Step(Merged(req, [loaded |-> <<>>, todo |-> Names(req.listing), pc |-> "load"]))
        \/ /\ "agg" \in DOMAIN req
           /\ Step(Merged(req, [anomalies |-> DetectAnomalies(req.per, req.agg),
                                score |-> EvaluationScore(req.per), pc |-> "done"]))
    BY <1>1 DEF MetricsRead
  <1>5. PICK own : own = Own(db, run, req.id)
    OBVIOUS
  <1>6. ASSUME IsSummary(req)
        PROVE  Names(req.per) = Names(req.listing)
    <2>1. InTurn(req) /\ IsSeq(req.per)
      BY <1>1, <1>2, <1>5, <1>6, SummaryHolds
    <2>2. PICK names, per, todo : names = Names(req.listing) /\ per = req.per /\ todo = req.todo
      OBVIOUS
    <2>3. Names(per) \o todo = names /\ IsSeq(per) /\ todo = <<>>
      BY <1>2, <2>1, <2>2 DEF InTurn
    <2>4. Names(per) = names
      BY ONLY <2>3, NothingAfter
    <2>5. QED BY <2>2, <2>4
  <1>7. CASE req.kind = "metrics" /\ Step([req EXCEPT !.pc = "done"])
    <2>1. PICK next : next = [req EXCEPT !.pc = "done"]
      OBVIOUS
    <2>2. next.kind = "metrics"
      BY <1>3, <1>7, <2>1
    <2>3. request' = next
      BY <1>7, <2>1 DEF Step
    <2>4. QED BY <2>2, <2>3, OtherRequestsEvaluate DEF IsSummary
  <1>8. CASE /\ "agg" \notin DOMAIN req
             /\ Step(Merged(req, [loaded |-> <<>>, todo |-> Names(req.listing), pc |-> "load"]))
    <2>1. PICK todo, loaded : todo = Names(req.listing) /\ loaded = <<>>
      OBVIOUS
    <2>2. PICK more : more = [loaded |-> loaded, todo |-> todo, pc |-> "load"]
      OBVIOUS
    <2>3. PICK next : next = Merged(req, more)
      OBVIOUS
    <2>4. /\ DOMAIN more = {"loaded", "todo", "pc"} /\ more.todo = todo /\ more.pc = "load"
          /\ more.loaded = loaded
      BY <2>2
    <2>5. /\ DOMAIN next = DOMAIN req \cup DOMAIN more /\ \A f \in DOMAIN more : next[f] = more[f]
          /\ \A f \in DOMAIN req \ DOMAIN more : next[f] = req[f]
      BY <2>3 DEF Merged
    <2>6. /\ next.kind = req.kind /\ next.code = req.code /\ next.pc = "load" /\ next.todo = todo
          /\ next.loaded = loaded /\ next.per = req.per /\ "agg" \notin DOMAIN next /\ "loaded" \in DOMAIN next
      BY <1>3, <1>8, <2>4, <2>5
    <2>7. Step(next)
      BY <1>8, <2>1, <2>2, <2>3
    <2>8. ~ IsReport(next)
      BY <2>6 DEF IsReport
    <2>9. ASSUME IsSummary(req)
          PROVE  /\ SummaryIsTrue(next, ListScope) /\ next.id = req.id
                 /\ next.workflow = req.workflow /\ next.limit = req.limit
      <3>1. /\ InTurn(req) /\ {"workflow", "limit", "id", "listing"} \subseteq DOMAIN req
            /\ ~ changed => req.listing \in ListScope
            /\ \A i \in DOMAIN req.per : MetricsAreTrue(req.per[i])
        BY <1>1, <1>2, <1>5, <2>9, SummaryHolds
      <3>2. /\ next.id = req.id /\ next.workflow = req.workflow /\ next.limit = req.limit
            /\ "workflow" \in DOMAIN next /\ next.listing = req.listing
        BY <2>4, <2>5, <3>1
      <3>3. DOMAIN loaded = {}
        BY <2>1
      <3>4. InTurn(next)
        BY <1>6, <2>1, <2>6, <2>9, <3>1, <3>2, <3>3 DEF InTurn
      <3>5. LoadedIsTrue(next)
        BY <2>6, <3>3 DEF LoadedIsTrue
      <3>6. SummaryIsTrue(next, ListScope)
        BY <2>6, <3>1, <3>2, <3>4, <3>5 DEF SummaryIsTrue
      <3>7. QED BY <3>2, <3>6
    <2>10. QED BY <1>1, <1>2, <2>6, <2>7, <2>8, <2>9, StepEvaluates
  <1>9. CASE /\ "agg" \in DOMAIN req
             /\ Step(Merged(req, [anomalies |-> DetectAnomalies(req.per, req.agg),
                                  score |-> EvaluationScore(req.per), pc |-> "done"]))
    <2>1. PICK flags, score : flags = DetectAnomalies(req.per, req.agg) /\ score = EvaluationScore(req.per)
      OBVIOUS
    <2>2. PICK more : more = [anomalies |-> flags, score |-> score, pc |-> "done"]
      OBVIOUS
    <2>3. PICK next : next = Merged(req, more)
      OBVIOUS
    <2>4. /\ DOMAIN more = {"anomalies", "score", "pc"} /\ more.pc = "done"
          /\ more.anomalies = flags /\ more.score = score
      BY <2>2
    <2>5. /\ DOMAIN next = DOMAIN req \cup DOMAIN more /\ \A f \in DOMAIN more : next[f] = more[f]
          /\ \A f \in DOMAIN req \ DOMAIN more : next[f] = req[f]
      BY <2>3 DEF Merged
    <2>6. /\ next.kind = req.kind /\ next.code = req.code /\ next.pc = "done" /\ next.agg = req.agg
          /\ next.per = req.per /\ "agg" \in DOMAIN next /\ next.anomalies = flags /\ next.score = score
      BY <1>3, <1>9, <2>4, <2>5
    <2>7. Step(next)
      BY <1>9, <2>1, <2>2, <2>3
    <2>8. ASSUME IsSummary(req)
          PROVE  /\ SummaryIsTrue(next, ListScope) /\ next.id = req.id
                 /\ next.workflow = req.workflow /\ next.limit = req.limit
                 /\ ReportIsTrue(next)
      <3>1. /\ InTurn(req) /\ {"workflow", "limit", "id", "listing"} \subseteq DOMAIN req
            /\ ~ changed => req.listing \in ListScope
            /\ \A i \in DOMAIN req.per : MetricsAreTrue(req.per[i])
        BY <1>1, <1>2, <1>5, <2>8, SummaryHolds
      <3>2. req.limit \in Nat /\ IsSeq(req.per) /\ SummaryIsTrue(req, ListScope)
        BY <1>1, <1>2, <1>5, <2>8, SummaryHolds
      <3>3. /\ next.id = req.id /\ next.workflow = req.workflow /\ next.limit = req.limit
            /\ "workflow" \in DOMAIN next /\ next.listing = req.listing
        BY <2>4, <2>5, <3>1
      <3>4. RollupIsTrue(req.agg, ListScope)
        BY <1>9, <3>2 DEF SummaryIsTrue
      <3>5. InTurn(next)
        BY <1>6, <2>6, <2>8, <3>1, <3>3 DEF InTurn
      <3>6. LoadedIsTrue(next)
        BY <2>6 DEF LoadedIsTrue
      <3>7. SummaryIsTrue(next, ListScope)
        BY <2>6, <3>1, <3>3, <3>4, <3>5, <3>6, Zenon DEF SummaryIsTrue
      <3>8. Names(req.per) = Names(req.listing)
        BY <1>6, <2>8
      <3>9. ReportIsTrue(next)
        BY <1>1, <2>1, <2>6, <3>1, <3>2, <3>4, <3>8, ReportIsMade
      <3>10. QED BY <3>3, <3>7, <3>9
    <2>9. QED BY <1>1, <1>2, <2>6, <2>7, <2>8, StepEvaluates
  <1>10. QED BY <1>4, <1>7, <1>8, <1>9

LEMMA LoadStepsEvaluates ==
  ASSUME InsightsInv, EvaluationInv, LoadSteps PROVE EvaluationInv'
  <1>1. PICK req : req = request
    OBVIOUS
  <1>2. req.pc = "load" /\ req.todo # <<>>
    BY <1>1 DEF LoadSteps
  <1>3. /\ req = [f \in DOMAIN req |-> req[f]]
        /\ {"pc", "kind", "id", "code", "todo", "per", "read"} \subseteq DOMAIN req
    BY <1>1, <1>2, MetricsFields
  <1>4. PICK x, read : x = Head(req.todo) /\ read = [steps |-> StepsRead(x)]
    OBVIOUS
  <1>5. PICK next : next = [req EXCEPT !.pc = "tools", !.read = read]
    OBVIOUS
  <1>6. Step(next)
    BY <1>1, <1>4, <1>5 DEF LoadSteps
  <1>7. /\ DOMAIN next = DOMAIN req /\ next.pc = "tools" /\ next.read = read
        /\ \A f \in DOMAIN req \ {"pc", "read"} : next[f] = req[f]
    BY <1>3, <1>5
  <1>8. /\ next.kind = req.kind /\ next.code = req.code /\ next.todo = req.todo /\ next.per = req.per
    BY <1>3, <1>7
  <1>9. ~ IsReport(next)
    BY <1>7 DEF IsReport
  <1>10. PICK own : own = Own(db, run, req.id)
    OBVIOUS
  <1>11. ASSUME IsSummary(req)
         PROVE  /\ SummaryIsTrue(next, ListScope) /\ next.id = req.id
                /\ next.workflow = req.workflow /\ next.limit = req.limit
    <2>1. /\ InTurn(req) /\ {"workflow", "limit", "id", "listing"} \subseteq DOMAIN req
          /\ ~ changed => req.listing \in ListScope
          /\ \A i \in DOMAIN req.per : MetricsAreTrue(req.per[i])
          /\ SummaryIsTrue(req, ListScope)
      BY <1>1, <1>2, <1>10, <1>11, SummaryHolds
    <2>2. /\ next.id = req.id /\ next.workflow = req.workflow /\ next.limit = req.limit
          /\ "workflow" \in DOMAIN next /\ next.listing = req.listing
      BY <1>7, <2>1
    <2>3. "loaded" \in DOMAIN req /\ next.loaded = req.loaded
      <3>1. "loaded" \in DOMAIN req
        BY <1>2, <2>1 DEF InTurn
      <3>2. QED BY <1>7, <3>1
    <2>4. InTurn(next)
      BY <1>2, <1>7, <1>8, <2>1, <2>2, <2>3 DEF InTurn
    <2>5. LoadedIsTrue(next)
      <3>1. LoadedIsTrue(req)
        BY <2>1 DEF SummaryIsTrue
      <3>2. "steps" \in DOMAIN read /\ read.steps = StepsRead(x)
        BY <1>4
      <3>3. QED BY <1>2, <1>4, <1>7, <1>8, <2>3, <3>1, <3>2 DEF LoadedIsTrue
    <2>6. "agg" \in DOMAIN next => RollupIsTrue(next.agg, ListScope)
      BY <1>7, <2>1 DEF SummaryIsTrue
    <2>7. SummaryIsTrue(next, ListScope)
      BY <1>7, <1>8, <2>1, <2>2, <2>4, <2>5, <2>6, Zenon DEF SummaryIsTrue
    <2>8. QED BY <2>2, <2>7
  <1>12. QED BY <1>1, <1>2, <1>6, <1>8, <1>9, <1>11, StepEvaluates

LEMMA LoadToolsEvaluates ==
  ASSUME InsightsInv, EvaluationInv, LoadTools PROVE EvaluationInv'
  <1>1. PICK req : req = request
    OBVIOUS
  <1>2. req.pc = "tools"
    BY <1>1 DEF LoadTools
  <1>3. /\ req = [f \in DOMAIN req |-> req[f]] /\ req.todo # <<>>
        /\ {"pc", "kind", "id", "code", "todo", "per", "read"} \subseteq DOMAIN req
    BY <1>1, <1>2, MetricsFields
  <1>4. PICK x, rest, steps : x = Head(req.todo) /\ rest = Tail(req.todo) /\ steps = req.read.steps
    OBVIOUS
  <1>5. PICK dims : dims = [steps |-> steps, tools |-> ToolsRead(steps)]
    OBVIOUS
  <1>6. PICK loaded : loaded = With(req.loaded, x, dims)
    OBVIOUS
  <1>7. PICK next : next = [req EXCEPT !.pc = "load", !.read = NoRead, !.todo = rest,
                                       !.loaded = With(@, x, dims)]
    OBVIOUS
  <1>8. Step(next)
    BY <1>1, <1>4, <1>5, <1>7 DEF LoadTools
  <1>9. /\ DOMAIN next = DOMAIN req /\ next.pc = "load" /\ next.todo = rest
        /\ "loaded" \in DOMAIN req => next.loaded = loaded
    BY <1>3, <1>6, <1>7
  <1>10. \A f \in DOMAIN req \ {"pc", "read", "todo", "loaded"} : next[f] = req[f]
    BY <1>3, <1>7
  <1>11. next.kind = req.kind /\ next.code = req.code /\ next.per = req.per
    BY <1>3, <1>10
  <1>12. ~ IsReport(next)
    BY <1>9 DEF IsReport
  <1>13. PICK own : own = Own(db, run, req.id)
    OBVIOUS
  <1>14. ASSUME IsSummary(req)
         PROVE  /\ SummaryIsTrue(next, ListScope) /\ next.id = req.id
                /\ next.workflow = req.workflow /\ next.limit = req.limit
    <2>1. /\ InTurn(req) /\ {"workflow", "limit", "id", "listing"} \subseteq DOMAIN req
          /\ ~ changed => req.listing \in ListScope
          /\ \A i \in DOMAIN req.per : MetricsAreTrue(req.per[i])
          /\ SummaryIsTrue(req, ListScope) /\ req.todo \in Seq(own)
      BY <1>1, <1>2, <1>13, <1>14, SummaryHolds
    <2>2. /\ next.id = req.id /\ next.workflow = req.workflow /\ next.limit = req.limit
          /\ "workflow" \in DOMAIN next /\ next.listing = req.listing
      BY <1>9, <1>10, <2>1
    <2>3. "loaded" \in DOMAIN req /\ DOMAIN req.loaded \cup ToSet(req.todo) = ToSet(Names(req.listing))
      BY <1>2, <2>1 DEF InTurn
    <2>4. next.loaded = loaded
      BY <1>9, <2>3
    <2>5. PICK old, todo : old = req.loaded /\ todo = req.todo
      OBVIOUS
    <2>6. /\ DOMAIN loaded = DOMAIN old \cup {x} /\ loaded[x] = dims
          /\ \A y \in DOMAIN old \ {x} : loaded[y] = old[y]
      BY <1>6, <2>5 DEF With, Merged
    <2>7. \A e : e \in ToSet(todo) <=> e = x \/ e \in ToSet(rest)
      BY <1>3, <1>4, <2>1, <2>5, HeadAndTail
    <2>8. DOMAIN loaded \cup ToSet(rest) = ToSet(Names(req.listing))
      BY <2>3, <2>5, <2>6, <2>7
    <2>9. InTurn(next)
      BY <1>2, <1>9, <1>11, <2>1, <2>2, <2>3, <2>4, <2>8 DEF InTurn
    <2>10. LoadedIsTrue(next)
      <3>1. LoadedIsTrue(req)
        BY <2>1 DEF SummaryIsTrue
      <3>2. ASSUME ~ changed, NEW y \in DOMAIN loaded
            PROVE  loaded[y].steps = StepsRead(y) /\ loaded[y].tools = ToolsRead(StepsRead(y))
        <4>1. CASE y = x
          <5>1. steps = StepsRead(x)
            BY <1>2, <1>4, <3>1, <3>2 DEF LoadedIsTrue
          <5>2. dims.steps = steps /\ dims.tools = ToolsRead(steps)
            BY <1>5
          <5>3. QED BY <2>6, <4>1, <5>1, <5>2
        <4>2. CASE y # x
          BY <1>2, <2>5, <2>6, <3>1, <3>2, <4>2 DEF LoadedIsTrue
        <4>3. QED BY <4>1, <4>2
      <3>3. QED BY <1>9, <2>4, <3>2 DEF LoadedIsTrue
    <2>11. "agg" \in DOMAIN next => RollupIsTrue(next.agg, ListScope)
      BY <1>9, <1>10, <2>1 DEF SummaryIsTrue
    <2>12. SummaryIsTrue(next, ListScope)
      BY <1>9, <1>11, <2>1, <2>2, <2>9, <2>10, <2>11, Zenon DEF SummaryIsTrue
    <2>13. QED BY <2>2, <2>12
  <1>15. QED BY <1>1, <1>2, <1>8, <1>11, <1>12, <1>14, StepEvaluates

\* The rollups of what was read and loaded.
LEMMA RollupIsMade ==
  ASSUME InsightsInv, LearningInv, NEW per, IsSeq(per),
         \A i \in DOMAIN per : MetricsAreTrue(per[i]) /\ per[i].execution_id \in DOMAIN db.executions,
         NEW listing, Names(per) = Names(listing),
         \A i, j \in DOMAIN Names(listing) : Names(listing)[i] = Names(listing)[j] => i = j,
         NEW loaded, DOMAIN loaded = ToSet(Names(listing)),
         ~ changed => \A x \in DOMAIN loaded : loaded[x].tools = ToolsRead(StepsRead(x)),
         ~ changed => listing \in ListScope,
         NEW agg, agg = Aggregate(per, listing, loaded)
  PROVE  RollupIsTrue(agg, ListScope)
  <1>1. PICK names : names = Names(per)
    OBVIOUS
  <1>2. /\ DOMAIN names = DOMAIN per /\ \A i \in DOMAIN per : names[i] = per[i].execution_id
        /\ \A x : x \in ToSet(names) <=> \E i \in DOMAIN per : per[i].execution_id = x
    BY <1>1, NamesOfRows
  <1>3. \A i, j \in DOMAIN names : names[i] = names[j] => i = j
    BY <1>1
  <1>4. \A i, j \in DOMAIN per : per[i].execution_id = per[j].execution_id => i = j
    BY <1>2, <1>3
  <1>5. FailuresAreStored(agg)
    <2>1. PICK workflows : workflows = ByWorkflow(per)
      OBVIOUS
    <2>2. agg.by_workflow = workflows
      BY <2>1 DEF Aggregate
    <2>3. \A i \in DOMAIN per : /\ per[i].execution_id \in DOMAIN db.executions
                                /\ per[i].workflow_type = Workflows[per[i].execution_id]
                                /\ per[i].status = "failed" => db.executions[per[i].execution_id].status = "failed"
      BY DEF MetricsAreTrue
    <2>4. IsFiniteSet(DOMAIN db.executions)
      BY TablesAreFinite
    <2>5. ASSUME NEW w \in DOMAIN workflows
          PROVE  workflows[w].failed \in 0..Cardinality(FailedRuns(w, DOMAIN db.executions))
      BY <1>4, <2>1, <2>3, <2>4, FailuresHappened
    <2>6. QED BY <2>2, <2>5 DEF FailuresAreStored
  <1>6. ASSUME ~ changed PROVE \E rows \in ListScope : Tells(agg, ToSet(Names(rows)))
    <2>1. ASSUME NEW i \in DOMAIN per
          PROVE  /\ per[i].workflow_type = Workflows[per[i].execution_id]
                 /\ per[i].status = db.executions[per[i].execution_id].status
                 /\ per[i].decisions = VerdictsRead(per[i].execution_id)
      <3>1. PICK m, x : m = per[i] /\ x = m.execution_id
        OBVIOUS
      <3>2. PICK parts : parts = PartsOf(x)
        OBVIOUS
      <3>3. MetricsAreTrue(m)
        BY <3>1
      <3>4. m = ExecutionMetrics(x, parts) /\ m.workflow_type = Workflows[x]
        BY <1>6, <3>1, <3>2, <3>3 DEF MetricsAreTrue
      <3>5. m.status = parts.execution.status /\ m.decisions = parts.decisions
        BY <3>4, MetricsOf
      <3>6. parts.execution = db.executions[x] /\ parts.decisions = VerdictsRead(x)
        BY <3>2 DEF PartsOf
      <3>7. QED BY <3>1, <3>4, <3>5, <3>6
    <2>2. PICK scope : scope = DOMAIN loaded
      OBVIOUS
    <2>3. \A x : x \in scope <=> \E i \in DOMAIN per : per[i].execution_id = x
      BY <1>1, <1>2, <2>2
    <2>4. /\ CallsFit /\ IsFiniteSet(DOMAIN db.tool_calls) /\ IsFiniteSet(DOMAIN db.evaluations)
      BY TablesAreFinite
    <2>5. \A x \in DOMAIN loaded : loaded[x].tools = ToolsRead(StepsRead(x))
      BY <1>6
    <2>6. Tells(agg, scope)
      BY <1>4, <2>1, <2>2, <2>3, <2>4, <2>5, RollupsTell
    <2>7. scope = ToSet(Names(listing)) /\ listing \in ListScope
      BY <1>6, <2>2
    <2>8. QED BY <2>6, <2>7
  <1>7. QED BY <1>5, <1>6, Zenon DEF RollupIsTrue

LEMMA RollupEvaluates ==
  ASSUME InsightsInv, LearningInv, EvaluationInv, Rollup PROVE EvaluationInv'
  <1>1. PICK req : req = request
    OBVIOUS
  <1>2. req.pc = "load" /\ req.todo = <<>>
    BY <1>1 DEF Rollup
  <1>3. /\ req = [f \in DOMAIN req |-> req[f]]
        /\ {"pc", "kind", "id", "code", "todo", "per", "read"} \subseteq DOMAIN req
    BY <1>1, <1>2, MetricsFields
  <1>4. PICK rest : rest = [k \in DOMAIN req \ {"loaded"} |-> req[k]]
    OBVIOUS
  <1>5. PICK agg, pc : /\ agg = Aggregate(req.per, req.listing, req.loaded)
                       /\ pc = IF req.kind = "aggregated" THEN "done" ELSE "list"
    OBVIOUS
  <1>6. PICK more : more = [agg |-> agg, pc |-> pc]
    OBVIOUS
  <1>7. PICK next : next = Merged(rest, more)
    OBVIOUS
  <1>8. Step(next)
    BY <1>1, <1>4, <1>5, <1>6, <1>7 DEF Rollup
  <1>9. DOMAIN more = {"agg", "pc"} /\ more.pc = pc /\ more.agg = agg
    BY <1>6
  <1>10. DOMAIN rest = DOMAIN req \ {"loaded"} /\ \A f \in DOMAIN rest : rest[f] = req[f]
    BY <1>4
  <1>11. /\ DOMAIN next = DOMAIN rest \cup DOMAIN more /\ \A f \in DOMAIN more : next[f] = more[f]
         /\ \A f \in DOMAIN rest \ DOMAIN more : next[f] = rest[f]
    BY <1>7 DEF Merged
  <1>12. /\ \A f \in DOMAIN req \ {"loaded", "agg", "pc"} : f \in DOMAIN next /\ next[f] = req[f]
         /\ next.agg = agg /\ next.pc = pc
    BY <1>9, <1>10, <1>11
  <1>13. next.kind = req.kind /\ next.code = req.code /\ next.per = req.per
    BY <1>3, <1>12
  <1>14. ~ IsReport(next)
    BY <1>5, <1>12, <1>13 DEF IsReport
  <1>15. PICK own : own = Own(db, run, req.id)
    OBVIOUS
  <1>16. ASSUME IsSummary(req)
         PROVE  /\ SummaryIsTrue(next, ListScope) /\ next.id = req.id
                /\ next.workflow = req.workflow /\ next.limit = req.limit
    <2>1. /\ InTurn(req) /\ {"workflow", "limit", "id", "listing"} \subseteq DOMAIN req
          /\ ~ changed => req.listing \in ListScope
          /\ \A i \in DOMAIN req.per : MetricsAreTrue(req.per[i]) /\ req.per[i].execution_id \in DOMAIN db.executions
          /\ SummaryIsTrue(req, ListScope) /\ IsSeq(req.per)
      BY <1>1, <1>2, <1>15, <1>16, SummaryHolds
    <2>2. /\ next.id = req.id /\ next.workflow = req.workflow /\ next.limit = req.limit
          /\ "workflow" \in DOMAIN next /\ next.listing = req.listing
      BY <1>12, <2>1
    <2>3. /\ Names(req.per) = Names(req.listing)
          /\ \A i, j \in DOMAIN Names(req.listing) : Names(req.listing)[i] = Names(req.listing)[j] => i = j
          /\ DOMAIN req.loaded \cup ToSet(req.todo) = ToSet(Names(req.listing))
      BY <1>2, <2>1 DEF InTurn
    <2>4. PICK per, listing, loaded : per = req.per /\ listing = req.listing /\ loaded = req.loaded
      OBVIOUS
    <2>5. RollupIsTrue(agg, ListScope)
      <3>1. DOMAIN loaded = ToSet(Names(listing))
        <4>1. ToSet(req.todo) = {}
          BY <1>2, Nothing
        <4>2. QED BY <2>3, <2>4, <4>1
      <3>2. ~ changed => \A x \in DOMAIN loaded : loaded[x].tools = ToolsRead(StepsRead(x))
        BY <1>2, <2>1, <2>4 DEF SummaryIsTrue, LoadedIsTrue
      <3>3. /\ IsSeq(per)
            /\ \A i \in DOMAIN per : MetricsAreTrue(per[i]) /\ per[i].execution_id \in DOMAIN db.executions
        BY <2>1, <2>4
      <3>4. /\ Names(per) = Names(listing)
            /\ \A i, j \in DOMAIN Names(listing) : Names(listing)[i] = Names(listing)[j] => i = j
        BY <2>3, <2>4
      <3>5. ~ changed => listing \in ListScope
        BY <2>1, <2>4
      <3>6. agg = Aggregate(per, listing, loaded)
        BY <1>5, <2>4
      <3>7. QED BY <3>1, <3>2, <3>3, <3>4, <3>5, <3>6, RollupIsMade
    <2>6. next.pc \in {"done", "list"}
      BY <1>5, <1>12
    <2>7. InTurn(next)
      BY <1>13, <2>2, <2>3, <2>6 DEF InTurn
    <2>8. LoadedIsTrue(next)
      BY <2>6 DEF LoadedIsTrue
    <2>9. "agg" \in DOMAIN next
      BY <1>9, <1>11
    <2>10. SummaryIsTrue(next, ListScope)
      BY <1>12, <1>13, <2>1, <2>2, <2>5, <2>6, <2>7, <2>8, <2>9, Zenon DEF SummaryIsTrue
    <2>11. QED BY <2>2, <2>10
  <1>17. QED BY <1>1, <1>2, <1>8, <1>13, <1>14, <1>16, StepEvaluates

LEMMA EvaluationInit == Init => EvaluationInv
  <1> SUFFICES ASSUME Init PROVE EvaluationInv
    OBVIOUS
  <1>1. PICK req : req = request
    OBVIOUS
  <1>2. req.pc = "idle"
    BY <1>1 DEF Init, NoRequest
  <1>3. ~ IsSummary(req) /\ ~ IsReport(req)
    BY <1>2 DEF IsSummary, IsReport
  <1>4. QED BY <1>1, <1>3, EvaluationMeans

LEMMA EvaluationSteps ==
  BornApart => (InsightsInv /\ InsightsInv' /\ LearningInv /\ EvaluationInv /\ [Next]_vars => EvaluationInv')
  <1> SUFFICES ASSUME BornApart, InsightsInv, InsightsInv', LearningInv, EvaluationInv, [Next]_vars
               PROVE  EvaluationInv'
    OBVIOUS
  <1>1. ASSUME UNCHANGED <<db, request, changed>> PROVE EvaluationInv'
    BY <1>1, OthersEvaluate DEF Untouched
  <1>2. CASE UNCHANGED vars
    BY <1>1, <1>2 DEF vars
  <1>3. ASSUME NEW x \in Executions, Create(x) \/ Drive(x) \/ SubmitFeedback(x) \/ StartAnalysis(x)
        PROVE  EvaluationInv'
    <2>1. CASE Create(x) \/ StartAnalysis(x)
      BY <1>1, <2>1 DEF Create, StartAnalysis
    <2>2. QED BY <1>3, <2>1, DriveEvaluates, SubmitFeedbackEvaluates
  <1>4. ASSUME ReadExecution \/ ReadSteps \/ ReadDecisions \/ ReadProposals \/ SaveAnalysis
        PROVE  EvaluationInv'
    <2>1. CASE ReadExecution \/ ReadSteps \/ ReadDecisions \/ ReadProposals
      BY <1>1, <2>1 DEF ReadExecution, ReadSteps, ReadDecisions, ReadProposals, PipeReads
    <2>2. QED BY <1>4, <2>1, SaveAnalysisEvaluates
  <1>5. ASSUME \/ \E kind \in {"aggregated", "anomalies", "mukti"} : Receive(kind)
               \/ \E x \in Executions : ReceiveMetrics(x)
        PROVE  EvaluationInv'
    BY <1>5, ReceiveEvaluates, ReceiveMetricsEvaluates
  <1>6. ASSUME List \/ ReadFeedback \/ ReadMetrics \/ MetricsRead \/ LoadSteps \/ LoadTools \/ Rollup
        PROVE  EvaluationInv'
    BY <1>6, ListEvaluates, ReadFeedbackEvaluates, ReadMetricsEvaluates, MetricsReadEvaluates,
       LoadStepsEvaluates, LoadToolsEvaluates, RollupEvaluates
  <1>7. CASE Next
    BY <1>3, <1>4, <1>5, <1>6, <1>7 DEF Next
  <1>8. QED BY <1>2, <1>7

\* When no two executions are created at the same time, every anomaly report has a score
\* between 0 and 1 and counts only failures that are stored, whoever writes in the meantime;
\* and when nobody does, it flags exactly the workflows, the denials and the tools that the
\* tables show, although it is put together from two listings and two readings of every
\* execution (get_evaluation_summary, detect_anomalies, compute_evaluation_score).
THEOREM EvaluationsAreSound == ASSUME BornApart PROVE Spec => []EvaluationIsSound
  <1>1. InsightsInv /\ InsightsInv' /\ LearningInv /\ EvaluationInv /\ [Next]_vars => EvaluationInv'
    BY EvaluationSteps
  <1>2. Spec => []EvaluationInv
    BY <1>1, InsightsInvariance, LearningInvariance, EvaluationInit, PTL DEF Spec
  <1>3. EvaluationInv => EvaluationIsSound
    BY DEF EvaluationInv
  <1>4. QED BY <1>2, <1>3, PTL
===============================================================================
