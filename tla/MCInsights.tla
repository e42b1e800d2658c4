------------------------------ MODULE MCInsights ------------------------------
(* x1 is live; x2 (same tenant) and x3 (another one) have ended. *)
EXTENDS Insights, TLC

MCExecutions == {"x1", "x2", "x3"}
MCBorn == [x1 |-> 3, x2 |-> 1, x3 |-> 2]
MCWorkflows == [x1 |-> "incident_triage", x2 |-> "incident_triage", x3 |-> "default"]

Fate(path, tool, decision, approval, steps) ==
  [path |-> path, tool |-> tool, validation |-> "passed", decision |-> decision,
   approval |-> approval, steps |-> steps]

Good == Fate("model_runtime", "success", "allow", "none", 9)
Bad == Fate("deterministic_fallback", "failure", "deny", "none", 9)
Approved == Fate("deterministic_fallback", "success", "conditional", "approve", 9)
Rejected == Fate("model_runtime", "failure", "conditional", "reject", 9)
Stopped == Fate("deterministic_fallback", "failure", "allow", "none", 2)

MCFates == {Good, Bad, Approved, Rejected, Stopped}

Header(tenant, roles) == [principal |-> "p", tenant |-> tenant, roles |-> roles]
MCHeaders == {Header("acme", {"operator"}), Header("globex", {"auditor"}),
              [principal |-> NoHeader, tenant |-> NoHeader, roles |-> {}]}

Run(tenant, fate, at) == [tenant |-> tenant, fate |-> fate, at |-> at]
Before(x, r) == SubSeq(Program(x, r), 1, r.at - 1)
Over(x, tenant, fate) == Run(tenant, fate, Len(Program(x, Run(tenant, fate, 0))) + 1)

\* Analyses of ended executions that are already stored.
Old(row, n) == Write("execution_feedback", n, [created_at |-> n] @@ row)
OldRow(x, types, patterns, suggestions) ==
  [execution_id |-> x, failure_types |-> types, patterns |-> patterns, suggestions |-> suggestions]
DeniedRow == OldRow("x2", {"terminal_failed"} \cup PolicyTypes,
                <<Pattern(Fallback, <<"x2", 1>>), Pattern(Fallback, <<"x2", 3>>)>>,
                <<Suggestion("review_rules"), Suggestion("align_intent")>>)
OtherRow == OldRow("x3", {}, <<Pattern(Clean, NoStep)>>, <<>>)

Earlier == [x1 |-> Run("acme", Good, 0), x2 |-> Over("x2", "acme", Bad), x3 |-> Over("x3", "globex", Good)]
History == Before("x2", Earlier["x2"]) \o Before("x3", Earlier["x3"])

Left(remarks, analyses, writes, kinds, limits, workflows) ==
  [remarks |-> remarks, analyses |-> analyses, writes |-> writes, kinds |-> kinds,
   limits |-> limits, workflows |-> workflows]

OldRows == <<Old(DeniedRow, 1), Old(OtherRow, 2), Old(OtherRow, 3), Old(OtherRow, 4)>>

\* A run from its creation, remarked on and analysed.
Learning ==
  [run |-> Earlier, left |-> Left(1, 1, 99, {}, {}, {}), written |-> History \o OldRows]

\* The end of a run, analysed while insights are asked for.
Asking(fate, analyses) ==
  LET r == Run("acme", fate, 22)
  IN  [run |-> [Earlier EXCEPT !["x1"] = r],
       left |-> Left(0, analyses, 99, {"mukti"}, {1, 2}, {"any", "default"}),
       written |-> History \o Before("x1", r) \o OldRows]

\* A piece of a run, from one write to another, while it is evaluated.
Evaluating(fate, from, to) ==
  LET r == Run("acme", fate, from)
  IN  [run |-> [Earlier EXCEPT !["x1"] = r],
       left |-> Left(0, 0, to, {"metrics", "aggregated", "anomalies"}, {1, 2}, {"any"}),
       written |-> History \o Before("x1", r)]

MCWorkloads ==
  {Learning, Asking(Approved, 2)} \cup {Asking(f, 1) : f \in {Good, Bad, Rejected}}
  \cup {Evaluating(f, 13, 18) : f \in {Bad, Stopped}} \cup {Evaluating(f, 22, 99) : f \in {Bad, Approved}}
=============================================================================
