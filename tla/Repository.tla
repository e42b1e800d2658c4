------------------------------ MODULE Repository ------------------------------
(***************************************************************************)
(* What the two repositories do to what they store: the in-memory one      *)
(* keeps the object, the PostgreSQL one has no column for the execution    *)
(* mode and keeps it under a reserved key of the input, and promises no    *)
(* order among rows with equal times.                                      *)
(***************************************************************************)
EXTENDS Integers, Sequences, SequencesExt

Backends == {"memory", "postgres"}
Modes == {"background", "interactive"}

ModeKey == "__orch_execution_mode__"

Without(input, key) == [k \in DOMAIN input \ {key} |-> input[k]]

\* {**input, **more}
Merged(input, more) ==
  [k \in DOMAIN input \cup DOMAIN more |-> IF k \in DOMAIN more THEN more[k] ELSE input[k]]

With(input, key, value) == Merged(input, [k \in {key} |-> value])

PersistInput(ex) == With(ex.input, ModeKey, ex.execution_mode)

\* _execution_to_row: a column for every field but the mode, which goes into the input.
Persist(backend, ex) ==
  IF backend = "memory" THEN ex
  ELSE With(Without(ex, "execution_mode"), "input", PersistInput(ex))

\* A mode that is missing or unknown is background.
RestoredMode(input) ==
  IF ModeKey \in DOMAIN input /\ input[ModeKey] \in Modes THEN input[ModeKey] ELSE "background"

\* _row_to_execution
Restore(backend, row) ==
  IF backend = "memory" THEN row
  ELSE With(With(row, "execution_mode", RestoredMode(row.input)),
            "input", Without(row.input, ModeKey))

\* The orders in which a listing may return some of the rows: sorted, ties as they were
\* inserted in memory and anyhow in PostgreSQL.
Listings(backend, rows, wanted, Before(_, _)) ==
  LET places == 1 .. Cardinality(wanted)
      InOrder(p) == \A i, j \in places :
                      i < j => \/ Before(rows[p[i]], rows[p[j]])
                               \/ /\ ~ Before(rows[p[j]], rows[p[i]])
                                  /\ backend = "postgres" \/ p[i] < p[j]
  IN  {[i \in places |-> rows[p[i]]] : p \in {q \in Bijection(places, wanted) : InOrder(q)}}

Older(a, b) == a.created_at < b.created_at
Newer(a, b) == b.created_at < a.created_at

Limited(rows, limit) == SubSeq(rows, 1, Min({Len(rows), Max({1, Min({limit, 500})})}))

\* list_steps_for_execution, list_tool_calls_for_step and the like.
ListRows(backend, rows) == Listings(backend, rows, DOMAIN rows, Older)

\* list_executions_by_parent
ListByParent(backend, executions, parent, limit) ==
  {Limited(rows, limit) :
     rows \in Listings(backend, executions,
                      {i \in DOMAIN executions : executions[i].parent = parent}, Newer)}

\* list_executions; "any" stands for a filter that is not given.
ListExecutions(backend, executions, tenant, workflow, status, limit) ==
  LET Wanted(e) == /\ tenant \in {"any", e.tenant}
                   /\ workflow \in {"any", e.workflow_type}
                   /\ status \in {"any", e.status}
  IN  {Limited(rows, limit) :
         rows \in Listings(backend, executions,
                          {i \in DOMAIN executions : Wanted(executions[i])}, Newer)}
=============================================================================
