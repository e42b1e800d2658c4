-------------------------------- MODULE Tables --------------------------------
(***************************************************************************)
(* The PostgreSQL schema as a guard on writes.  A table maps primary keys  *)
(* to rows, a row is a record of the columns somebody reads or that other  *)
(* rows refer to, and a null column is one the record does not have.       *)
(* Nothing is ever deleted.                                                *)
(***************************************************************************)
EXTENDS Integers, FiniteSets

\* REFERENCES: for each table, the columns that name a row of another one.
ForeignKeys ==
  [contexts   |-> {},
   executions |-> {<<"execution_context_id", "contexts">>, <<"parent_execution_id", "executions">>,
                   <<"current_plan_id", "plans">>},
   plans      |-> {<<"execution_id", "executions">>, <<"parent_plan_id", "plans">>},
   steps      |-> {<<"execution_id", "executions">>, <<"plan_id", "plans">>},
   results    |-> {<<"step_id", "steps">>},
   tool_calls |-> {<<"execution_id", "executions">>, <<"step_id", "steps">>,
                   <<"execution_context_id", "contexts">>, <<"action_proposal_id", "proposals">>},
   proposals   |-> {<<"execution_id", "executions">>, <<"step_id", "steps">>},
   evaluations |-> {<<"execution_id", "executions">>, <<"execution_context_id", "contexts">>},
   approvals   |-> {<<"execution_id", "executions">>, <<"policy_evaluation_id", "evaluations">>,
                    <<"action_proposal_id", "proposals">>},
   operator_feedback  |-> {<<"execution_id", "executions">>},
   execution_feedback |-> {<<"execution_id", "executions">>}]

Empty == [t \in DOMAIN ForeignKeys |-> <<>>]

\* UNIQUE beside the primary keys; a step has one result because save_step_result
\* looks for it first, and the table is keyed by the step here.
UniqueKeys(table) ==
  CASE table = "executions" -> {{"execution_context_id"}}
    [] table = "plans" -> {{"execution_id", "plan_version"}}
    [] OTHER -> {}

\* The only CHECK that relates columns to each other.  Those on the values of one
\* column (enumerations, plan_version > 0, retry_count >= 0, confidence_score
\* between 0 and 1, latency_ms) are left out.
Checked(table, row) ==
  table = "approvals" => {"policy_evaluation_id", "action_proposal_id"} \cap DOMAIN row # {}

References(db, table, row) ==
  \A fk \in ForeignKeys[table] : fk[1] \in DOMAIN row => row[fk[1]] \in DOMAIN db[fk[2]]

Unique(db, table, key, row) ==
  \A columns \in UniqueKeys(table), k \in DOMAIN db[table] \ {key} :
    \E c \in columns : db[table][k][c] # row[c]

Accepts(db, table, key, row) ==
  References(db, table, row) /\ Unique(db, table, key, row) /\ Checked(table, row)

\* session.merge: the row replaces the one with its key, if there is one.
Save(db, table, key, row) ==
  [db EXCEPT ![table] = [k \in DOMAIN @ \cup {key} |-> IF k = key THEN row ELSE @[k]]]

RowsOf(db, table, x) == {k \in DOMAIN db[table] : db[table][k].execution_id = x}
=============================================================================
