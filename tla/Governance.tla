------------------------------ MODULE Governance ------------------------------
(***************************************************************************)
(* What the platform promises about a governed action, whatever the threads*)
(* that carry it out do: an action is proposed, evaluated against policy,  *)
(* and only then settled; a human verdict is asked for only when policy    *)
(* says so and is applied only once it is on record; the outcome is        *)
(* released (the execution is completed) only when policy allows the action*)
(* or an approval of it is on record.                                      *)
(***************************************************************************)
VARIABLES proposal, decision, verdicts, released

gvars == <<proposal, decision, verdicts, released>>

Authorized ==
  \/ decision = "allow"
  \/ decision = "conditional" /\ "approve" \in verdicts

SettledAs == [deny |-> "policy_denied", allow |-> "approved",
              conditional |-> "awaiting_approval"]

AppliedAs == [approve |-> "approved", reject |-> "rejected"]

GInit ==
  /\ proposal = "none"
  /\ decision = "none"
  /\ verdicts = {}
  /\ released = FALSE

GPropose ==
  /\ proposal = "none"
  /\ proposal' = "proposed"
  /\ UNCHANGED <<decision, verdicts, released>>

GEvaluate ==
  /\ proposal = "proposed"
  /\ decision = "none"
  /\ decision' \in {"allow", "deny", "conditional"}
  /\ UNCHANGED <<proposal, verdicts, released>>

GSettle ==
  /\ proposal = "proposed"
  /\ decision \in {"allow", "deny", "conditional"}
  /\ proposal' = SettledAs[decision]
  /\ UNCHANGED <<decision, verdicts, released>>

GRecordVerdict ==
  /\ decision = "conditional"
  /\ proposal \in {"awaiting_approval", "approved", "rejected"}
  /\ \E v \in {"approve", "reject"} : verdicts' = verdicts \cup {v}
  /\ UNCHANGED <<proposal, decision, released>>

GApplyVerdict ==
  /\ proposal \in {"awaiting_approval", "approved", "rejected"}
  /\ \E v \in verdicts : proposal' = AppliedAs[v]
  /\ UNCHANGED <<decision, verdicts, released>>

GRelease ==
  /\ Authorized
  /\ released' = TRUE
  /\ UNCHANGED <<proposal, decision, verdicts>>

\* A concurrent writer may take the completed status back.
GWithdraw ==
  /\ released' = FALSE
  /\ UNCHANGED <<proposal, decision, verdicts>>

GNext ==
  \/ GPropose \/ GEvaluate \/ GSettle \/ GRecordVerdict \/ GApplyVerdict
  \/ GRelease \/ GWithdraw

GSpec == GInit /\ [][GNext]_gvars
=============================================================================
