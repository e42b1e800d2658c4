SPECIFICATION Spec
CONSTANTS
  Executions <- MCExecutions
  Born <- MCBorn
  Workflows <- MCWorkflows
  Fates <- MCFates
  Headers <- MCHeaders
  Workloads <- MCWorkloads
  Unit = 60
  MinModelEvents = 2
  MinExecutions = 2
  MinEvaluations = 2
  MinInvocations = 2
INVARIANTS
  NothingRefused
  TenantSeesOnlyItsOwn
  InsightsGrounded
  FeedbackIsTrue
  EvaluationIsSound
CHECK_DEADLOCK FALSE
