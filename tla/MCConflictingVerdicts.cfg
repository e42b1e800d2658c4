SPECIFICATION Spec
CONSTANTS
  Driver = driver
  Cancellers = {}
  Approvers = {a1, a2}
  Workflows <- GovernedWorkflows
  Contexts <- ProdContexts
  HasModelRuntime = FALSE
  HasTooling = FALSE
PROPERTY
  NoConflictingVerdicts
