SPECIFICATION FairSpec
CONSTANTS
  Driver = driver
  Cancellers = {}
  Approvers = {a1}
  Workflows <- AllWorkflows
  Contexts <- AllContexts
  HasModelRuntime = TRUE
  HasTooling = TRUE
INVARIANTS
  FailsOnlyWhenRefused
PROPERTIES
  LifecycleImplemented
