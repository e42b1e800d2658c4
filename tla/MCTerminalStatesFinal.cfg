SPECIFICATION Spec
CONSTANTS
  Driver = driver
  Cancellers = {c1}
  Approvers = {}
  Workflows <- DefaultWorkflow
  Contexts <- ProdContexts
  HasModelRuntime = FALSE
  HasTooling = FALSE
PROPERTY
  TerminalStatesFinal
