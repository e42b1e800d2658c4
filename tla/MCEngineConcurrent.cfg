SPECIFICATION FairSpec
CONSTANTS
  Driver = driver
  Cancellers = {c1}
  Approvers = {a1, a2}
  Workflows <- GovernedWorkflows
  Contexts <- ProdContexts
  HasModelRuntime = TRUE
  HasTooling = TRUE
INVARIANTS
  TypeOK
  CompletedIsValidated
  CompletionAuthorized
  EvidenceComplete
  RecordCoherent
  EndsAreAccountedFor
PROPERTIES
  SettledForGood
  GovernanceImplemented
  Settles
