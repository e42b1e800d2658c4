SPECIFICATION FairSpec
CONSTANTS
  MaxRetries = 2
  MaxFlagChanges = 3
INVARIANTS
  TypeOK
  OneHandlerAtATime
  StartsWithinBudget
  CancellationStopsRetries
  AuditAgreesWithHandlers
PROPERTIES
  InvocationReturns
