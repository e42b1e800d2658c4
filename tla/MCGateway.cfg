SPECIFICATION FairSpec
CONSTANTS
  MaxRequests = 3
  Keys = {k1}
  NoKey = NoKey
  Deployments <- Deployed
  MaxInFlight = 2
  MaxRestarts = 1
  MaxFaults = 1
INVARIANTS
  StartedOnce
  LateDuplicatesForkNothing
PROPERTIES
  FiniteExit
