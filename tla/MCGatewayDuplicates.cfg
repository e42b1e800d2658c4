SPECIFICATION Spec
CONSTANTS
  MaxRequests = 3
  Keys = {k1}
  NoKey = NoKey
  Deployments <- Deployed
  MaxInFlight = 2
  MaxRestarts = 0
  MaxFaults = 0
INVARIANTS
  DuplicatesDoNotFork
