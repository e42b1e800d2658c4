SPECIFICATION Spec
CONSTANTS
  Requests <- MCRequests
  Runs <- MCRuns
INVARIANT StartedReplayRuns
