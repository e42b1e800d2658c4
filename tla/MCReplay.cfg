SPECIFICATION Spec
CONSTANTS
  Requests <- MCRequests
  Runs <- MCRuns
INVARIANTS
  CompletedReplayIsFaithful
  AnswersAreTrue
  DiffHangsTogether
  DiffTellsTheTruth
