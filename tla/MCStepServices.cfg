SPECIFICATION FairSpec
CONSTANTS
  NoTitle = "untitled"
  AnyVersion = "any"
  MaxRetries <- MCMaxRetries
  Corpora <- MCCorpora
  Documents <- MCDocuments
  ChunkSize = 4
  Overlap = 1
  MaxIngests = 2
  MaxFaults = 1
INVARIANTS
  FallsBackForAReason
  RetriesAreClassified
  TraceTellsTheSource
  CitationsGrounded
  DocumentsCovered
PROPERTIES
  StepsComplete
