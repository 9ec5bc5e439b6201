CONSTANTS
  Base <- MCBase
  MaxFiles = 3
  Lists = 3
  Deadline = 90
  CallTime = 10
  FileTime = 30
  Backoff = 2
  Retries = 2
  Cutoff = 230
SPECIFICATION FairSpec
INVARIANTS EndsInTime DoneMeansWhole
CHECK_DEADLOCK FALSE
