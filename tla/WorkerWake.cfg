CONSTANTS
  Wake = {w1, w2}
  NoWake = NoWake
  MaxMail = 2
  MaxMishaps = 1
  MaxToggles = 1
  MaxChanges = 1
SPECIFICATION FairSpec
INVARIANTS HistoryMatchesMailbox ClosedOnExit AccessDecides LastIsNotStale
PROPERTIES RunsUnderLease EveryWakeReports
CHECK_DEADLOCK FALSE
