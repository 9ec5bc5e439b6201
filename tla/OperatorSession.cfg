CONSTANTS
  Tab = {t1, t2}
  StateTTL = 1
  SessionTTL = 2
  MaxFlows = 3
  MaxTime = 3
  MaxMishaps = 1
SPECIFICATION LoginSpec
INVARIANTS AccessIsRecent RefreshTokenKept ReconnectRepairs
SYMMETRY MCSymmetry
CHECK_DEADLOCK FALSE
