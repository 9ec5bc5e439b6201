CONSTANTS
  w1 = w1
  w2 = w2
  w3 = w3
  h1 = h1
  h2 = h2
  NoWake = NoWake
  Wake = {w1, w2, w3}
  Host = {h1, h2}
  HostOf <- MCHostOf
  StaleAfter = 3
  MaxRun = 1
  MaxSkew = 1
  MaxTime = 2
  MaxFaults = 1
  MaxKills = 0
SPECIFICATION RetrySpec
INVARIANT MutualExclusion
CHECK_DEADLOCK FALSE
