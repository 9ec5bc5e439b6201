CONSTANTS
  w1 = w1
  w2 = w2
  BodyLimit = 22
  TopGroups = 2
  DetailsCaps <- MCCaps
  MessageCap = 4
  MessageLength <- MCMessageLength
  Wake = {w1, w2}
  Timer = {w1, w2}
  Noise <- MCNoise
  MaxFaults = 1
SPECIFICATION FairSpec
INVARIANTS DigestIsHonest
PROPERTIES DigestAccountsForAll FlushIsBounded
CHECK_DEADLOCK FALSE
