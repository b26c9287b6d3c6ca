SPECIFICATION FairSpec
CONSTANTS
  Callers = {c1, c2}
  Attempts = 3
  MaxRequests = 2
  FailCnt = 2
  MaxFaults = 3
INVARIANTS TypeOK EffectsAgree ProbesAreCounted
PROPERTY BreakerRecovers
CHECK_DEADLOCK FALSE
