CONSTANTS
  MS_PER_SEC = 3
  COUNTER_MOD = 10
  MAX_AGE = 2
  SERVER_START = 50
  Horizon = 24
  None = None
SPECIFICATION FairSpec
INVARIANTS TypeOK StampIsAccurate StampsKeepOrder
PROPERTIES ClockRecovers
CHECK_DEADLOCK FALSE
