CONSTANTS
  x1 = x1
  Requests = {x1}
  MAX_RETRANSMIT = 4
  None = None
SPECIFICATION Spec
INVARIANTS ListenerSurvives
CHECK_DEADLOCK FALSE
