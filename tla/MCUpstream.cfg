CONSTANTS
  x1 = x1
  Requests = {x1}
  MAX_RETRANSMIT = 4
  None = None
SPECIFICATION FairSpec
INVARIANTS TypeOK  EmptyNeedsCause 
PROPERTIES CallReturns ListenerComesBack
CHECK_DEADLOCK FALSE
