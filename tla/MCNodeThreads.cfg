CONSTANTS
  Users = {"handler", "coap"}
  HANDLER_QUEUE_SIZE = 2
  DEFAULT_PERIOD <- DefaultPeriods
  US_PER_SEC = 2
  PERIOD_MOD = 6
  XTIMER_BACKOFF = 1
  Payloads = {0, 1, 2, 4}
  SpanBound = 5
SPECIFICATION FairSpec
INVARIANTS TypeOK AloneIsSteady DropNeedsLongSpan NextTickWithinPeriod
PROPERTIES SwitchedOffAgain
