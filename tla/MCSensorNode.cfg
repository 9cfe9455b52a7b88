CONSTANTS
  r1 = r1
  r2 = r2
  r3 = r3
  r4 = r4
  r5 = r5
  Readings = {r1, r2, r3, r4, r5}
  NULL = NULL
  MAX_READING_LIST_SIZE = 2
  LEN_MOD = 5
  MAX_SENDS_PER_PERIOD = 2
  HEAP_NODES = 4
SPECIFICATION FairSpec
INVARIANTS TypeOK Ledger CursorFollowsBatch CapHolds
PROPERTIES EvictsOnlyInLongEpisode ImplementsOutbox CatchesUp
