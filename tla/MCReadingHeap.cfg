CONSTANTS
  r1 = r1
  r2 = r2
  r3 = r3
  c1 = c1
  c2 = c2
  c3 = c3
  Readings = {r1, r2, r3}
  Cells = {c1, c2, c3}
  NULL = NULL
  Handler = Handler
  Threads = {Handler}
  MAX_READING_LIST_SIZE = 2
  LEN_MOD = 4
  MAX_SENDS_PER_PERIOD = 2
SYMMETRY Symmetry
SPECIFICATION Spec
INVARIANTS TypeOK NoLeakNoDoubleUse FreedNextIsLinked QueuedIsLinked
PROPERTIES SettledIsStored ImplementsOutbox
