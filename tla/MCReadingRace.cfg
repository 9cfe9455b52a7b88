CONSTANTS
  r1 = r1
  r2 = r2
  r3 = r3
  c1 = c1
  c2 = c2
  Readings = {r1, r2, r3}
  Cells = {c1, c2}
  NULL = NULL
  FLASH = FLASH
  Handler = Handler
  Shell = Shell
  Threads = {Handler, Shell}
  MAX_READING_LIST_SIZE = 2
  LEN_MOD = 4
  MAX_SENDS_PER_PERIOD = 2
SYMMETRY Symmetry
SPECIFICATION RaceSpec
PROPERTIES SettledIsStored
