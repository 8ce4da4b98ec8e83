CONSTANTS
  Proc = {0, 1, 2, 3}
  Idle = 0
  InitProc = 1
  MAX_PROCS = 4
  Word = 1
  NULL = NULL
  Live = {2, 3}
  NUM_TERMINALS = 1
  Readers = {1, 2, 3}
  TERMINAL_MAX_LINE = 2
  ReadLens = {2}
  WriteLens = {3}
  LineLens = {0, 1, 2}
  MaxInput = 2
  MaxLines = 2
SPECIFICATION FairSpec
INVARIANTS NoSleepingReader NoByteLost
PROPERTIES WriteCompletes ReadCompletes
