CONSTANTS
  Proc = {0, 1, 2, 3}
  Idle = 0
  InitProc = 1
  MAX_PROCS = 4
  Word = 1
  NULL = NULL
  Live = {2, 3}
  NUM_TERMINALS = 1
  Readers = {1, 2, 3}
  TERMINAL_MAX_LINE = 2
  ReadLens = {1}
  WriteLens = {}
  LineLens = {1, 2}
  MaxInput = 4
  MaxLines = 4
SPECIFICATION Spec
INVARIANTS NoByteLost
