CONSTANTS
  Proc = {0, 1, 2, 3}
  Idle = 0
  InitProc = 1
  MAX_PROCS = 4
  Word = 1
  NULL = NULL
  Live = {2, 3}
  NUM_TERMINALS = 2
  Readers = {2}
  TERMINAL_MAX_LINE = 2
  ReadLens = {1, 2}
  WriteLens = {1, 3}
  LineLens = {2}
  MaxInput = 4
  MaxLines = 2
SPECIFICATION Spec
INVARIANTS TypeOK OneChunk WritersSound WholeWrite NoByteLost ReadInOrder
PROPERTIES WriteUnbroken
