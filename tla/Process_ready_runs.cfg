CONSTANTS
  Proc = {0, 1, 2}
  Idle = 0
  InitProc = 1
  MAX_PROCS = 3
  Word = 4
  NULL = NULL
  MaxDelay = 2
SPECIFICATION FairSpec
PROPERTIES ReadyRuns
