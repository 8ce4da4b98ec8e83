CONSTANTS
  Proc = {0, 1, 2, 3}
  Idle = 0
  InitProc = 1
  MAX_PROCS = 4
  Word = 1
  NULL = NULL
  Live = {2, 3}
  IPC_MAX_OBJECTS = 2
  Kinds = {"PIPE", "LOCK", "CVAR"}
  PIPE_BUFFER_LEN = 1
  INT_MAX = 7
  MaxBytes = 1
  MaxLen = 1
  CopyOrders = {"ascending"}
SPECIFICATION FairSpec
INVARIANTS SchedulerSound WaitersSound LockSound
PROPERTIES NoBarging HandoffCompletes WokenReaderRuns
