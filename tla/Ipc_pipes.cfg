CONSTANTS
  Proc = {0, 1, 2, 3}
  Idle = 0
  InitProc = 1
  MAX_PROCS = 4
  Word = 1
  NULL = NULL
  Live = {2, 3}
  IPC_MAX_OBJECTS = 1
  Kinds = {"PIPE", "LOCK"}
  PIPE_BUFFER_LEN = 1
  INT_MAX = 7
  MaxBytes = 6
  MaxLen = 4
  CopyOrders = {"ascending"}
SPECIFICATION Spec
INVARIANTS TypeOK NoLostReader PipeFifo
