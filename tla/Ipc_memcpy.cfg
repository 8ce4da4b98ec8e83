CONSTANTS
  Proc = {0, 1, 2, 3}
  Idle = 0
  InitProc = 1
  MAX_PROCS = 4
  Word = 1
  NULL = NULL
  Live = {2, 3}
  IPC_MAX_OBJECTS = 1
  Kinds = {"PIPE"}
  PIPE_BUFFER_LEN = 1
  INT_MAX = 7
  MaxBytes = 4
  MaxLen = 3
  CopyOrders = {"ascending", "descending"}
SPECIFICATION Spec
INVARIANTS PipeFifo
