CONSTANTS
  Proc = {0, 1, 2}
  Idle = 0
  InitProc = 1
  NULL = NULL
  Pc = {"a", "b"}
  Entry = "entry"
  Stale = Stale
  None = None
SPECIFICATION Spec
INVARIANTS TypeOK
PROPERTIES OwnRegisters
