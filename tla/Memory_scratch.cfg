CONSTANTS
  Proc = {0, 1, 2}
  Idle = 0
  InitProc = 1
  NULL = NULL
  Invalid = Invalid
  FrameCount = 14
  PtLen = 5
  FirstText = 1
  OrigBrk = 2
  StackBase = 4
  StackPages = 2
  Programs <- MCPrograms
  Value = {"stored"}
  Image = "image"
  Junk = "junk"
  MaxKernelBrk = 4
  LateGrowth = 0
SPECIFICATION Spec
INVARIANTS HeapMapped
