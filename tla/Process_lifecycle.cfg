CONSTANTS
  Proc = {0, 1, 2, 3}
  Idle = 0
  InitProc = 1
  MAX_PROCS = 4
  Word = 4
  NULL = NULL
  MaxDelay = 2
SPECIFICATION FairSpec
INVARIANTS TypeOK SchedulerSound FamilySound NoMissedExit NoOversleep
PROPERTIES ReapedByParent QueuedRuns ExitCollected DelayEnds
