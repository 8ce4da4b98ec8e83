CONSTANTS
  Queues = {"ready", "waiters"}
  Entries = {"a", "b", "c", "d"}
  NULL = NULL
SPECIFICATION Spec
INVARIANTS LinksSound LengthSound
PROPERTIES IsFifo
