SPECIFICATION FairSpec
CONSTANTS
  Links = {l1, l2}
  Callers = {c1, c2}
  MaxUses = 2
INVARIANTS
  TypeOK
  Conservation
  NoLostWakeup
  ShutdownFlushes
PROPERTIES
  CountsAreTaken
  CloseStopsRunner
  LedgerSpec
CHECK_DEADLOCK FALSE
