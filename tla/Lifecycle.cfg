SPECIFICATION LFairSpec
CONSTANTS
  Links = {l1}
  Callers = {c1, c2}
  MaxUses = 3
INVARIANTS
  GracefulExitKeepsUses
  NoPanicInTime
PROPERTIES
  SignalExits
CHECK_DEADLOCK FALSE
