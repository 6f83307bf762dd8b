SPECIFICATION FairSpec
CONSTANTS
  Names = {1, 2, 3}
  Users = {bob}
  MaxId = 5
  MaxReshares = 1
  PageSize = 2
  Cascade = FALSE
  Faults = TRUE
INVARIANTS
  SkipsBounded
  RepeatsBounded
  OrderedWithoutCreations
  SharesOfTheLink
PROPERTIES
  ExportEnds
CHECK_DEADLOCK FALSE
