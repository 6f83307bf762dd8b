SPECIFICATION FairSpec
CONSTANTS
  Tabs = {t1, t2}
  Configs <- Configurations
  Starts <- Addresses
  MaxTokens = 5
  MaxStates = 3
  MaxLapses = 1
INVARIANTS
  LandsWhereAsked
  LoginFailsOnlyIfOvertaken
  FormsCarriedOut
PROPERTIES
  VisitEnds
