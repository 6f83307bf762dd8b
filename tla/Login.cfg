SPECIFICATION LoginSpec
CONSTANTS
  Tabs = {t1, t2}
  States = {s1, s2, s3, s4}
  UsePKCE = TRUE
  StateAge = 1
  VerifierAge = 2
  SessionAge = 2
  Lag = 1
INVARIANTS
  LoginTypeOK
  VerifierFits
PROPERTIES
  ImplementsSessions
