SPECIFICATION Spec
CONSTANTS
  SessionAge = 1
  Lag = 1
  Procs = {p1, p2}
  r1 = r1
  r2 = r2
  Raws = {r1, r2}
  MaxKeys = 2
  Requests <- KeyRequests
  HeaderAuth = TRUE
  HeaderAdmin = TRUE
  Anonymous = "off"
SYMMETRY Sym
INVARIANTS
  ReadOnlyKeysOnlyRead
  LastUsedIsHonest
PROPERTIES
  RevokedAdminIsOut
  DeletesTheListedKey
