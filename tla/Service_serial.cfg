SPECIFICATION Spec
CONSTANTS
  a = a
  b = b
  c = c
  d = d
  u = u
  v = v
  ann = ann
  bob = bob
  root = root
  Names = {a, b, c}
  Urls = {u, v}
  Users = {ann, bob, root}
  MaxId = 3
  Procs = {p1}
  Requests <- AllRequests
  Admins = {root}
  MaxAliases = 2
  AdvancedTargets = {u, v}
  Cascade = TRUE
  Faults = FALSE
INVARIANTS
  CacheCoherent
PROPERTIES
  OmittedFieldsUnchanged
  AliasesStayOneHop
