SPECIFICATION Spec
CONSTANTS
  a = a
  b = b
  c = c
  d = d
  u = u
  v = v
  ann = ann
  bob = bob
  root = root
  Names = {a, b, c, d}
  Urls = {u, v}
  Users = {ann, bob, root}
  MaxId = 4
  Procs = {p1, p2}
  Requests <- LimitRequests
  Admins = {root}
  MaxAliases = 1
  AdvancedTargets = {}
  Cascade = FALSE
  Faults = TRUE
SYMMETRY Sym
INVARIANTS
  LimitSlack
