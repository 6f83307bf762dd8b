SPECIFICATION Spec
CONSTANTS
  a = a
  b = b
  c = c
  d = d
  u = u
  v = v
  ann = ann
  bob = bob
  root = root
  Names = {a, b}
  Urls = {u, v}
  Users = {ann, bob, root}
  MaxId = 2
  Procs = {p1, p2}
  Requests <- RaceRequests
  Admins = {root}
  MaxAliases = 1
  AdvancedTargets = {}
  Cascade = FALSE
  Faults = FALSE
SYMMETRY Sym
INVARIANTS
  TypeOK
  FreshIdsUnshared
  IdsDenoteNames
PROPERTIES
  OnlySeenIncarnation
  OwnerChangesOnlyByTransfer
