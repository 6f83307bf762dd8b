SPECIFICATION Spec
CONSTANTS
  a = a
  b = b
  ann = ann
  plain = plain
  inside = inside
  joined = joined
  Names = {a, b}
  Urls = {plain, inside, joined}
  Users = {ann}
  MaxId = 2
  Procs = {p1}
  Writers = {w1}
  Writes <- Statements
  Callers <- Visitors
  Configs <- Configurations
  Body <- Bodies
  Values <- Expansions
  Ttl = 1
  Lag = 1
INVARIANTS
  TypeOK
  StalenessBounded
  OneUsePerRedirect
  AcceptedIsFollowed
