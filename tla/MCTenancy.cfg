SPECIFICATION Spec
CONSTANTS
  ann = ann
  bob = bob
  a = a
  b = b
  pa = pa
  ea = ea
  ka = ka
  sa = sa
  va = va
  new = new
  log = log
  pb = pb
  eb = eb
  sb = sb
  Request = {r1, r2}
  User = {ann, bob}
  Org = {a, b}
  Connection = {c1, c2}
  Row = {pa, ea, ka, sa, va, new, log, pb, eb, sb}
  Named = {pa, ea, ka, sa, va, sb}
  SeedRows = {pa, ea, ka, sa, va, pb, eb, sb}
  KindOf <- MCKindOf
  Parent <- MCParent
  SeedRole <- MCSeedRole
  None = None
SYMMETRY Symmetry
CHECK_DEADLOCK FALSE
INVARIANTS TypeOK Isolation PoolSound
PROPERTIES RoleHeld ReloadFinds
