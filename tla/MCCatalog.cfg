SPECIFICATION Spec
CONSTANTS
  u1 = u1
  u2 = u2
  org = org
  other = other
  proj = proj
  n1 = n1
  n2 = n2
  Request = {r1, r2}
  User = {u1, u2}
  Name = {n1, n2}
  Seed = {org, other, proj}
  SeedRow <- MCSeedRow
  SeedRole <- MCSeedRole
  Reduced = {"member", "none"}
  Nowhere = Nowhere
SYMMETRY MCSymmetry
CHECK_DEADLOCK FALSE
INVARIANTS TypeOK NamesUnique NothingOutlivesItsOrg DropOkUnlessDemoted OnlyRenamesDeadlock
