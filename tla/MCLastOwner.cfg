SPECIFICATION Spec
CONSTANTS
  Request = {r1, r2}
  User = {u1, u2}
  RolesInUse = {"owner", "admin", "member"}
  None = None
SYMMETRY Symmetry
CHECK_DEADLOCK FALSE
INVARIANT AtLeastOneOwner
