SPECIFICATION Spec
CONSTANTS
  Request = {r1, r2, r3, r4}
  User = {u1}
  None = None
SYMMETRY Symmetry
CHECK_DEADLOCK FALSE
INVARIANT RotatedOnce
