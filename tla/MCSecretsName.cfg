SPECIFICATION Spec
CONSTANTS
  Request = {r0, r1, r2, r3}
  SeededEnvs = {r0}
  Name = {n1}
  None = None
SYMMETRY Symmetry
CHECK_DEADLOCK FALSE
INVARIANT NameTakenOnlyByLiveSecret
