SPECIFICATION FairSpec
CONSTANTS
  Request = {r0, r1, r2, r3}
  SeededEnvs = {r0}
  Name = {n1}
  None = None
CHECK_DEADLOCK FALSE
PROPERTIES ImplementsHistory EveryRequestEnds
