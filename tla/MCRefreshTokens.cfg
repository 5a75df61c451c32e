SPECIFICATION FairSpec
CONSTANTS
  Request = {r1, r2, r3}
  User = {u1, u2}
  None = None
CHECK_DEADLOCK FALSE
INVARIANTS TypeOK SuccessorRevokesParent BarredNeverIssued SweepComplete
PROPERTIES EveryRequestEnds
