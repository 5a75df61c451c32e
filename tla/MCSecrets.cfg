SPECIFICATION Spec
CONSTANTS
  Request = {r0, r1, r2, r3, r4}
  SeededEnvs = {r0}
  Name = {n1, n2}
  None = None
SYMMETRY Symmetry
CHECK_DEADLOCK FALSE
INVARIANTS
  TypeOK StoreInv VersionChain OneSecretPerName EveryVersionDecryptable
  RevealFresh DeleteIsFinal RevealAudited
PROPERTIES HistoryKept
