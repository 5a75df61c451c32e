SPECIFICATION Spec
CONSTANTS
  Runner = {a1, a2}
  Operator = operator
  Migrate = migrate
  App = app
  None = None
SYMMETRY Symmetry
INVARIANTS TypeOK ShapeFollowsRevision RuntimeReady MigrateSuffices
