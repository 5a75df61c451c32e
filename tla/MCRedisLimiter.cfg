SPECIFICATION FairSpec
CONSTANTS
  Client = {c1, c2, c3}
  Limit = 2
  Window = 3
  None = None
INVARIANTS TypeOK KeyExpires SlidingBound
PROPERTIES ImplementsWindow RecoversUnlessLost
