SPECIFICATION FairWaitSpec
CONSTANTS
  Requests = {h1, r1}
  Hooked = {h1}
  Nobody = Nobody
  MaxReplays = 1
INVARIANTS
PROPERTIES
  BoundedWaitEnds
CHECK_DEADLOCK FALSE
