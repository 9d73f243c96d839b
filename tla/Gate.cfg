SPECIFICATION FairSpec
CONSTANTS
  Requests = {r1, r2, r3}
INVARIANTS
  NoOrphan
PROPERTIES
  ImplementsSingleFlight
  LeavesEitherWay
CHECK_DEADLOCK FALSE
