SPECIFICATION FairWaitSpec
CONSTANTS
  Requests = {h1, r1}
  Hooked = {h1}
  Nobody = Nobody
  MaxReplays = 1
PROPERTIES
  EveryWaitEnds
CHECK_DEADLOCK FALSE
