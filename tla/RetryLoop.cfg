SPECIFICATION FairCallSpec
CONSTANTS
  Policies <- MCPolicies
  Deadlines <- MCDeadlines
  Timeouts = {0, 2}
  ServerWaits <- MCServerWaits
  MaxLatency = 3
INVARIANTS
  RetryInTime
  BlamesContext
PROPERTIES
  CallEnds
CHECK_DEADLOCK FALSE
