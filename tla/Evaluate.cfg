SPECIFICATION FairSpec
CONSTANTS
  Requests <- MCRequests
  Policies <- MCPolicies
  Deadlines <- MCDeadlines
  Corrections = {0, 1}
  MaxLatency = 1
INVARIANTS
  ReportAccounts
  ReplyNamesCause
PROPERTIES
  EvalEnds
CHECK_DEADLOCK FALSE
