SPECIFICATION FairLifeSpec
CONSTANTS
  Callers = {c1, c2}
  Closers = {k1, k2}
  ClientClosers = {k1}
  Keys = {p1, p2}
  Closable = {p1}
  Nobody = Nobody
  MaxAttempts = 2
INVARIANTS
  UsesOwned
  OwnedOnce
PROPERTIES
  ImplementsShutdown
  ClosesReturn
CHECK_DEADLOCK FALSE
