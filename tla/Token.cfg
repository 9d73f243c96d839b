SPECIFICATION TokenSpec
CONSTANTS
  Requests = {r1, r2, r3, r4}
  Conns = {c1, c2, h1}
  H1Conns = {h1}
  Late = {r3, r4}
  NoConn = NoConn
  MaxReplays = 2
  MaxUnsettled = 1
SYMMETRY Symmetric
ACTION_CONSTRAINT StaysExplored
INVARIANTS
  TokenConserved
  NoTimerLeft
  OneHolderUnsettled
CHECK_DEADLOCK FALSE
