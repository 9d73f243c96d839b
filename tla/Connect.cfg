SPECIFICATION FairSpec
CONSTANTS
  Clients <- MCClients
  MaxPanics = 2
  Userinfos = {u1, u2, u3}
  NoUser = NoUser
  MaxProxyUserinfos = 2
INVARIANTS
  APIHopChecked
  NoConnLost
  ProxyScrubbed
  PanicsAccounted
PROPERTIES
  DialSettles
CHECK_DEADLOCK FALSE
