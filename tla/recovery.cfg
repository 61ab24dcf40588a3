SPECIFICATION FairSpec
CONSTANTS
  a = a
  b = b
  u1 = u1
  u2 = u2
  t1 = t1
  t2 = t2
  NoClaim = NoClaim
  NoToken = NoToken
  NoUID = NoUID
  NoKubelet = NoKubelet
  ForeignKubelet = ForeignKubelet
  ForeignNode = ForeignNode
  NoNode = NoNode
  Unbounded = Unbounded
  NHosts = 1
  NodeClaims <- OneClaim
  TokenIDs <- TwoTokens
  ForeignHosts = {1}
  MaxFaults = 1
  MaxFailures = 0
  MaxProbes = Unbounded
PROPERTIES
  StaleClaimReleased
  LeavingResolves
