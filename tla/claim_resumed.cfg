SPECIFICATION Spec
CONSTANTS
  a = a
  b = b
  u1 = u1
  u2 = u2
  t1 = t1
  t2 = t2
  NoClaim = NoClaim
  NoToken = NoToken
  NoUID = NoUID
  NoKubelet = NoKubelet
  ForeignKubelet = ForeignKubelet
  ForeignNode = ForeignNode
  NoNode = NoNode
  Unbounded = Unbounded
  NHosts = 2
  NodeClaims <- OneClaim
  TokenIDs <- TwoTokens
  ForeignHosts = {}
  MaxFaults = 1
  MaxFailures = 0
  MaxProbes = 2
INVARIANTS
  AtMostOneHostPerClaim
CHECK_DEADLOCK FALSE
