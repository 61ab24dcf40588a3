SPECIFICATION FairSpec
CONSTANTS
  a = a
  b = b
  u1 = u1
  u2 = u2
  t1 = t1
  t2 = t2
  NoClaim = NoClaim
  NoToken = NoToken
  NoUID = NoUID
  NoKubelet = NoKubelet
  ForeignKubelet = ForeignKubelet
  ForeignNode = ForeignNode
  NoNode = NoNode
  Unbounded = Unbounded
  NHosts = 1
  NodeClaims <- OneClaim
  TokenIDs <- TwoTokens
  ForeignHosts = {}
  MaxFaults = 0
  MaxFailures = 1
  MaxProbes = Unbounded
INVARIANTS
  ReleasedHostIsClean
PROPERTIES
  ReleaseDeletesToken
  DeletionCompletes
  LaunchSettles
  TokensCollected
  ZombieDisconnected
