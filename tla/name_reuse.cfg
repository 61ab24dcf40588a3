SPECIFICATION Spec
CONSTANTS
  a = a
  b = b
  u1 = u1
  u2 = u2
  t1 = t1
  t2 = t2
  NoClaim = NoClaim
  NoToken = NoToken
  NoUID = NoUID
  NoKubelet = NoKubelet
  ForeignKubelet = ForeignKubelet
  ForeignNode = ForeignNode
  NoNode = NoNode
  Unbounded = Unbounded
  NHosts = 1
  NodeClaims <- ReusedName
  TokenIDs <- TwoTokens
  ForeignHosts = {}
  MaxFaults = 1
  MaxFailures = 0
  MaxProbes = 3
INVARIANTS
  TypeOK
  ClaimMatchesState
  LeaveIsFenced
  JoinOwnsHost
  LaunchedKeepsHost
PROPERTIES
  NoClaimUnderMaintenance
  ImplementsLease
SYMMETRY ReusedSym
CHECK_DEADLOCK FALSE
