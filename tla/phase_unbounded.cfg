SPECIFICATION FairSpec
CONSTANTS
  h1 = h1
  k1 = k1
  k2 = k2
  NoKey = NoKey
  NoProfile = NoProfile
  Hosts <- OneHost
  Keys <- TwoKeys
  Signers <- TwoSigners
  Profiles <- OneProfile
  Settings <- OneRaw
  MaxEdits = 0
  MaxFailures = 1
PROPERTY
  PhaseBounded
