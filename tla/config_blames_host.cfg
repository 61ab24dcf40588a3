SPECIFICATION Spec
CONSTANTS
  h1 = h1
  k1 = k1
  k2 = k2
  NoKey = NoKey
  NoProfile = NoProfile
  Hosts <- OneHost
  Keys <- TwoKeys
  Signers <- TwoSigners
  Profiles <- SomeProfiles
  Settings <- LineBreak
  MaxEdits = 1
  MaxFailures = 1
INVARIANT
  ConfigSparesHost
