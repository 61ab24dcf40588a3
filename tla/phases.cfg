SPECIFICATION FairSpec
CONSTANTS
  h1 = h1
  k1 = k1
  k2 = k2
  NoKey = NoKey
  NoProfile = NoProfile
  Hosts <- OneHost
  Keys <- TwoKeys
  Signers <- TwoSigners
  Profiles <- SomeProfiles
  Settings <- SomeSettings
  MaxEdits = 1
  MaxFailures = 1
INVARIANTS
  TypeOK
  VerifiedRunsSigned
  PinnedMachineOnly
PROPERTIES
  OnlyHostFaultsPark
  RebootVerdictRight
  PhaseEnds
  StrandedKubeletLeaves
