SPECIFICATION FairSpec
CONSTANTS
  c1 = c1
  NoHash = NoHash
  OldHash = OldHash
  NoHost = NoHost
  Claims <- OneClaim
  Legacy <- OneClaim
  MaxEdits = 2
  MaxFaults = 1
INVARIANTS
  TypeOK
  DriftIsReal
PROPERTIES
  ReadySettles
  ClassDeletionCompletes
  EditRollsOut
  NoClaimStranded
CHECK_DEADLOCK FALSE
