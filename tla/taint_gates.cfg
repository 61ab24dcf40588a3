SPECIFICATION FairSpec
CONSTANTS
  StartupTaints <- AgentAndGPU
  OtherTaints <- TeamOnly
  GateConfigs <- Edited
  Pods = {p1}
  MinReady = 1
  MaxUpdates = 2
  MaxFlips = 2
  MaxEdits = 1
  MaxFaults = 1
  MaxRejoins = 1
INVARIANTS
  TypeOK
  PendingGateWatched
  GateNeverOpensEarly
PROPERTIES
  OthersTaintsSurvive
  OpenGateLiftsTaint
CHECK_DEADLOCK FALSE
