SPECIFICATION Spec
CONSTANTS
  NHosts = 3
  HostSpecs <- AllSpecs
  Requests <- AllRequests
  Archs = {"amd64"}
  AnyArch = AnyArch
  TypeNames <- OnlyB
  Reserved <- OneReserved
  MaxPods = NoMaxPods
  NoMaxPods = NoMaxPods
  DefaultPods = 2
  Prices = {1}
  BadPrice = BadPrice
  MaxChanges = 1
INVARIANTS
  CatalogueIsExact
  NoFalseExhaustion
  CheapestFirst
  LaunchFits
CHECK_DEADLOCK FALSE
