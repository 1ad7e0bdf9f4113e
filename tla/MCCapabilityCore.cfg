CONSTANTS
  MaxOwners = 2
  MaxLeases = 3
  MaxGeneration = 2
  Providers <- MCProviders
  Info <- MCInfo
  Requests <- MCRequests
  GrantSets <- MCGrantSets
  Cores = {0}
  AnyCore = AnyCore
  NoProvider = NoProvider
SPECIFICATION Spec
INVARIANTS
  LeaseAccounting
  LeaseHasLiveOwner
PROPERTIES
  ImplementsRegistry
CHECK_DEADLOCK FALSE
