SPECIFICATION FairSpec
CONSTANTS
  s1 = s1
  s2 = s2
  Servers <- TwoServers
  Workers <- TwoServers
  ServerOf <- OwnServer
  Thawers <- SecondServer
  Formats <- Exportable
  Orders <- TwoOrders
  Faults <- AllFaults
  MaxFaults = 1
INVARIANTS
  TypeOK
  IdsNameExports
  ArchivedIsFindable
PROPERTIES
  KeepsThePromise
  EventuallyArchived
CHECK_DEADLOCK FALSE
