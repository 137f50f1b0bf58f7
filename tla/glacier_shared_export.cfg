SPECIFICATION Spec
CONSTANTS
  s1 = s1
  s2 = s2
  Servers <- OneServer
  Workers <- TwoServers
  ServerOf <- SameServer
  Thawers <- OneServer
  Formats <- Exportable
  Orders <- OnlyTgz
  Faults <- NoFaults
  MaxFaults = 0
INVARIANTS
  IdsNameExports
CHECK_DEADLOCK FALSE
