SPECIFICATION Spec
CONSTANTS
  a1 = a1
  a2 = a2
  c1 = c1
  s1 = s1
  s2 = s2
  s3 = s3
  p1 = p1
  p2 = p2
  Archivers <- TwoArchivers
  Copiers <- OneCopier
  Servers <- ThreeServers
  ServerOf <- OnThreeServers
  Parts <- TwoParts
CHECK_DEADLOCK FALSE
INVARIANTS TypeOK NeverPartial NoDataLoss
PROPERTIES ArchiveOnlyGrows KeepsThePromise
