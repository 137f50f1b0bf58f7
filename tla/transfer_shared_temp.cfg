SPECIFICATION Spec
CONSTANTS
  a1 = a1
  a2 = a2
  c1 = c1
  s1 = s1
  s2 = s2
  s3 = s3
  p1 = p1
  p2 = p2
  Archivers <- OneArchiver
  Copiers <- OneCopier
  Servers <- OneServer
  ServerOf <- OnOneServer
  Parts <- TwoParts
CHECK_DEADLOCK FALSE
INVARIANTS NoDataLoss
