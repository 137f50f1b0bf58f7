SPECIFICATION FairSpec
CONSTANTS
  s1 = s1
  s2 = s2
  d1 = d1
  d2 = d2
  Servers <- TwoServers
  p1 = p1
  p2 = p2
  Putters <- TwoThreads
  Placements <- ApartOrTogether
  Readers <- SecondServer
  Data <- TwoData
  DataOf <- OneEach
  Faults <- AllFaults
  MaxFaults = 1
INVARIANTS
  TypeOK
  PutMeansStored
PROPERTIES
  NeverReplaced
  EventuallyRead
