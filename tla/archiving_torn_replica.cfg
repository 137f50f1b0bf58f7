SPECIFICATION Spec
CONSTANTS
  b1 = b1
  b2 = b2
  b3 = b3
  f1 = f1
  f2 = f2
  c1 = c1
  c2 = c2
  w1 = w1
  w2 = w2
  Server = Server
  NoBucket = NoBucket
  NoWorker = NoWorker
  NoFormat = NoFormat
  NoInode = NoInode
  Buckets <- OneBucket
  Replicated <- OneBucket
  RawOnly <- NoBuckets
  Bounds <- AloneOrTogether
  Freezers <- OneFreezer
  Workers <- OneWorker
  Formats <- OneFormat
  Actors <- ActorsOf
  ProcessOf <- ProcessOfActor
  Inodes <- EnoughInodes
  Faults <- ServerFaults
  MaxFaults = 2
INVARIANTS OnlyWholeBuckets
