SPECIFICATION Spec
CONSTANTS
  b1 = b1
  b2 = b2
  b3 = b3
  f1 = f1
  f2 = f2
  c1 = c1
  c2 = c2
  w1 = w1
  w2 = w2
  Server = Server
  NoBucket = NoBucket
  NoWorker = NoWorker
  NoFormat = NoFormat
  NoInode = NoInode
  Buckets <- OneBucket
  Replicated <- NoBuckets
  RawOnly <- NoBuckets
  Bounds <- AloneOrTogether
  Freezers <- TwoFreezers
  Workers <- TwoWorkers
  Formats <- OneFormat
  Actors <- ActorsOf
  ProcessOf <- ProcessOfActor
  Inodes <- EnoughInodes
  Faults <- CopyFaults
  MaxFaults = 2
INVARIANTS OneShuttlerAtATime
