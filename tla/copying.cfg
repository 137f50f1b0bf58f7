SPECIFICATION FairSpec
CONSTANTS
  b1 = b1
  f1 = f1
  f2 = f2
  c1 = c1
  c2 = c2
  w1 = w1
  w2 = w2
  Server = Server
  NoBucket = NoBucket
  NoWorker = NoWorker
  NoFormat = NoFormat
  NoInode = NoInode
  Buckets <- OneBucket
  Originals <- OneBucket
  Copiers <- TwoCopiers
  Workers <- TwoWorkers
  Formats <- TwoFormats
  Actors <- ActorsOf
  ProcessOf <- ProcessOfActor
  Inodes <- EnoughInodes
  Faults <- AllFaults
  MaxFaults = 1
INVARIANTS TypeOK ReceiptMeansArchived
PROPERTIES EventuallyCopied
