SPECIFICATION FairSpec
CONSTANTS
  b1 = b1
  b2 = b2
  f1 = f1
  f2 = f2
  t1 = t1
  t2 = t2
  g1 = g1
  Server = Server
  NoKey = NoKey
  NoInode = NoInode
  Preferred = f1
  Inodes <- EnoughInodes
  Thawers <- TwoThawers
  Flushers <- OneFlusher
  Buckets <- TwoBuckets
  Formats <- TwoFormats
  Packed <- TgzFormat
  FormatsOf <- OneFormatEach
  Batches <- OneAtATime
  Faults <- AllFaults
  MaxFaults = 2
INVARIANTS TypeOK OneThawerPerBucket
PROPERTIES PublishedWhole ThawedMeansImported EventuallyThawed
