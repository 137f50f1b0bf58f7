SPECIFICATION FairSpec
CONSTANTS
  b1 = b1
  b2 = b2
  i1 = i1
  i2 = i2
  n1 = n1
  n2 = n2
  splunk = splunk
  tgz = tgz
  Default = splunk
  Unknown = Unknown
  NoName = NoName
  NoBucket = NoBucket
  NoFormat = NoFormat
  Buckets <- TwoBuckets
  Formats <- TwoFormats
  MaxTime = 3
  Day = 2
  Span <- Spans
  Indexers <- TwoIndexers
  OriginOf <- Origins
  HoldersOf <- Holders
  FormatsOf <- OneHasTwoFormats
  Names <- TwoNames
  NameOf <- NamesAtFirst
  Priorities <- TgzFirst
  Ranges <- FirstDayAndNone
  Listers <- TheFirst
  Faults <- AllFaults
  MaxFaults = 1
  Renamable <- TheFirst
INVARIANTS TypeOK OneLocation OriginalSurvives ListingIsTrue
PROPERTIES DiskIsFreed
