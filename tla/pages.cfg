SPECIFICATION FairSpec
CONSTANTS
  everything = everything
  range = range
  Invalid = Invalid
  NoCriteria = NoCriteria
  Criteria <- TwoCriteria
  AllBuckets = everything
  MaxRequests = 2
INVARIANTS TypeOK QuietPageIsUsable FlushedBucketsGo
PROPERTIES ActsOnWhatItShows UsableAgain
