SPECIFICATION Spec
CONSTANTS
  FullBps = 8
  Totals <- SmallTotals
  Buckets <- SmallBuckets
INVARIANTS
  SharesAreExact
  LargerBucketsGetMore
  PairIsTheSplit
CHECK_DEADLOCK FALSE
