\* Three lists; the deadline and an abort may come at any point.
SPECIFICATION FairSpec
CONSTANTS
  l1 = l1
  l2 = l2
  l3 = l3
  Lists <- ThreeLists
INVARIANTS AcceptedNotTruncated CachedListsServed
PROPERTIES BuildReturns
