CONSTANTS
  p = p
  q = q
  r = r
  dp = dp
  dq = dq
  dr = dr
  k = k
  j = j
  None = None
  Junk <- j
  Address <- MCAddress
  IdLists <- MCIdLists
  Clusters <- MCClusters
  DataOf <- MCDataOf
  Authorities <- MCAuthorities
  Batch = 2
  MaxAttempts = 4
  MaxEvents = 2
SPECIFICATION Spec
INVARIANT TypeOK
INVARIANT OnePerId
INVARIANT FactsOnly
INVARIANT FailureIsContained
PROPERTY Returns
PROPERTY ImplementsLookup
CHECK_DEADLOCK FALSE
