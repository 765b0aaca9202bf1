\* Fills, invalidations, expiry and restarts in every order.
CONSTANTS
  r1 = r1
  r2 = r2
  w1 = w1
  w2 = w2
  None = None
  Reader <- MCReader
  Writer <- MCWriter
  TTL = 2
  MaxQuery = 1
  MaxCommits = 2
SPECIFICATION FairSpec
INVARIANT BoundedStaleness
INVARIANT InvalidationEffective
PROPERTY EventuallyFresh
