\* The simplification, the search slots and the connections, one at a time.
CONSTANTS
  N = 4
  Inputs <- MCInputs
  Searcher = {ana, bob}
  Search = {d1, d2, d3}
  DiscoveryRateLimit = 2
  DiscoveryCooldown = 2
  MaxClock = 3
  Never = Never
  DbCall = {l1, l2, q1, q2}
  Listing = {l1, l2}
  MaxConns = 2
  MaxRows = 2
SPECIFICATION EndsSpec
INVARIANT TypeOK
INVARIANT Settles
INVARIANT FewTransfers
INVARIANT NobodyOvershoots
PROPERTY RecursionEnds
INVARIANT SlotsCounted
PROPERTY SearchTooSoon
INVARIANT StandstillIsListings
PROPERTY CallsEnd
\* The algorithm returns, and at the end of the clock nobody may search.
CHECK_DEADLOCK FALSE
