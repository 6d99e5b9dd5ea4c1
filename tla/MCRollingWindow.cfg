SPECIFICATION WindowSpec
CONSTANTS
  Sessions = {s1, s2}
  Window = 2
  Overlap = 1
  Delay = 2
  Ttl = 2
  QuoteMaxAge = 1
  LastDay = 3
  MaxSyncs = 3
SYMMETRY Symmetric
CHECK_DEADLOCK FALSE
INVARIANTS WindowComplete FreshMeansAnswered
