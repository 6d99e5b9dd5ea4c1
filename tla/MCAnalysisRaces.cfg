CONSTANTS
  p1 = p1
  p2 = p2
  l1 = l1
  l2 = l2
  Keys = {k1, k2}
  Period <- SameDay
  Portfolios = {p1, p2}
  Lots = {l1, l2}
  PortfolioOf <- Apart
  Requests = {q1, q2, q3}
  Kinds = {"analyse", "reevaluate"}
  Exclusive = {k1}
  Faults = TRUE
SYMMETRY AnyOrder
SPECIFICATION Spec
INVARIANTS
  
  LockIsExclusive
  PendingIsLocked
  CompletedIsDone
PROPERTIES
  RunSettles
  RejectionSettles
