CONSTANTS
  p1 = p1
  p2 = p2
  l1 = l1
  l2 = l2
  Keys = {k1}
  Period <- SameDay
  Portfolios = {p1}
  Lots = {l1, l2}
  PortfolioOf <- Together
  Requests = {q1, q2}
  Kinds = {"analyse", "evaluate", "reevaluate"}
  Exclusive = {}
  Faults = FALSE
SPECIFICATION FairSpec
PROPERTIES
  WorkEnds
