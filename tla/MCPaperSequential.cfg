CONSTANTS
  c1 = c1
  c2 = c2
  l1 = l1
  l2 = l2
  Candidates = {c1, c2}
  Lots = {l1, l2}
  LotOf <- OneLotTwice
  LotQty <- SmallLots
  Selected <- SelectNone
  Held = 4
  Sessions = {"s1"}
  N = 6
  MaxInFlight = 1
  MaxClock = 0
  TTL = 2
  Frozen = TRUE
  Resubmit = "returned"
  Crashes = FALSE
  BrokerStates <- FillsAndCloses
SPECIFICATION Spec
INVARIANT
  LotSoldOnce
