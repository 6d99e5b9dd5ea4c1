CONSTANTS
  c1 = c1
  c2 = c2
  l1 = l1
  l2 = l2
  Candidates = {c1}
  Lots = {l1, l2}
  LotOf <- OwnLot
  LotQty <- SmallLots
  Selected <- SelectOne
  Held = 2
  Sessions = {"s1"}
  N = 4
  MaxInFlight = 4
  MaxClock = 2
  TTL = 1
  Frozen = FALSE
  Resubmit = "returned"
  Crashes = TRUE
  BrokerStates <- PartialFills
SPECIFICATION FairSpec
INVARIANTS
  TypeOK
  OneSalePerCandidate
  RecordedSaleIsReal
  NoConfirmationWithoutOrder
  SaleHasConsent
  FillNotOverstated
PROPERTIES
  SaleSpec
  RequestsEnd
