SPECIFICATION Spec
CONSTANTS
  Procs = {p1, p2}
  question = question
  order = order
  stranger = stranger
  Batches <- MCBatches
  Strangers <- MCStrangers
  Orders <- MCOrders
  MaxItems = 2
  MaxRequests = 3
  MaxFaults = 1
CHECK_DEADLOCK FALSE
INVARIANTS ResetIsFresh DeniedOnlyByAClose RetentionHolds
PROPERTIES EveryMessageAnswered
