CONSTANTS
  r1 = r1
  r2 = r2
  r3 = r3
  l1 = l1
  l2 = l2
  Runs = {r1, r2, r3}
  Lots = {l1, l2}
  CodesOf <- OneOfEach
  MaxDay = 1
  WindowOf <- NoDays
  Crashes = TRUE
SYMMETRY Interchangeable
SPECIFICATION Spec
INVARIANTS
  EvaluationsCount
PROPERTIES
  HistoryIsKept
  ResolvingUndoesNothing
