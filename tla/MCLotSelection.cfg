CONSTANTS
  Lots = {1, 2, 3}
  Symbols = {"a", "b"}
  SymbolOf <- TwoAndOne
  Precision = 10
  Quantities = {5, 12, 20}
  Bases = {5, 8}
  Prices = {1, 5}
  Dates = {0}
  Results <- GainsAndLosses
SPECIFICATION Spec
INVARIANTS
  TargetIsMet
  SelectedIsOwned
  LargestFirst
