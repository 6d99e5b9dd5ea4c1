CONSTANTS
  MaxDay = 2
  TradingDays = {0, 2}
  CalendarDays = 1
  MaxAge = 1
  DemoMaxAge = 1
  WashWindow = 1
  CryptoWindow = 2
  MinLoss = 4
  Price = 2
  MaxDelay = 1
  Purchases <- MCPurchases
  MaxBuys = 1
  Issued <- MCIssued
  MaxStatements = 2
  Facts <- MCFacts
SPECIFICATION Spec
INVARIANTS
  NoHiddenPurchase
  PriceIsCurrent
