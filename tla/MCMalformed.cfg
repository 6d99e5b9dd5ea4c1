CONSTANTS
  AsOfs <- MCHarmed
  MinHistory = 246
  MinRows = 78
  PageRows = 62
  Books <- MCBooks
  HistoricalDay <- MCHistorical
  HarmedAsOfs <- MCHarmed
  HarmedRows = {1, 2, 6, 7, 9, 12, 30, 50, 51, 64, 80, 81}
  Harms = {"closing"}
CHECK_DEADLOCK FALSE
SPECIFICATION Spec
INVARIANT
  MalformedHasCode
