CONSTANTS
  AsOfs <- MCAsOfs
  MinHistory = 246
  MinRows = 78
  PageRows = 62
  Books <- MCBooks
  HistoricalDay <- MCHistorical
  HarmedAsOfs <- MCHarmed
  HarmedRows = {1, 2, 6, 7, 9, 12, 30, 50, 51, 64, 80, 81}
  Harms = {"page", "row", "cell", "uncaught", "header", "closing", "scan"}
CHECK_DEADLOCK FALSE
SPECIFICATION FairSpec
INVARIANTS
  RoundTrip
  ReadAsWritten
  GeneratedIsConsistent
  MalformedIsRefused
PROPERTY
  GenerationEnds
