SPECIFICATION Spec
CONSTANTS
  Uploaders = {ann, bob}
  Seed = seed
  Accounts <- MCAccounts
  Generated <- MCGenerated
  Batches <- MCBatches
  MaxSeeds = 2
  MaxSubmissions = 1
  MaxBytes = 2
CHECK_DEADLOCK FALSE
INVARIANTS SeedFailsOnlyInARace SeedIsWhole NoTradeLeftBehind EveryNameOnce
PROPERTIES SeedSparesUploads
