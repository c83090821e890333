\* Every database of three ids, and two interruptions.
SPECIFICATION FairMigrationSpec
CONSTANTS
  OldColumns <- MCOldColumns
  UnknownColumn = "owner"
  Ids <- MCIds
  MaxCrashes = 2
INVARIANTS MigrationTypeOK OpenMeansMigrated
PROPERTIES ImplementsToolDatabase OpeningLosesNothing NoIdIsIssuedTwice OpensUnlessUnmigratable
\* A database nobody uses stays as it is.
CHECK_DEADLOCK FALSE
