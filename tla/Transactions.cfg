\* Two clients; ids up to 3 when the last creating request arrives.
SPECIFICATION FairTransactionSpec
CONSTANTS
  Names <- MCNames
  Harnesses <- MCHarnesses
  HarnessToolNames <- MCHarnessToolNames
  NoTool = NoTool
  Clients = {c1, c2}
  NoClient = NoClient
  Instances <- MCInstances
  Payloads <- MCPayloads
  Reports <- MCReports
  MaxSeq = 3
  MaxClock = 2
PROPERTIES ImplementsRegistry CreatedTellsTheTruth WriteLockIsReleased
\* A registry nobody calls stays as it is.
CHECK_DEADLOCK FALSE
