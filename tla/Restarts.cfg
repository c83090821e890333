\* Two stops, at any point, among the requests of one caller, who may give the
\* name of the seeded harness tool to another kind.
SPECIFICATION FairStoreSpec
CONSTANTS
  Names <- MCNames
  Harnesses <- MCHarnesses
  HarnessToolNames <- MCHarnessToolNames
  NoTool = NoTool
  Clients = {c1}
  Instances <- NoInstances
  Payloads <- MCPayloads
  Reports <- MCReports
  Seeds <- MCSeeds
  MaxSeq = 4
  MaxClock = 1
  MaxStops = 2
PROPERTIES
  RestartsKeepEverySwitch
  RestartsLeaveHarnessRowsAlone
  ServingMeansSeeded
  OnlyATakenNameKeepsItDown
\* A service nobody calls stays as it is.
CHECK_DEADLOCK FALSE
