\* Opt-ins, registrations and reports of two callers; ids up to 3, so that a
\* deleted tool is registered again under a new id.
SPECIFICATION Spec
CONSTANTS
  Names <- MCNames
  Harnesses <- MCHarnesses
  HarnessToolNames <- MCHarnessToolNames
  NoTool = NoTool
  Clients = {c1, c2}
  Instances = {i1}
  Payloads <- MCPayloads
  Reports <- MCReports
  MaxSeq = 2
  MaxClock = 2
SYMMETRY ClientsAlike
INVARIANTS
  TypeOK
  OptInsHoldLiveTools
  HeldIdsStayTrue
  IdsIdentifyTools
  RowsPassTheSchemaChecks
PROPERTIES
  OptInIsForTheNamedTool
  OptInsOnlyLeaveWhenAskedTo
  LastSeenOnlyByReports
  OnlyPeopleThrowTheSwitch
\* A registry nobody calls stays as it is.
CHECK_DEADLOCK FALSE
