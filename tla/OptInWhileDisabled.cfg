\* As Requests: a tool is switched off between the check of its opt-in and the insert.
SPECIFICATION Spec
CONSTANTS
  Names <- MCNames
  Harnesses <- MCHarnesses
  HarnessToolNames <- MCHarnessToolNames
  NoTool = NoTool
  Clients = {c1, c2}
  Instances = {i1}
  Payloads <- MCPayloads
  Reports <- MCReports
  MaxSeq = 2
  MaxClock = 2
SYMMETRY ClientsAlike
PROPERTY OptInNeedsTheGlobalSwitch
\* A registry nobody calls stays as it is.
CHECK_DEADLOCK FALSE
