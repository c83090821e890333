\* As Provisions: two ids are asked, and the name of the first is
\* registered anew as the second between the two lookups.
SPECIFICATION ProvisionSpec
CONSTANTS
  Names <- MCNames
  Harnesses <- Nothing
  HarnessToolNames <- Nothing
  NoTool = NoTool
  Clients = {c1}
  Instances = {"i1"}
  Payloads <- MCPayloads
  Reports <- Nothing
  MaxSeq = 2
  MaxClock = 1
  Consumers = {k1}
  Wants <- MCWants
  Providers = {"github"}
  Unmapped = "unmapped"
  EnvKeys <- MCEnvKeys
INVARIANT EveryIdIsAnswered
\* A registry nobody calls stays as it is.
CHECK_DEADLOCK FALSE
