\* One consumer and one caller, two tools; ids up to 2 when the last
\* creating request arrives.
SPECIFICATION ProvisionSpec
CONSTANTS
  Names <- MCNames
  Harnesses <- Nothing
  HarnessToolNames <- Nothing
  NoTool = NoTool
  Clients = {c1}
  Instances = {"i1"}
  Payloads <- MCPayloads
  Reports <- Nothing
  MaxSeq = 2
  MaxClock = 1
  Consumers = {k1}
  Wants <- MCWants
  Providers = {"github"}
  Unmapped = "unmapped"
  EnvKeys <- MCEnvKeys
INVARIANTS ProvisionTypeOK HandsOutOnlyWhatWasOnOffer AnswersAreWhole
\* A registry nobody calls stays as it is.
CHECK_DEADLOCK FALSE
