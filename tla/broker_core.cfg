SPECIFICATION Spec
CONSTANTS
  r1 = r1
  r2 = r2
  source = source
  environment = environment
  Run = {r1, r2}
  Key = {source, environment}
  Kind <- MCKind
  Needs <- MCNeeds
  LBRetry = 2
  Events = {"download", "evict", "network", "stop"}
  Outages = FALSE
  None = None
INVARIANTS
  TypeOK
  OneUpload
  SentWithSources
CHECK_DEADLOCK FALSE
