SPECIFICATION FairSpec
CONSTANTS
  r1 = r1
  r2 = r2
  source = source
  environment = environment
  Run = {r1, r2}
  Key = {source, environment}
  Kind <- MCKind
  Needs <- MCNeeds
  LBRetry = 1
  Events = {"download", "network", "stop"}
  Outages = TRUE
  None = None
INVARIANTS
  RunningSafe
  QueueKnown
PROPERTIES
  RunsEnd
CHECK_DEADLOCK FALSE
