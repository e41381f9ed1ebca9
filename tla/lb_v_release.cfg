SPECIFICATION FairSpec
CONSTANTS
  Run = {r1}
  Worker = {w1}
  Pool = {w1}
  PoolID <- OwnPool
  Copy = {n1, n2}
  Container = {k1}
  Def = {"sync"}
  Index = {"script"}
  DefIndex <- MCDefIndex
  Async <- MCAsync
  Mcpu <- MCMcpu
  Limit <- MCNoLimit
  MCPU = 3
  WorkerRetry = 2
  WorkerErrorThreshold = 2
  MaxCounted = 2
  Events = {"fail"}
  None = None
PROPERTIES
  ReservationsReleased
CHECK_DEADLOCK FALSE
