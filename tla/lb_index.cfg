SPECIFICATION Spec
SYMMETRY Symmetric
CONSTANTS
  Run = {r1}
  Worker = {w1, w2}
  Pool = {"pool"}
  PoolID <- SamePool
  Copy = {n1}
  Container = {k1, k2}
  Def = {"sync", "async"}
  Index = {"script"}
  DefIndex <- MCDefIndex
  Async <- MCAsync
  Mcpu <- MCMcpu
  Limit <- MCNoLimit
  MCPU = 3
  WorkerRetry = 2
  WorkerErrorThreshold = 1
  MaxCounted = 2
  Events = {"lost", "early", "error", "fail", "evict", "again"}
  None = None
INVARIANTS
  RegisteredAlive
  OpenWhileUsed
  IndexCounts
  WorkerForgotten
CHECK_DEADLOCK FALSE
