SPECIFICATION Spec
SYMMETRY Symmetric
CONSTANTS
  Run = {r1, r2}
  Worker = {w1, w2}
  Pool = {w1, w2}
  PoolID <- OwnPool
  Copy = {n1}
  Container = {k1}
  Def = {"async"}
  Index = {"script"}
  DefIndex <- MCDefIndex
  Async <- MCAsync
  Mcpu <- MCMcpu
  Limit <- MCLimit
  MCPU = 3
  WorkerRetry = 2
  WorkerErrorThreshold = 2
  MaxCounted = 2
  Events = {"fail", "error", "cancel", "evict"}
  None = None
INVARIANTS
  TypeOK
  CPUAccounted
  OpenWhileUsed
  RegisteredAlive
  AsyncLimited
CHECK_DEADLOCK FALSE
