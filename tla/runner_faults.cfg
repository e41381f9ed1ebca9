SPECIFICATION Spec
SYMMETRY Symmetric
CONSTANTS
  Req = {r1, r2}
  Cont = {c1, c2, c3}
  Def = {"sync", "async"}
  Runtime = {"nodejs"}
  Index = {"script", "other"}
  DefRuntime <- MCDefRuntime
  DefIndex <- MCDefIndex
  Async <- MCAsync
  Weight <- MCWeight
  Concurrency = 1
  Capacity = 1
  Events = {"run", "setup", "missing", "volume", "cancel", "update", "create", "stop"}
  None = None
INVARIANTS
  PoolConserved
  Isolated
