SPECIFICATION Spec
SYMMETRY Symmetric
CONSTANTS
  Req = {r1, r2}
  Cont = {c1, c2, c3}
  Def = {"sync", "heavy"}
  Runtime = {"nodejs"}
  Index = {"script", "other"}
  DefRuntime <- MCDefRuntime
  DefIndex <- MCDefIndex
  Async <- MCAsync
  Weight <- MCWeight
  Concurrency = 2
  Capacity = 3
  Events = {"run", "ttl", "stop"}
  None = None
INVARIANTS
  TypeOK
  ConnLimited
  KeptAlive
  SemaphoreAccounted
  QuietIsFree
  StopPoolStops
