SPECIFICATION Spec
SYMMETRY Symmetric
CONSTANTS
  Req = {r1, r2}
  Cont = {c1, c2, c3}
  Def = {"async"}
  Runtime = {"nodejs"}
  Index = {"script", "other"}
  DefRuntime <- MCDefRuntime
  DefIndex <- MCDefIndex
  Async <- MCAsync
  Weight <- MCWeight
  Concurrency = 1
  Capacity = 3
  Events = {"memory", "stream", "ttl", "delete", "deleteID"}
  None = None
INVARIANTS
  WaitersHaveCreator
  KeptAlive
  SemaphoreAccounted
