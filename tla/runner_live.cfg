SPECIFICATION FairSpec
CONSTANTS
  Req = {r1, r2}
  Cont = {c1, c2, c3}
  Def = {"sync"}
  Runtime = {"nodejs"}
  Index = {"script", "other"}
  DefRuntime <- MCDefRuntime
  DefIndex <- MCDefIndex
  Async <- MCAsync
  Weight <- MCWeight
  Concurrency = 1
  Capacity = 1
  Events = {"cancel"}
  None = None
PROPERTIES
  RunsEnd
  Reclaimed
