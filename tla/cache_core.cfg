SPECIFICATION FairSpec
CONSTANTS
  c1 = c1
  k1 = k1
  k2 = k2
  Container = {c1, c2}
  Key = {k1, k2}
  Length = {0, 2}
  CardinalityLimit = 1
  SizeLimit = 3
  Commands <- MCCommands
  Events = {"cut", "refuse", "expire", "restart", "split"}
  None = None
INVARIANTS
  TypeOK
  SizeAccounted
  ListBounded
  OwnReply
PROPERTIES
  Answered
CHECK_DEADLOCK FALSE
