SPECIFICATION FairSpec
CONSTANTS
  Uploader = {u1, u2}
  Key = {k1}
  Ticket = {t1, t2}
  Capacity = 1
  Events = {"break", "disk", "expire", "timeout"}
  None = None
PROPERTIES
  KeepsPromise
  LockReleased
CHECK_DEADLOCK FALSE
