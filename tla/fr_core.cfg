SPECIFICATION Spec
SYMMETRY Symmetric
CONSTANTS
  Uploader = {u1, u2}
  Key = {k1, k2}
  Ticket = {t1, t2, t3}
  Capacity = 1
  Events = {"break", "disk", "expire", "timeout"}
  None = None
INVARIANTS
  TypeOK
  ServedComplete
  NoLeftovers
  NoStaleLock
CHECK_DEADLOCK FALSE
