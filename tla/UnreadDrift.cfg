\* Every kind of failure, acknowledgements of both kinds, one mark-all-read.
SPECIFICATION UnreadSpec
CONSTANTS
  Message = {m1, m2}
  Device = {d1, d2}
  Ack = {ack1, ack2}
  AckStatus = {"DELIVERED", "READ"}
  MarkAll = {mark1}
  MaxAttempts = 2
  Faults = {"crash", "redis", "job"}
CHECK_DEADLOCK FALSE
INVARIANT UnreadInv
