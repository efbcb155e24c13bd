\* Three concurrent requests: retries, two senders, two groups.
SPECIFICATION Spec
CONSTANTS
  Request = {r1, r2, r3}
  Device = {a1, b1}
  Dto <- RaceDto
  ChangingMember = {}
  ChangingDevice = {}
  Faults = {"crash"}
  MaxAttempts = 1
  Group = {g1, g2}
  User = {ana, bek, cem}
  Key = {k1, k2}
  Media = {pic}
  Uploaded = {pic}
  MaxAttachments = 1
  Owner <- MCOwner
  MediaOwner <- MCMediaOwner
  Members <- MCMembers
  ana = ana
  bek = bek
  cem = cem
  a1 = a1
  a2 = a2
  b1 = b1
  c1 = c1
  k1 = k1
  k2 = k2
  pic = pic
  g1 = g1
  g2 = g2
  r1 = r1
  r2 = r2
  None = None
  Failed = Failed
  Conflict = Conflict
CHECK_DEADLOCK FALSE
INVARIANTS GroupInv RepliesAreFlat
PROPERTIES VisibleInOrder ImplementsMessageLog
