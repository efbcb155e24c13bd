\* A message and its retry while a member and a device come and go.
SPECIFICATION FairSpec
CONSTANTS
  Request = {r1, r2}
  Device = {a1, a2, b1}
  Dto <- FanoutDto
  ChangingMember = {bek}
  ChangingDevice = {b1}
  Faults = {"crash", "redis", "job"}
  MaxAttempts = 2
  Group = {g1}
  User = {ana, bek, cem}
  Key = {k1, k2}
  Media = {pic}
  Uploaded = {pic}
  MaxAttachments = 1
  Owner <- MCOwner
  MediaOwner <- MCMediaOwner
  Members <- MCMembers
  ana = ana
  bek = bek
  cem = cem
  a1 = a1
  a2 = a2
  b1 = b1
  c1 = c1
  k1 = k1
  k2 = k2
  pic = pic
  g1 = g1
  g2 = g2
  r1 = r1
  r2 = r2
  None = None
  Failed = Failed
  Conflict = Conflict
CHECK_DEADLOCK FALSE
INVARIANT AnnouncedIsStored
PROPERTY FanoutCompletes
