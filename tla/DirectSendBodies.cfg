\* Three requests with attachments, replies and a device that comes and goes.
SPECIFICATION Spec
CONSTANTS
  Request = {r1, r2, r3}
  Device = {a1, b1, b2, c1}
  Changing = {b2}
  Dto <- BodiesDto
  ana = ana
  bek = bek
  cem = cem
  a1 = a1
  b1 = b1
  b2 = b2
  c1 = c1
  k1 = k1
  k2 = k2
  pic = pic
  r1 = r1
  r2 = r2
  User = {ana, bek, cem}
  Key = {k1, k2}
  Media = {pic}
  Uploaded = {pic}
  MaxAttachments = 1
  Owner <- MCOwner
  MediaOwner <- MCMediaOwner
  None = None
  Failed = Failed
CHECK_DEADLOCK FALSE
INVARIANTS MediaBoundOnce RetryShowsStored RepliesAreFlat
