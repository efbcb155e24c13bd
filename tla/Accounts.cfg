\* Four requests of any kind of a user with two devices; or three puts of any of three
\* backups.
SPECIFICATION UserDataSpec
CONSTANTS
  Request = {r1, r2, r3, r4}
  Device = {d1, d2}
  KeyId = {k1, k2}
  MaxActiveDevices = 1
  PrekeyMaxTotal = 1
  User = {u1, u2}
  Upper = Upper
  Lower = Lower
  Name <- MCName
  Fold <- MCFold
  PushToken = {p1, p2}
  None = None
  Put = {q1, q2, q3}
  Blob = {b1, b2, b3}
  NoBlob = NoBlob
SYMMETRY Interchangeable
CHECK_DEADLOCK FALSE
INVARIANTS AccountInv PrekeyHandedOnce ServesLatestRotation BackupInv ReplacedIsReclaimed
PROPERTY NewTokenSurvives
