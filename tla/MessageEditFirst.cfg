\* The first edit of a message.
SPECIFICATION Spec
CONSTANTS
  Edit = {e1, e2}
  Key = {k1, k2}
  KeyOf <- MCKeyOf
  e1 = e1
  e2 = e2
  k1 = k1
  k2 = k2
  Device = {d1}
  NULL = NULL
CHECK_DEADLOCK FALSE
INVARIANT AcceptedEditIsApplied
