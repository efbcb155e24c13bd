\* Four requests of any kind on a message of a group of up to two users.
SPECIFICATION Spec
CONSTANTS
  Request = {r1, r2, r3, r4}
  User = {u1, u2}
  Emoji = {e1, e2}
  None = None
SYMMETRY Interchangeable
CHECK_DEADLOCK FALSE
INVARIANTS ReactionInv EventsConverge
