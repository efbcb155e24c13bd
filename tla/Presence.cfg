\* Two sockets at a time and any number of connections one after another, with two
\* tickets at a time, failing commands and crashes at any point.
SPECIFICATION Spec
CONSTANTS
  Socket = {s1, s2}
  Ticket = {t1, t2}
  KeyTtl = 1
  SetTtl = 2
  None = None
SYMMETRY Interchangeable
CHECK_DEADLOCK FALSE
INVARIANTS PresenceInv KickedStayOut GhostsExpire LeftOutIsReached
