\* Two suspensions at once, one revocation, a login, a message, one failure; or three
\* requests of any kind about two messages that two users report.
SPECIFICATION ModerationSpec
CONSTANTS
  Suspend = {s1, s2}
  Unsuspend = {u1}
  Login = {l1}
  Message = {m1}
  Cron = Cron
  MaxFaults = 1
  None = None
  Reporter = {a1, a2}
  Reported = {m1, m2}
  Handling = {h1, h2, h3}
  DailyLimit = 1
  AddressLimit = 2
  Address = Address
  NoStatus = NoStatus
CHECK_DEADLOCK FALSE
INVARIANTS SuspensionInv ReportInv ClosedStaysClosed TombstonedIsDecided LogTellsStatus
PROPERTY LapsedIsRevoked
